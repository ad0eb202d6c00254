------------------------------ MODULE KconfigDeps ------------------------------
(***************************************************************************)
(* The search for recursive dependencies of nemu/tools/kconfig/symbol.c: a *)
(* Kconfig file in which the value of a symbol depends on itself is        *)
(* refused, with a message that goes round the loop.                       *)
(*                                                                         *)
(* A search is at a state st: the symbols with SYMBOL_CHECK and with       *)
(* SYMBOL_CHECKED, the stack of dep_stack_insert, the symbol found to be   *)
(* recursive (a set of at most one), and the loops printed so far.  k is   *)
(* what menu_finalize makes of the file.                                   *)
(***************************************************************************)
EXTENDS KconfigExpr

CONSTANTS
  Choice,       \* the symbol of the choice
  Members       \* its values, in order

Values == Range(Members)

(* The symbols of an expression, and those a symbol refers to: by the      *)
(* condition of its prompt, by those of its defaults, by its defaults.     *)
(* Constants refer to nothing.                                             *)
RECURSIVE SymbolsOf(_)
SymbolsOf(e) ==
  IF e = NULL THEN <<>>
  ELSE CASE e[1] = "sym" -> <<e[2]>>
         [] e[1] = "not" -> SymbolsOf(e[2])
         [] e[1] \in {"and", "or"} -> SymbolsOf(e[2]) \o SymbolsOf(e[3])
         [] e[1] \in Relations -> <<e[2], e[3]>>

OfDefault(s, default) ==
  SymbolsOf(default[2]) \o
    (IF IsBool(s) /\ s # Choice THEN SymbolsOf(default[1]) ELSE <<>>)

References(k, s) ==
  IF s \notin DOMAIN k.visible THEN <<>>
  ELSE SymbolsOf(k.visible[s]) \o
         FlattenSeq([i \in DOMAIN k.default[s] |-> OfDefault(s, k.default[s][i])])

------------------------------------------------------------------------------
Push(st, s) == [st EXCEPT !.stack = Append(@, s)]
Pop(st) == [st EXCEPT !.stack = Front(@)]
Mark(st, set) == [st EXCEPT !.check = @ \cup set, !.checked = @ \cup set]
Unmark(st, set) == [st EXCEPT !.check = @ \ set]

(* The part of the stack from the last place of a symbol on; a value       *)
(* stands for its choice.                                                  *)
LoopFrom(stack, s) ==
  IF s \notin Range(stack) THEN <<>>
  ELSE SubSeq(stack, Max({i \in DOMAIN stack : stack[i] = s}), Len(stack))

sym_check_print_recursive(st, s) ==
  [st EXCEPT !.found = {s},
             !.loops = @ \cup {IF s \in Values
                                 THEN LoopFrom(Append(st.stack, s), Choice)
                                 ELSE LoopFrom(st.stack, s)}]

RECURSIVE sym_check_deps(_, _, _), CheckEach(_, _, _), CheckMembers(_, _, _)

(* One symbol after the other, up to the first that is recursive.          *)
CheckEach(k, st, symbols) ==
  IF symbols = <<>> \/ st.found # {} THEN st
  ELSE CheckEach(k, sym_check_deps(k, st, Head(symbols)), Tail(symbols))

sym_check_sym_deps(k, st, s) == Pop(CheckEach(k, Push(st, s), References(k, s)))

CheckMembers(k, st, members) ==
  IF members = <<>> \/ st.found # {} THEN st
  ELSE CheckMembers(k, sym_check_sym_deps(k, st, Head(members)), Tail(members))

(* The choice and its values are checked together; of these the choice     *)
(* alone may be referred to.                                               *)
OfChoice(st) == IF st.found \cap Values # {} THEN [st EXCEPT !.found = {Choice}] ELSE st

sym_check_choice_deps(k, st) ==
  LET choice == Unmark(sym_check_sym_deps(k, Mark(Push(st, Choice), Values \cup {Choice}),
                                          Choice), {Choice})
  IN Pop(OfChoice(Unmark(CheckMembers(k, choice, Members), Values)))

sym_check_deps(k, st, s) ==
  CASE s \in st.check -> sym_check_print_recursive(st, s)
    [] s \in st.checked \ st.check -> st
    [] s \in Values \ (st.checked \cup st.check) ->
         Pop(sym_check_deps(k, Push(st, s), Choice))
    [] s = Choice /\ s \notin st.checked \cup st.check -> sym_check_choice_deps(k, st)
    [] OTHER -> Unmark(sym_check_sym_deps(k, Mark(st, {s}), s), {s})

(* conf_parse: every symbol is checked.  The result is the number of       *)
(* errors and the loops printed.                                           *)
Unchecked == [check |-> {}, checked |-> {}, stack |-> <<>>, found |-> {}, loops |-> {}]

RECURSIVE CheckAll(_, _, _, _)
CheckAll(k, st, errors, symbols) ==
  IF symbols = <<>> THEN [yynerrs |-> errors, loops |-> st.loops]
  ELSE LET next == sym_check_deps(k, [st EXCEPT !.found = {}], Head(symbols))
       IN CheckAll(k, next, errors + Cardinality(next.found), Tail(symbols))

conf_parse(k, symbols) == CheckAll(k, Unchecked, 0, symbols)

------------------------------------------------------------------------------
(* What it is for.  A choice and its values are one; that a value refers   *)
(* to its choice is the way of choices.                                    *)
One(s) == IF s \in Values THEN Choice ELSE s
Edges(k, symbols) ==
  {<<One(s), One(t)>> : <<s, t>> \in
     {<<s, t>> \in symbols \X symbols :
        t \in Range(References(k, s)) /\ ~ (s \in Values /\ t = Choice)}}

RECURSIVE Reached(_, _)
Reached(edges, set) ==
  LET next == set \cup {e[2] : e \in {e \in edges : e[1] \in set}}
  IN IF next = set THEN set ELSE Reached(edges, next)

DependsOnItself(k, symbols) ==
  LET edges == Edges(k, symbols)
  IN \E e \in edges : e[1] \in Reached(edges, {e[2]})

(* A loop printed: every line of the message leads from a symbol to one it *)
(* refers to, from a value to its choice, or from the choice to one of its *)
(* values.  A choice that is recursive itself has two lines.               *)
Leads(k, s, t) ==
  \/ t \in Range(References(k, s))
  \/ s \in Values /\ t = Choice
  \/ s = Choice /\ t \in Values \cup {Choice}

IsLoop(k, loop) ==
  /\ loop # <<>>
  /\ \A i \in DOMAIN loop : Leads(k, loop[i], loop[IF i = Len(loop) THEN 1 ELSE i + 1])
================================================================================
