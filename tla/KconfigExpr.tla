------------------------------ MODULE KconfigExpr ------------------------------
(***************************************************************************)
(* nemu/tools/kconfig/expr.c: the dependency expressions of the            *)
(* configuration language, and the rewriting menu_finalize does on them.   *)
(*                                                                         *)
(* An expression is <<"sym", s>>, <<"not", e>>, <<"and", e, f>>,           *)
(* <<"or", e, f>> or a relation <<"=", s, t>> between two symbols; no      *)
(* expression at all, NULL, stands for yes.  The code rewrites trees in    *)
(* place; here every rewriting returns the new tree.                       *)
(***************************************************************************)
EXTENDS Integers, Sequences, SequencesExt, FiniteSetsExt

CONSTANT Type       \* S_BOOLEAN, S_TRISTATE, S_INT, S_HEX or S_STRING

no == 0
mod == 1
yes == 2

EXPR_AND(a, b) == Min({a, b})
EXPR_OR(a, b) == Max({a, b})
EXPR_NOT(a) == 2 - a

NULL == <<>>
Constant == {"y", "m", "n"}
Relations == {"=", "!=", "<", "<=", ">", ">="}
IsBool(s) == Type[s] = "S_BOOLEAN"
Sym(s) == <<"sym", s>>
Not(e) == <<"not", e>>
Unit(type) == IF type = "and" THEN Sym("y") ELSE Sym("n")
Zero(type) == IF type = "and" THEN Sym("n") ELSE Sym("y")

expr_alloc_and(e, f) == IF NULL \in {e, f} THEN e \o f ELSE <<"and", e, f>>
expr_alloc_or(e, f) == IF NULL \in {e, f} THEN e \o f ELSE <<"or", e, f>>
expr_is_yes(e) == e \in {NULL, Sym("y")}

------------------------------------------------------------------------------
(* expr_calc_value, in a valuation v of the symbols.  A tristate compared  *)
(* with a constant is compared as text, "m" < "n" < "y": the constants     *)
(* have no type.                                                           *)
Letter(v) == CASE v = mod -> 1 [] v = no -> 2 [] v = yes -> 3

Less(s, t, v) ==
  IF {s, t} \cap Constant # {} THEN Letter(v[s]) < Letter(v[t])
                               ELSE v[s] < v[t]

Tri(b) == IF b THEN yes ELSE no

RECURSIVE expr_calc_value(_, _)
expr_calc_value(e, v) ==
  IF e = NULL THEN yes
  ELSE CASE e[1] = "sym" ->
              IF Type[e[2]] \in {"S_INT", "S_HEX", "S_STRING"} THEN no ELSE v[e[2]]
         [] e[1] = "and" -> EXPR_AND(expr_calc_value(e[2], v),
                                     expr_calc_value(e[3], v))
         [] e[1] = "or" -> EXPR_OR(expr_calc_value(e[2], v),
                                   expr_calc_value(e[3], v))
         [] e[1] = "not" -> EXPR_NOT(expr_calc_value(e[2], v))
         [] e[1] = "=" -> Tri(v[e[2]] = v[e[3]])
         [] e[1] = "!=" -> Tri(v[e[2]] # v[e[3]])
         [] e[1] = "<" -> Tri(Less(e[2], e[3], v))
         [] e[1] = ">=" -> Tri(~ Less(e[2], e[3], v))
         [] e[1] = ">" -> Tri(Less(e[3], e[2], v))
         [] e[1] = "<=" -> Tri(~ Less(e[3], e[2], v))

------------------------------------------------------------------------------
(* The operands of one level of && or ||, and the level put back.          *)
RECURSIVE Operands(_, _), Rebuild(_, _, _)
Operands(type, e) ==
  IF e[1] = type THEN Operands(type, e[2]) \o Operands(type, e[3]) ELSE <<e>>

Rebuild(type, e, s) ==
  IF e[1] # type THEN s[1]
  ELSE LET n == Len(Operands(type, e[2]))
       IN <<type, Rebuild(type, e[2], SubSeq(s, 1, n)),
                  Rebuild(type, e[3], SubSeq(s, n + 1, Len(s)))>>

(* The order in which two levels of n and m operands are compared.         *)
Pairs(n, m) == [k \in 1..(n * m) |-> <<(k - 1) \div m + 1, ((k - 1) % m) + 1>>]

(* y and n are folded away, but not below a "!".                           *)
Folded(type, left, right) ==
  IF Zero(type) \in {left, right} THEN Zero(type)
  ELSE IF left = Unit(type) THEN right
  ELSE IF right = Unit(type) THEN left ELSE <<type, left, right>>

RECURSIVE expr_eliminate_yn(_)
expr_eliminate_yn(e) ==
  IF e = NULL \/ e[1] \notin {"and", "or"} THEN e
  ELSE Folded(e[1], expr_eliminate_yn(e[2]), expr_eliminate_yn(e[3]))

(* Operands common to both expressions are removed from both; the result   *)
(* is the pair.                                                            *)
RECURSIVE expr_eq(_, _), expr_eliminate_eq(_, _)
Cancel(type, s, i, j) ==
  IF \/ s[1][i] = s[2][j] /\ s[1][i] \in {Sym("y"), Sym("n")}
     \/ ~ expr_eq(s[1][i], s[2][j])
  THEN s
  ELSE <<[s[1] EXCEPT ![i] = Unit(type)], [s[2] EXCEPT ![j] = Unit(type)]>>

Rebuilt(type, p, s) == <<Rebuild(type, p[1], s[1]), Rebuild(type, p[2], s[2])>>

EliminateLevel(type, p) ==
  IF type \notin {"and", "or"} THEN p
  ELSE Rebuilt(type, p,
         FoldLeft(LAMBDA s, ij : Cancel(type, s, ij[1], ij[2]),
                  <<Operands(type, p[1]), Operands(type, p[2])>>,
                  Pairs(Len(Operands(type, p[1])), Len(Operands(type, p[2])))))

SecondLevel(p) ==
  IF p[1][1] # p[2][1] THEN EliminateLevel(p[2][1], p) ELSE p
Pruned(p) == <<expr_eliminate_yn(p[1]), expr_eliminate_yn(p[2])>>

expr_eliminate_eq(e1, e2) ==
  IF NULL \in {e1, e2} THEN <<e1, e2>>
  ELSE Pruned(SecondLevel(EliminateLevel(e1[1], <<e1, e2>>)))

(* Equal up to the order of operands.                                      *)
NothingLeft(p) == p[1][1] = "sym" /\ p[1] = p[2]

expr_eq(e1, e2) ==
  IF NULL \in {e1, e2} THEN expr_is_yes(e1) /\ expr_is_yes(e2)
  ELSE IF e1[1] # e2[1] THEN FALSE
  ELSE IF e1[1] = "not" THEN expr_eq(e1[2], e2[2])
  ELSE IF e1[1] \in {"and", "or"} THEN NothingLeft(expr_eliminate_eq(e1, e2))
  ELSE e1 = e2

------------------------------------------------------------------------------
(* expr_join_or and expr_join_and: one expression for two operands that    *)
(* test the same symbol, or NULL if the code knows none.                   *)
Joinable(e1, e2) ==
  /\ e1[1] \in {"=", "!=", "sym", "not"} /\ e2[1] \in {"=", "!=", "sym", "not"}
  /\ e1[1] = "not" => e1[2][1] \in {"=", "!=", "sym"}
  /\ e2[1] = "not" => e2[2][1] = "sym"

Tested(e) == IF e[1] = "not" THEN e[2][2] ELSE e[2]

SameSymbol(e1, e2) ==
  /\ Joinable(e1, e2) /\ Tested(e1) = Tested(e2)
  /\ Type[Tested(e1)] \in {"S_BOOLEAN", "S_TRISTATE"}

(* Both orders of a pair of operands of the given shapes.                  *)
Are(e1, e2, f1, f2) == <<e1, e2>> \in {<<f1, f2>>, <<f2, f1>>}

Third(s, t) == CHOOSE c \in Constant : c \notin {s, t}

expr_join_or(e1, e2) ==
  IF expr_eq(e1, e2) THEN e1
  ELSE IF ~ SameSymbol(e1, e2) THEN NULL
  ELSE LET a == Tested(e1)
       IN CASE /\ Type[a] = "S_TRISTATE" /\ e1[1] = "=" /\ e2[1] = "="
               /\ {e1[3], e2[3]} \subseteq Constant
                 -> <<"!=", a, Third(e1[3], e2[3])>>
            [] Type[a] = "S_BOOLEAN" /\ Are(e1, e2, Sym(a), Not(Sym(a)))
                 -> Sym("y")
            [] OTHER -> NULL

expr_join_and(e1, e2) ==
  IF expr_eq(e1, e2) THEN e1
  ELSE IF ~ SameSymbol(e1, e2) THEN NULL
  ELSE LET a == Tested(e1)
           is == IF e1[1] = "=" THEN e1[3] ELSE e2[3]
           isnot == IF e1[1] = "=" THEN e2[3] ELSE e1[3]
       IN CASE \/ Are(e1, e2, Sym(a), <<"=", a, "y">>)
               \/ Are(e1, e2, Sym(a), <<"!=", a, "m">>) -> <<"=", a, "y">>
            [] Are(e1, e2, Sym(a), <<"!=", a, "n">>) -> Sym(a)
            [] /\ Type[a] = "S_TRISTATE" /\ {e1[1], e2[1]} = {"=", "!="}
               /\ {is, isnot} \subseteq Constant
                 -> IF is = isnot THEN Sym("n") ELSE <<"=", a, is>>
            [] /\ Type[a] = "S_TRISTATE" /\ e1[1] = "!=" /\ e2[1] = "!="
               /\ {e1[3], e2[3]} \subseteq Constant
                 -> <<"=", a, Third(e1[3], e2[3])>>
            [] OTHER -> NULL

(* One pass over a level, joining what can be joined, and first, inside    *)
(* an operand, over the level of the other kind: [ops, joined], then       *)
(* [e, joined].                                                            *)
Joined(type, s, i, j, both) ==
  IF both = NULL THEN s
  ELSE [ops |-> [s.ops EXCEPT ![i] = Unit(type), ![j] = both], joined |-> TRUE]

Join(type, s, i, j) ==
  Joined(type, s, i, j, IF type = "or" THEN expr_join_or(s.ops[i], s.ops[j])
                                       ELSE expr_join_and(s.ops[i], s.ops[j]))

Inside(s, i, inner) ==
  [ops |-> [s.ops EXCEPT ![i] = inner.e], joined |-> s.joined \/ inner.joined]

Level(type, e, s) == [e |-> Rebuild(type, e, s.ops), joined |-> s.joined]

RECURSIVE expr_eliminate_dups1(_)
Dups(e) == IF e[1] \in {"and", "or"} THEN expr_eliminate_dups1(e)
                                     ELSE [e |-> e, joined |-> FALSE]
expr_eliminate_dups1(e) ==
  Level(e[1], e,
    FoldLeft(LAMBDA s, ij :
               IF ij[1] = ij[2] THEN s
               ELSE Join(e[1], Inside(s, ij[1], Dups(s.ops[ij[1]])), ij[1], ij[2]),
             [ops |-> Operands(e[1], e), joined |-> FALSE],
             Pairs(Len(Operands(e[1], e)), Len(Operands(e[1], e)))))

RECURSIVE expr_eliminate_dups(_), UntilJoined(_, _)
UntilJoined(e, pass) ==
  IF pass.joined THEN expr_eliminate_dups(expr_eliminate_yn(pass.e)) ELSE e
expr_eliminate_dups(e) == IF e = NULL THEN e ELSE UntilJoined(e, Dups(e))

------------------------------------------------------------------------------
(* expr_trans_bool: FOO!=n is FOO, for the condition of a bool.            *)
RECURSIVE expr_trans_bool(_)
expr_trans_bool(e) ==
  IF e = NULL THEN e
  ELSE CASE e[1] \in {"and", "or"} ->
              <<e[1], expr_trans_bool(e[2]), expr_trans_bool(e[3])>>
         [] e[1] = "not" -> Not(expr_trans_bool(e[2]))
         [] e[1] = "!=" /\ e[3] = "n" /\ Type[e[2]] = "S_TRISTATE" -> Sym(e[2])
         [] OTHER -> e

Negation == [r \in Relations |->
  CASE r = "=" -> "!=" [] r = "!=" -> "=" [] r = "<" -> ">="
    [] r = ">=" -> "<" [] r = "<=" -> ">" [] r = ">" -> "<="]

(* A comparison of a bool with a constant.                                 *)
OfBool(e) ==
  CASE e[3] = "m" -> IF e[1] = "=" THEN Sym("n") ELSE Sym("y")
    [] e[3] = "n" -> IF e[1] = "=" THEN Not(Sym(e[2])) ELSE Sym(e[2])
    [] e[3] = "y" -> IF e[1] = "=" THEN Sym(e[2]) ELSE Not(Sym(e[2]))
    [] OTHER -> e

(* expr_transform: negations are pushed inwards.                           *)
RECURSIVE expr_transform(_)
Negated(a) ==
  CASE a[1] = "not" -> expr_transform(a[2])
    [] a[1] \in Relations -> <<Negation[a[1]], a[2], a[3]>>
    [] a[1] \in {"and", "or"} ->
         expr_transform(<<IF a[1] = "and" THEN "or" ELSE "and",
                          Not(a[2]), Not(a[3])>>)
    [] a \in {Sym("y"), Sym("m"), Sym("n")} ->
         Sym(CASE a[2] = "y" -> "n" [] a[2] = "m" -> "m" [] a[2] = "n" -> "y")
    [] OTHER -> Not(a)

expr_transform(e) ==
  IF e = NULL \/ e[1] = "sym" THEN e
  ELSE IF e[1] \in Relations
    THEN IF e[1] \in {"=", "!="} /\ Type[e[2]] = "S_BOOLEAN" THEN OfBool(e)
                                                            ELSE e
  ELSE IF e[1] = "not" THEN Negated(expr_transform(e[2]))
  ELSE <<e[1], expr_transform(e[2]), expr_transform(e[3])>>

------------------------------------------------------------------------------
RECURSIVE expr_contains_symbol(_, _), expr_depends_symbol(_, _),
          expr_depends_symbolOr(_, _)
expr_contains_symbol(e, s) ==
  CASE e = NULL -> FALSE
    [] e # NULL /\ e[1] \in {"and", "or"} ->
         expr_contains_symbol(e[2], s) \/ expr_contains_symbol(e[3], s)
    [] e # NULL /\ e[1] = "not" -> expr_contains_symbol(e[2], s)
    [] e # NULL /\ e[1] = "sym" -> e[2] = s
    [] OTHER -> s \in {e[2], e[3]}

expr_depends_symbolOr(e, s) ==      \* variant: one operand of || is enough
  IF e = NULL THEN FALSE
  ELSE IF e[1] \in {"and", "or"}
    THEN expr_depends_symbolOr(e[2], s) \/ expr_depends_symbolOr(e[3], s)
  ELSE e = Sym(s)

(* The expression is no whenever the symbol is.                            *)
expr_depends_symbol(e, s) ==
  CASE e = NULL -> FALSE
    [] e # NULL /\ e[1] = "and" ->
         expr_depends_symbol(e[2], s) \/ expr_depends_symbol(e[3], s)
    [] e # NULL /\ e[1] = "sym" -> e[2] = s
    [] e # NULL /\ e[1] = "=" -> e[2] = s /\ e[3] \in {"y", "m"}
    [] e # NULL /\ e[1] = "!=" -> e[2] = s /\ e[3] = "n"
    [] OTHER -> FALSE

(* expr_trans_compare: e compared with a constant, symbol by symbol.       *)
Compared(type, f) == IF type = "!=" THEN Not(f) ELSE f

RECURSIVE expr_trans_compare(_, _, _)
expr_trans_compare(e, type, sym) ==
  IF e = NULL THEN Compared(type, Sym(sym))
  ELSE CASE e[1] = "sym" -> <<type, e[2], sym>>
         [] e[1] = "not" -> expr_trans_compare(e[2], Negation[type], sym)
         [] e[1] \in {"and", "or"} ->
              Compared(type,
                IF sym = "m" THEN e
                ELSE <<IF (e[1] = "and") = (sym = "y") THEN "and" ELSE "or",
                       expr_trans_compare(e[2], "=", sym),
                       expr_trans_compare(e[3], "=", sym)>>)
         [] OTHER -> Compared(type, CASE sym = "y" -> e [] sym = "n" -> Not(e)
                                      [] sym = "m" -> Sym("n"))
================================================================================
