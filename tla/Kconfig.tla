-------------------------------- MODULE Kconfig --------------------------------
(***************************************************************************)
(* nemu/tools/kconfig (conf and mconf), nemu/tools/fixdep and the rules of *)
(* scripts/config.mk and scripts/build.mk: what "make menuconfig", "make   *)
(* xxx_defconfig", "make savedefconfig" and "make" do to .config,          *)
(* auto.conf, autoconf.h and the objects.                                  *)
(*                                                                         *)
(* The configuration language is the part NEMU's Kconfig files use: bools, *)
(* strings, integers and hexadecimal numbers, "depends on", defaults, a    *)
(* choice, symbols without a prompt; modules are off (modules_sym is n),   *)
(* so a condition worth m is worth y.                                      *)
(***************************************************************************)
EXTENDS KconfigValue, KconfigDeps, KconfigPrint, AutoConf, TLC

CONSTANTS
  Menu,         \* the symbols in the order of the file, Choice among them
  Prompted,     \* the symbols with a prompt
  Files,        \* Kconfig files: [depends, default], functions of the symbols
  Saved,        \* those of them whose configurations are also saved and built
  MaxSaves,     \* bound: how often .config is written
  MaxEdits,     \* bound: what is set in one session of mconf
  MaxCrashes,   \* bound: how often a program is killed
  Typed,        \* the texts that are typed for a symbol
  None

VARIABLES
  text,         \* the Kconfig file
  k,            \* what menu_finalize makes of it
  user,         \* of the running program: S_DEF_USER, [def, has]; and
  changed,      \* conf_get_changed
  sync,         \* the running program is conf --syncconfig
  config, minimal,   \* the files .config and defconfig, None if missing
  saves, edits, crashes

files == <<config, minimal>>
program == <<user, curr, written, changed>>
bounds == <<saves, edits, crashes>>
vars == <<text, k, program, sync, files, bounds, autoconf_vars>>

Symbols == Range(Menu) \cup Values

(* The symbols and values of AutoConf; Line, Value and Macro are           *)
(* conf_write_symbol, conf_set_sym_val and header_print_symbol.            *)
ASSUME AutoConfAssumption ==
  Names = Symbols \ {Choice} /\ Bools = {s \in Names : IsBool(s)} /\ No = no

Order == FlattenSeq([i \in DOMAIN Menu |->
           IF Menu[i] = Choice THEN <<Choice>> \o Members ELSE <<Menu[i]>>])
NoText == <<None>>      \* no text, which is not the empty one

------------------------------------------------------------------------------
(* menu_finalize: conditions are joined with those of the parent and       *)
(* rewritten; consecutive entries that depend on a symbol go below it.     *)
Parentdep(s) == IF s \in Values THEN Sym(Choice) ELSE NULL
Basedep(f, s) ==
  expr_eliminate_dups(expr_alloc_and(Parentdep(s), expr_transform(f.depends[s])))
Condition(f, s, e) ==
  expr_trans_bool(expr_eliminate_dups(
    expr_alloc_and(Basedep(f, s), expr_transform(e))))

Simple(e) ==
  expr_eliminate_dups(expr_transform(expr_trans_compare(e, "!=", "n")))

InSubmenu(visible, p, s) ==
  /\ expr_contains_symbol(visible[s], p)
  /\ \/ expr_depends_symbol(visible[s], p)
     \/ expr_is_yes(expr_eliminate_eq(Simple(visible[s]),
          Simple(IF p \in Prompted THEN visible[p] ELSE NULL))[2])

(* Entries "next" that follow p: those that go below it, and the rest.     *)
RECURSIVE Submenu(_, _, _, _), Layout(_, _, _)
Submenu(visible, p, next, tree) ==
  IF \/ next = <<>> \/ p = Choice
     \/ ~ InSubmenu(visible, p, Head(next))
  THEN [tree |-> tree, next |-> next]
  ELSE LET inner == Submenu(visible, Head(next), Tail(next),
                            (Head(next) :> p) @@ tree)
       IN Submenu(visible, p, inner.next, inner.tree)

Layout(visible, menu, tree) ==
  IF menu = <<>> THEN tree
  ELSE LET first == Submenu(visible, Head(menu), Tail(menu), tree)
       IN Layout(visible, first.next, first.tree)

(* What is below a symbol without a prompt goes to where that symbol is;   *)
(* the values of the choice stay below it.                                 *)
RECURSIVE Place(_, _)
Place(tree, s) ==
  IF s \in Prompted \/ s \notin DOMAIN tree THEN {s} \cap Prompted
                                           ELSE Place(tree, tree[s])

Flattened(tree) ==
  [s \in Values |-> Choice] @@
    [s \in {s \in DOMAIN tree : Place(tree, tree[s]) # {}} |->
      CHOOSE p \in Place(tree, tree[s]) : TRUE]

(* The symbols, each after those it refers to: what sym_calc_value does    *)
(* first when it is asked for a value.                                     *)
Needed(m, s) ==
  IF s \in Values THEN {Choice}
  ELSE UNION {Range(References(m, t)) : t \in IF s = Choice THEN {s} \cup Values ELSE {s}}
         \ (Constant \cup IF s = Choice THEN {s} \cup Values ELSE {})

RECURSIVE Sorted(_, _)
Sorted(m, done) ==
  LET ready == SelectSeq(Order, LAMBDA s : /\ s \notin Range(done)
                                           /\ Needed(m, s) \subseteq Range(done))
  IN IF ready = <<>> THEN done ELSE Sorted(m, Append(done, Head(ready)))

Defaulted(f, s) == [i \in DOMAIN f.default[s] |->
                      <<f.default[s][i][1], Condition(f, s, f.default[s][i][2])>>]
Conditions(f) == [visible |-> [s \in Symbols |-> Condition(f, s, NULL)],
                  default |-> [s \in Symbols |-> Defaulted(f, s)]]

Finalized(f, m) ==
  [visible |-> m.visible, default |-> m.default,
   dep |-> [s \in Symbols |-> Basedep(f, s)],
   parent |-> Flattened(Layout(m.visible, Menu, <<>>)),
   order |-> Sorted(m, <<>>),
   errors |-> conf_parse(m, Order).yynerrs]

menu_finalize(f) == Finalized(f, Conditions(f))

------------------------------------------------------------------------------
(* sym_calc_value of every symbol.  The code calculates a symbol when it   *)
(* is asked for and keeps the value until something changes; since there   *)
(* is no recursive dependency, each after what it refers to will do.       *)
Holds(e, v) == expr_calc_value(e, v) # no
Visible(s, v) == s \in Prompted /\ Holds(k.visible[s], v)

(* The defaults that apply; the first of them is the one.                  *)
Defaults(s, v) == SelectSeq(k.default[s], LAMBDA p : Holds(p[2], v))
FirstOf(d, none) == IF d = <<>> THEN none ELSE Head(d)

sym_get_default_prop(s, v) ==
  LET none == <<IF IsBool(s) THEN Sym("n") ELSE <<>>>>
      value == FirstOf(Defaults(s, v), none)[1]
  IN IF IsBool(s) THEN Tri(Holds(value, v)) ELSE value

sym_choice_default(v) ==
  LET d == Defaults(Choice, v)
  IN FirstOf(SelectSeq([i \in DOMAIN d |-> d[i][1]] \o Members,
                       LAMBDA s : Visible(s, v)), None)

sym_calc_choice(u, v) ==
  IF u.def[Choice] # None /\ Visible(u.def[Choice], v) THEN u.def[Choice]
  ELSE sym_choice_default(v)

sym_calc_value(u, v, s) ==
  CASE s = Choice ->
         Tri(Visible(s, v) /\ sym_calc_choice(u, [v EXCEPT ![s] = yes]) # None)
    [] s \in Values -> Tri(Visible(s, v) /\ sym_calc_choice(u, v) = s)
    [] s \in Symbols \ (Values \cup {Choice}) ->
         IF Visible(s, v) /\ s \in u.has THEN u.def[s]
                                         ELSE sym_get_default_prop(s, v)

Unset == [s \in Symbols \cup Constant |->
           CASE s = "y" -> yes [] s = "m" -> mod
             [] OTHER -> IF s \in Symbols /\ ~ IsBool(s) THEN <<>> ELSE no]
Curr(u) == FoldLeft(LAMBDA v, s : [v EXCEPT ![s] = sym_calc_value(u, v, s)],
                    Unset, k.order)

(* A choice with a visible value that is new is new itself.                *)
SeenNew(u, v) ==
  v[Choice] = yes /\ \E s \in Values : Visible(s, v) /\ s \notin u.has
Recalc(u) ==
  IF SeenNew(u, Curr(u)) THEN [u EXCEPT !.has = @ \ {Choice}] ELSE u

(* SYMBOL_WRITE, for the symbols that have a name.                         *)
IsWritten(s, v) ==
  /\ s # Choice
  /\ \/ Visible(s, v)
     \/ IF IsBool(s) THEN sym_get_default_prop(s, v) # no
                     ELSE Defaults(s, v) # <<>>

------------------------------------------------------------------------------
(* Reading and writing configurations.                                     *)
NoUser == [def |-> [s \in Symbols |-> IF s = Choice THEN None
                                      ELSE IF IsBool(s) THEN no ELSE NoText],
           has |-> {}]

conf_write(v) ==
  [s \in {s \in Symbols : IsWritten(s, v)} |-> conf_write_symbol(s, v[s])]

conf_write_defconfig(v) ==
  LET redundant(s) == \/ ~ Visible(s, v)
                      \/ v[s] = sym_get_default_prop(s, v)
                      \/ s \in Values /\ v[s] = yes /\ s = sym_choice_default(v)
  IN [s \in {s \in Symbols : IsWritten(s, v) /\ ~ redundant(s)} |->
        conf_write_symbol(s, v[s])]

conf_read_simpleUnset(c) ==    \* variant: "is not set" is only a comment
  [def |-> Lines(c) @@ NoUser.def,
   has |-> {s \in Valid(c) : IsBool(s) => c[s] = yes} \cup {Choice}]

conf_read_simple(c) ==
  LET set == SelectSeq(Members, LAMBDA s : s \in DOMAIN c /\ c[s] = yes)
  IN [def |-> Lines(c) @@ (Choice :> IF set = <<>> THEN None ELSE Last(set)) @@ NoUser.def,
      has |-> Valid(c) \cup {Choice}]

(* Whether what was read is not what it makes; if it is, the values of     *)
(* hidden symbols are forgotten.  A line that is not valid is warned of.   *)
conf_unsaved(u, v) ==
  \E s \in Symbols \ {Choice} :
     IF s \in u.has THEN ~ IsWritten(s, v) \/ u.def[s] # v[s]
                    ELSE IsWritten(s, v)

Reread(u, v) ==
  IF conf_unsaved(u, v) THEN [user |-> u, changed |-> TRUE]
  ELSE [user |-> [u EXCEPT !.has = {s \in @ : s \in Values \/ Visible(s, v)}],
        changed |-> FALSE]

Settled(u) == Reread(u, Curr(u))
Warned(c, r) == [r EXCEPT !.changed = @ \/ Valid(c) # DOMAIN c]
conf_read(c) ==
  IF c = None THEN [user |-> NoUser, changed |-> TRUE]
  ELSE Warned(c, Settled(Recalc(conf_read_simple(c))))

(* conf --defconfig: symbols without a value keep their default, and a     *)
(* choice counts as set.                                                   *)
conf_set_all_new_symbols(u) == [u EXCEPT !.has = @ \cup {Choice}]

------------------------------------------------------------------------------
(* menu_is_visible, of the entry and of what it is shown below.            *)
Children(s) == {c \in DOMAIN k.parent : k.parent[c] = s}
RECURSIVE menu_is_visible(_, _), Shown(_, _)
menu_is_visible(s, v) ==
  /\ s \in Prompted
  /\ \/ Visible(s, v)
     \/ /\ IsBool(s) /\ v[s] # no
        /\ \E c \in Children(s) : menu_is_visible(c, v)

(* An entry is shown in the menu of the one it is below.                   *)
Shown(s, v) ==
  menu_is_visible(s, v) /\ (s \in DOMAIN k.parent => Shown(k.parent[s], v))

(* The help of an entry, and the results of a search (get_prompt_str): the *)
(* condition, that of the prompt if it is another one, where the entry is, *)
(* and the entry a search jumps to: it, or the closest around it that is   *)
(* visible.  What is below no other has no jump.                           *)
RECURSIVE Around(_)
Around(s) == IF s \notin DOMAIN k.parent THEN <<>>
             ELSE <<k.parent[s]>> \o Around(k.parent[s])
Location(s) == SubSeq(Around(s), 1, Min({Len(Around(s)), 8}))

Jump(s, v) ==
  LET accessible == SelectSeq(Location(s), LAMBDA p : menu_is_visible(p, v))
  IN IF accessible = <<>> THEN None
     ELSE IF menu_is_visible(s, v) THEN s ELSE Head(accessible)

get_dep_str(e) == IF expr_is_yes(e) THEN <<>> ELSE expr_gstr_print(e)

get_prompt_str(s, v) ==
  [depends |-> get_dep_str(k.dep[s]),
   visible |-> IF expr_eq(k.dep[s], k.visible[s]) THEN <<>>
                                                  ELSE get_dep_str(k.visible[s]),
   location |-> Location(s),
   jump |-> Jump(s, v)]

search_conf(found, v) == {get_prompt_str(s, v).jump : s \in found \cap Prompted} \ {None}

IsNew(s, v) == s \in Prompted /\ s \notin user.has /\ Shown(s, v)

Runs(u) ==
  /\ user' = u /\ curr' = Curr(u)
  /\ written' = {s \in Symbols : IsWritten(s, curr')}
Ends == user' = NoUser /\ curr' = Unset /\ written' = {} /\ changed' = FALSE
Loaded(r) == Runs(r.user) /\ changed' = r.changed
Reads(c) == Loaded(conf_read(c))

Init ==
  /\ text \in Files
  /\ k = menu_finalize(text)
  /\ user = NoUser /\ curr = Unset /\ written = {} /\ changed = FALSE
  /\ AutoConfInit /\ sync = FALSE
  /\ config = None /\ minimal = None
  /\ saves = 0 /\ edits = 0 /\ crashes = 0

(* "make menuconfig" starts mconf, which refuses a recursive file.         *)
Menuconfig ==
  /\ phase = "shell" /\ saves < MaxSaves /\ k.errors = 0
  /\ Reads(config)
  /\ Configures /\ phase' = "mconf"
  /\ UNCHANGED <<text, k, sync, files, bounds>>

(* The user of mconf, or of conf asking for a new symbol.                  *)
Set(u, differs) ==
  /\ IF differs THEN Runs(Recalc(u)) ELSE user' = u /\ UNCHANGED <<curr, written>>
  /\ changed' = (changed \/ differs)
  /\ Configures /\ phase' = phase
  /\ UNCHANGED <<text, k, sync, files, saves, crashes>>

SetUser(s, val, differs) ==
  Set([def |-> [user.def EXCEPT ![s] = val], has |-> user.has \cup {s}], differs)

sym_set_tristate_value(s, val) ==
  /\ IsBool(s) /\ s \notin Values \cup {Choice} /\ Visible(s, curr)
  /\ SetUser(s, val, val # curr[s])

sym_toggle_tristate_value(s) == sym_set_tristate_value(s, EXPR_NOT(curr[s]))

(* A text that is not valid is asked for again.                            *)
sym_set_string_value(s, str) ==
  /\ ~ IsBool(s) /\ Visible(s, curr)
  /\ sym_string_within_range(s, str)
  /\ SetUser(s, Prefixed(s, str), Prefixed(s, str) # str \/ str # user.def[s])

sym_set_choice_value(s) ==
  /\ curr[Choice] = yes /\ Visible(s, curr)
  /\ Set([def |-> [user.def EXCEPT ![s] = yes, ![Choice] = s],
          has |-> user.has \cup {s, Choice}
                    \cup {c \in Values : Visible(c, curr)}],
         curr[s] # yes)

(* mconf: the menu itself, and its dialogs for a string and a choice.      *)
mconf_string ==
  \E s \in DOMAIN Typed : \E str \in Typed[s] : sym_set_string_value(s, str)
mconf_choice == \E s \in Values : sym_set_choice_value(s)

Edit ==
  /\ phase = "mconf" /\ edits < MaxEdits /\ edits' = edits + 1
  /\ \/ \E s \in Range(Menu), val \in {no, yes} : sym_set_tristate_value(s, val)
     \/ \E s \in Range(Menu) : sym_toggle_tristate_value(s)
     \/ mconf_string
     \/ mconf_choice

------------------------------------------------------------------------------
(* conf_write, and conf_write_autoconf(overwrite) up to the touched        *)
(* include/config/*.h: phase touch.  Without overwriting nothing is done   *)
(* if auto.conf is there, and the makefile goes on with conf --syncconfig. *)
Syncconfig == Reads(config') /\ phase' = "sync" /\ sync' = TRUE
WriteAutoconf(overwrite) ==
  IF overwrite \/ auto = <<>>
    THEN phase' = "touch" /\ changed' = FALSE /\ UNCHANGED <<user, curr, written, sync>>
    ELSE Syncconfig

conf_save ==
  /\ phase = "mconf" /\ text \in Saved /\ saves < MaxSaves
  /\ config' = conf_write(curr) /\ saves' = saves + 1
  /\ changed' = FALSE
  /\ Configures /\ phase' = phase
  /\ UNCHANGED <<text, k, user, curr, written, sync, minimal, edits, crashes>>

handle_exit ==
  /\ phase = "mconf" /\ text \in Saved /\ changed /\ saves < MaxSaves
  /\ config' = conf_write(curr) /\ saves' = saves + 1 /\ edits' = 0
  /\ Configures /\ WriteAutoconf(FALSE)
  /\ UNCHANGED <<text, k, minimal, crashes>>

(* Leaving with nothing to save, or without saving.                        *)
Quit ==
  /\ phase = "mconf" /\ text \in Saved
  /\ config' = config
  /\ Configures /\ Syncconfig /\ edits' = 0
  /\ UNCHANGED <<text, k, minimal, saves, crashes>>

savedefconfig ==
  /\ phase = "shell" /\ config # None /\ text \in Saved
  /\ minimal' = conf_write_defconfig(Curr(conf_read(config).user))
  /\ UNCHANGED <<text, k, program, sync, config, bounds, autoconf_vars>>

defconfig ==
  /\ phase = "shell" /\ minimal # None /\ saves < MaxSaves
  /\ Runs(conf_set_all_new_symbols(conf_read(minimal).user))
  /\ changed' = FALSE
  /\ Configures /\ phase' = "defconfig"
  /\ UNCHANGED <<text, k, sync, files, bounds>>

defconfigWrite ==
  /\ phase = "defconfig"
  /\ config' = conf_write(curr) /\ saves' = saves + 1
  /\ Configures /\ WriteAutoconf(FALSE)
  /\ UNCHANGED <<text, k, minimal, edits, crashes>>

(* conf --syncconfig asks for the first new symbol of the file.            *)
FirstNew == FirstOf(SelectSeq(Order, LAMBDA c : IsNew(c, curr)), None)
conf_sym(s) == \E val \in {no, yes} : sym_set_tristate_value(s, val)
conf_string(s) ==
  s \in DOMAIN Typed /\ \E str \in Typed[s] \cup {curr[s]} : sym_set_string_value(s, str)
conf_choice(s) ==
  s \in {Choice} \cup Values /\ \E c \in Values : sym_set_choice_value(c)

Answer ==
  /\ phase = "sync" /\ UNCHANGED edits
  /\ \E s \in {FirstNew} \ {None} : conf_sym(s) \/ conf_string(s) \/ conf_choice(s)

SyncWrite ==
  /\ phase = "sync" /\ FirstNew = None
  /\ text \in Saved
  /\ config' = conf_write(curr)
  /\ saves' = IF config' = config THEN saves ELSE saves + 1
  /\ Configures /\ WriteAutoconf(TRUE)
  /\ UNCHANGED <<text, k, minimal, edits, crashes>>

(* Writing auto.conf changes nothing else, until the program ends or the   *)
(* makefile goes on.                                                       *)
Writes ==
  /\ conf_touch_deps \/ RenameHeader
  /\ UNCHANGED <<text, k, user, changed, sync, files, bounds>>

Written ==
  /\ RenameAuto
  /\ config' = config
  /\ IF sync THEN Ends /\ phase' = "shell" /\ sync' = FALSE ELSE Syncconfig
  /\ UNCHANGED <<text, k, minimal, bounds>>

(* The running program is killed: while it writes .config, between the     *)
(* rename to .config.old and the one of the new file, or elsewhere.        *)
Crash ==
  /\ text \in Saved /\ crashes < MaxCrashes
  /\ Killed /\ sync' = FALSE /\ Ends
  /\ crashes' = crashes + 1 /\ edits' = 0
  /\ \/ config' = config
     \/ phase \in {"mconf", "defconfig", "sync"} /\ config' = None
  /\ UNCHANGED <<text, k, minimal, saves>>

make ==
  /\ (\E o \in Objects : Compile(o)) \/ Clean
  /\ UNCHANGED <<text, k, program, sync, files, bounds>>

Next ==
  \/ Menuconfig \/ Edit \/ conf_save \/ handle_exit \/ Quit
  \/ savedefconfig \/ defconfig \/ defconfigWrite
  \/ Answer \/ SyncWrite \/ Writes \/ Written
  \/ Crash \/ make

Spec == Init /\ [][Next]_vars

------------------------------------------------------------------------------
(* What the rewritings of menu_finalize and the submenus amount to: a      *)
(* prompt is shown exactly when the condition written in the Kconfig file, *)
(* and that of the choice around it, hold; the condition its help prints,  *)
(* read by the grammar, is worth the same; a search jumps to what is       *)
(* shown.  And a file is refused exactly if a symbol depends on itself,    *)
(* whichever symbol is checked first, with messages that tell the loop.    *)
PromptAsWritten(s) ==
  /\ Visible(s, curr)
       = (/\ Holds(text.depends[s], curr)
          /\ s \in Values => curr[Choice] = yes)
  /\ Visible(s, curr) => Shown(s, curr)

HelpIsTrue(s) ==
  LET printed == get_prompt_str(s, curr)
  IN /\ Visible(s, curr)
          = \A e \in {printed.depends, printed.visible} \ {<<>>} : Holds(ReadAgain(e), curr)
     /\ Range(printed.location) \subseteq Prompted

RefusedIfRecursive ==
  \A first \in Symbols :
    LET parsed == conf_parse(k, <<first>> \o Order)
    IN /\ parsed.yynerrs > 0 <=> DependsOnItself(k, Symbols)
       /\ \A loop \in parsed.loops : IsLoop(k, loop)

ShownAsWritten ==
  /\ phase = "shell" /\ config = None => RefusedIfRecursive
  /\ phase \in {"mconf", "sync"} =>
       /\ \A s \in Prompted : PromptAsWritten(s)
       /\ saves = 0 => \A s \in Prompted : HelpIsTrue(s)
       /\ \A s \in search_conf(Symbols, curr) : Shown(s, curr)

(* conf_write then conf_read, and conf_write_defconfig then conf           *)
(* --defconfig, give every symbol the value it had; nothing shown is new   *)
(* after the first, so that a build started by make does not stop to ask;  *)
(* and a session that counts as unchanged has the values of .config.  A    *)
(* macro of autoconf.h is worth to C what the symbol is, and every line    *)
(* that is going to be written to auto.conf is read as the value it was.   *)
GivesBack(read) ==
  /\ Curr(read.user) = curr /\ ~ read.changed
  /\ \A s \in Prompted : Shown(s, curr) => s \in read.user.has
SavedIsReadBack == GivesBack(conf_read(conf_write(curr)))
MinimalIsReadBack ==
  Curr(conf_set_all_new_symbols(conf_read(conf_write_defconfig(curr)).user)) = curr
UnchangedIsSaved == ~ changed => config # None /\ conf_write(curr) = config

HeaderIsRead ==
  \A s \in SetSymbols : MeansInC(s, curr[s], header_print_symbol(s, curr[s]))

ConfigRoundTrip ==
  /\ phase \in {"mconf", "sync"} =>
       SavedIsReadBack /\ MinimalIsReadBack /\ UnchangedIsSaved /\ HeaderIsRead
  /\ phase = "touch" => Readable
================================================================================
