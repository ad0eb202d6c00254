-------------------------------- MODULE AutoConf --------------------------------
(***************************************************************************)
(* How objects follow the configuration: conf_write_autoconf of            *)
(* nemu/tools/kconfig writes autoconf.h, which is compiled, and auto.conf, *)
(* which says next time what was compiled, and touches a file for each     *)
(* symbol that changed between; fixdep makes an object depend on the files *)
(* of the symbols its sources mention; make compiles what is older than a  *)
(* file it depends on.  What the programs do before they write is not      *)
(* said here (see Kconfig).                                                *)
(***************************************************************************)
EXTENDS Integers, FiniteSets

CONSTANTS
  Names,           \* the symbols that have a name
  Bools,           \* those that are bools
  No,              \* the value of a bool that is not set
  Line(_, _),      \* conf_write_symbol: what is written for a value, and
  Value(_, _),     \*   conf_set_sym_val: <<val>>, the value read, or <<>>
  Macro(_, _),     \* header_print_symbol: the macro for a value
  Objects,         \* the objects of the build
  Includes,        \* the files an object is made of, autoconf.h among them
  Words,           \* the CONFIG_ words of a file
  autoconf_h

VARIABLES
  curr,         \* the values of the symbols, in the program that runs
  written,      \* SYMBOL_WRITE: the symbols that have a value to be written
  phase,        \* what runs: a step of writing auto.conf, or something else
  auto, header, \* auto.conf and autoconf.h, <<contents>>, or <<>> if missing
  built,        \* <<the macros it was compiled with>> of an object, or <<>>
  stale,        \* objects older than an include/config/*.h they depend on
  torn          \* history: a crash left autoconf.h newer than auto.conf

objects == <<built, stale>>

(* The programs, and no program, between two writes of auto.conf.          *)
Elsewhere == {"shell", "mconf", "defconfig", "sync"}

(* The values of the lines that are valid.                                 *)
Valid(c) == {s \in DOMAIN c : Value(s, c[s]) # <<>>}
Lines(c) == [s \in Valid(c) |-> Value(s, c[s])[1]]
OldAuto == IF auto = <<>> THEN <<>> ELSE Lines(auto[1])

TouchedNew ==       \* variant: a symbol that is gone is forgotten
  LET old == OldAuto
  IN {s \in Names : s \in written /\ (s \in DOMAIN old => curr[s] # old[s])}

(* conf_touch_deps: the symbols whose value is not the one of auto.conf.   *)
Touched ==
  LET old == OldAuto
  IN {s \in Names :
        IF s \in written
          THEN IF s \in DOMAIN old THEN curr[s] # old[s]
                                   ELSE ~ (s \in Bools /\ curr[s] = No)
          ELSE s \in DOMAIN old}

(* fixdep: the include/config/*.h an object depends on.                    *)
parse_dep_file(o) == UNION {Words[f] : f \in Includes[o] \ {autoconf_h}}

conf_touch_deps ==
  /\ phase = "touch"
  /\ phase' = "header"
  /\ stale' = stale \cup {o \in Objects : /\ built[o] # <<>>
                                          /\ parse_dep_file(o) \cap Touched # {}}
  /\ UNCHANGED <<curr, written, auto, header, built, torn>>

(* A bool that is n is left out of both files.                             *)
SetSymbols == {s \in Names \cap written : ~ (s \in Bools /\ curr[s] = No)}
Contents == [s \in SetSymbols |-> Line(s, curr[s])]
Macros(vals) == [s \in DOMAIN vals |-> Macro(s, vals[s])]

(* Both files are written beside and renamed over the old ones.            *)
RenameHeader ==
  /\ phase = "header"
  /\ header' = <<Macros([s \in SetSymbols |-> curr[s]])>>
  /\ phase' = "auto"
  /\ UNCHANGED <<curr, written, auto, objects, torn>>

(* The program ends, or the makefile goes on with another.                 *)
RenameAuto ==
  /\ phase = "auto"
  /\ auto' = <<Contents>>
  /\ UNCHANGED <<header, objects, torn>>

(* A program sets the values, and may come to write them.                  *)
Configures ==
  /\ phase \in Elsewhere
  /\ UNCHANGED <<auto, header, objects, torn>>

(* The running program is killed.                                          *)
Killed ==
  /\ phase # "shell" /\ phase' = "shell"
  /\ torn' = (torn \/ (phase = "auto" /\ header # <<Macros(OldAuto)>>))
  /\ UNCHANGED <<auto, header, objects>>

------------------------------------------------------------------------------
(* "make": an object that is missing or older than what it depends on is   *)
(* compiled.                                                               *)
Compiled(o) == <<[s \in parse_dep_file(o) \cap DOMAIN header[1] |-> header[1][s]]>>

Compile(o) ==
  /\ phase = "shell" /\ header # <<>>
  /\ built[o] = <<>> \/ o \in stale
  /\ built' = [built EXCEPT ![o] = Compiled(o)]
  /\ stale' = stale \ {o}
  /\ UNCHANGED <<curr, written, phase, auto, header, torn>>

Clean ==
  /\ phase = "shell" /\ \E o \in Objects : built[o] # <<>>
  /\ built' = [o \in Objects |-> <<>>] /\ stale' = {}
  /\ torn' = (torn /\ header # <<Macros(OldAuto)>>)
  /\ UNCHANGED <<curr, written, phase, auto, header>>

------------------------------------------------------------------------------
autoconf_vars == <<curr, written, phase, auto, header, objects, torn>>

AutoConfInit ==
  /\ phase = "shell"
  /\ auto = <<>> /\ header = <<>>
  /\ built = [o \in Objects |-> <<>>] /\ stale = {}
  /\ torn = FALSE

(* What a program writes it can read.                                      *)
Readable == \A s \in SetSymbols : Value(s, Line(s, curr[s])) = <<curr[s]>>

AutoConfNext ==
  \/ Configures /\ phase' \in Elsewhere
  \/ Configures /\ phase' = "touch" /\ Readable'
  \/ conf_touch_deps \/ RenameHeader
  \/ RenameAuto /\ phase' \in Elsewhere
  \/ Killed
  \/ \E o \in Objects : Compile(o)
  \/ Clean

AutoConfSpec == AutoConfInit /\ [][AutoConfNext]_autoconf_vars

------------------------------------------------------------------------------
(* An object that make would leave alone was compiled with the values      *)
(* autoconf.h has now for the words its sources mention, whatever was      *)
(* reconfigured, interrupted or compiled in between; except after a crash  *)
(* between the renames of autoconf.h and auto.conf.                        *)
BuildIsCurrent ==
  phase = "shell" /\ ~ torn =>
    \A o \in Objects : built[o] # <<>> /\ o \notin stale => built[o] = Compiled(o)
================================================================================
