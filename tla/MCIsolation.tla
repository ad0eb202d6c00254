------------------------------ MODULE MCIsolation -----------------------------
(* Four CPUs of two cores, with hyperthreads 0-2 and 1-3.  In the hosts a  *)
(* policy spans one CPU, a core, or the whole package; a CPU may be        *)
(* offline, and one may lack what the script needs.  On the last three     *)
(* hosts one script finds what the other does not.                         *)
EXTENDS Isolation, TLC

Core == [c \in 0..3 |-> {c, (c + 2) % 4}]
Alone == [c \in 0..3 |-> {c}]
Package == [c \in 0..3 |-> {0, 1}]

All == SetupNeeds \union PrecheckNeeds

Shapes ==
  [online : {0..3, 0..2}, able : {0..3, 0..1}, siblings : {Core, Alone},
   policy : {Core, Alone, Package}, found : {All}, writable : {TRUE}]

Plain == [online |-> 0..3, able |-> 0..3, siblings |-> Core, policy |-> Core,
          found |-> All, writable |-> TRUE]

MCHosts ==
  Shapes \union
  {[Plain EXCEPT !.found = All \ {"awk"}],
   [Plain EXCEPT !.found = All \ {"install"}],
   [Plain EXCEPT !.writable = FALSE]}

Symmetry == Permutations(Setups)
=============================================================================
