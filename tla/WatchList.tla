------------------------------- MODULE WatchList -------------------------------
(***************************************************************************)
(* What the watchpoints of the debugger are to its user: a list, latest    *)
(* first, of at most NR_WP numbered expressions, each with the value it    *)
(* had when it was set, and an answer to every command.                    *)
(***************************************************************************)
EXTENDS Integers, Sequences

CONSTANTS
  NR_WP, Exprs,
  Asked,          \* the numbers d is given
  Crash, None

VARIABLES
  watches,
  worth,          \* the value of every expression now, or Crash: an input
  said            \* the answer to the last w or d

Numbers == {watches[k].NO : k \in DOMAIN watches}

Init == watches = <<>> /\ said = None

Set(e) ==
  \E NO \in 0..(NR_WP - 1) :
    /\ said' = [w |-> e, NO |-> NO]
    /\ NO \notin Numbers
    /\ Len(watches) < NR_WP /\ worth[e] # Crash
    /\ watches' =
         <<[NO |-> NO, expr |-> e, old_value |-> worth[e]]>> \o watches

Refuse(e) ==
  /\ said' = [w |-> e, failed |-> TRUE]
  /\ Len(watches) = NR_WP
  /\ UNCHANGED watches

(* The expression kills the debugger.                                      *)
SetDies(e) ==
  /\ said' = [w |-> e, died |-> TRUE]
  /\ Len(watches) < NR_WP /\ worth[e] = Crash
  /\ UNCHANGED watches

(* The one numbered NO goes, and the others keep their order.              *)
Delete(NO) ==
  /\ said' = [d |-> NO, success |-> TRUE]
  /\ \E k \in DOMAIN watches :
       /\ watches[k].NO = NO
       /\ watches' = [j \in 1..(Len(watches) - 1) |->
                        watches[IF j < k THEN j ELSE j + 1]]

DeleteFails(NO) ==
  /\ said' = [d |-> NO, success |-> FALSE]
  /\ watches # <<>> /\ NO \notin Numbers
  /\ UNCHANGED watches

(* delete_watchpoint reads the first watchpoint of a list without one.     *)
DeleteDies(NO) ==
  /\ said' = [d |-> NO, died |-> TRUE]
  /\ watches = <<>>
  /\ UNCHANGED watches

(* The guest changes what the expressions are worth, and no command reads  *)
(* it but w.                                                               *)
Next ==
  \/ \E e \in Exprs : Set(e) \/ Refuse(e) \/ SetDies(e)
  \/ \E NO \in Asked : Delete(NO) \/ DeleteFails(NO) \/ DeleteDies(NO)

Spec == Init /\ [][Next]_<<watches, said>>
================================================================================
