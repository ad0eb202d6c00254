------------------------------ MODULE ToolProofs -------------------------------
(***************************************************************************)
(* The tools around the emulator: the benchmark runners and analysers, for *)
(* any number of runners, of runs and of faults; and the configuration,    *)
(* for any symbols, values, files and objects.                             *)
(*                                                                         *)
(* Opening log-1 with "x" is what decides between two runners: whoever     *)
(* made it owns the directory, and its logs are 1..run with no gap, as     *)
(* long as nobody tidies up.  A runner that ended with status 0 has had no *)
(* invalid run, so its samples are all its logs.                           *)
(*                                                                         *)
(* What make leaves alone was compiled with the values autoconf.h has:     *)
(* BuildIsCurrent of AutoConf.  Unless a write was torn, autoconf.h and    *)
(* auto.conf tell the same values (Agree), and what is up to date was      *)
(* compiled with them (FreshInv).                                          *)
(***************************************************************************)
EXTENDS Bench, AutoConf, FiniteSetTheorems, TLAPS

------------------------------------------------------------------------------
(* The benchmark runners.                                                  *)
PCs == {"idle", "flags", "cflags", "ldflags", "check", "open", "wait", "exit"}
RunnerState == [pc : PCs, status : Nat, run : Nat, failed : Nat,
                valid : SUBSET Nat]

BenchTypeOK ==
  /\ LOG_TYPE \in DOMAIN MAX_RUNS
  /\ develop \in BOOLEAN
  /\ build \in Nat
  /\ runner \in [Runners -> RunnerState]
  /\ log \in [1..LastRun -> Log \union {None}]

(* The logs are those of r, and all of its runs have one.                  *)
Owns(r) ==
  /\ LogFiles = 1..runner[r].run
  /\ \A i \in LogFiles : log[i].by = r

Fresh(r) == runner[r].run = 0 /\ runner[r].failed = 0 /\ runner[r].valid = {}

InLoop(r) == runner[r].pc \in {"open", "wait"}

(* In its loop a runner owns the logs, or has none yet and will find out.  *)
Looping(r) ==
  InLoop(r) =>
    /\ runner[r].run <= LastRun
    /\ At(r, "open") => runner[r].run < LastRun
    /\ At(r, "wait") => runner[r].run > 0
    /\ runner[r].run = 0 => Fresh(r) /\ (LogFiles = {} \/ 1 \in LogFiles)
    /\ runner[r].run > 0 => Owns(r)
    /\ runner[r].run > 0 /\ runner[r].failed = 0 =>
         runner[r].valid = {i \in LogFiles : log[i].kind # "running"}

Ended(r) ==
  At(r, "exit") /\ runner[r].status = 0 =>
    /\ runner[r].run > 0
    /\ Owns(r)
    /\ runner[r].valid = 1..runner[r].run

Starting(r) == runner[r].pc \notin {"open", "wait", "exit"} => Fresh(r)

BenchInv ==
  /\ BenchTypeOK
  /\ \A r \in Runners : Looping(r)
  /\ \A r \in Runners : Ended(r)
  /\ \A r \in Runners : Starting(r)
  /\ LogsOfOneRun
------------------------------------------------------------------------------
LEMMA LastRunIsNat ==
  ASSUME BenchTypeOK
  PROVE  LastRun \in Nat \ {0} /\ (LOG_TYPE = "batch" => LastRun % BATCH_SIZE = 0)
BY RunsAssumption DEF BenchTypeOK, LastRun

(* A step of r that leaves the logs and the other runners alone.           *)
Moves(r, s) ==
  /\ runner' \in [Runners -> RunnerState]
  /\ runner'[r] = s
  /\ \A q \in Runners : q # r => runner'[q] = runner[q]

LEMMA MovesIs ==
  ASSUME BenchTypeOK, NEW r \in Runners, NEW s \in RunnerState,
         runner' = [runner EXCEPT ![r] = s]
  PROVE  Moves(r, s)
BY DEF Moves, BenchTypeOK

LEMMA Frame ==
  ASSUME NEW q \in Runners, runner'[q] = runner[q], UNCHANGED <<LOG_TYPE, log>>
  PROVE  /\ Looping(q) => Looping(q)'
         /\ Ended(q) => Ended(q)'
         /\ Starting(q) => Starting(q)'
BY DEF Looping, Ended, Starting, Owns, LogFiles, Fresh, InLoop, At, LastRun

LEMMA StepInv ==
  ASSUME BenchInv, NEW r \in Runners, NEW s \in RunnerState,
         runner' = [runner EXCEPT ![r] = s],
         UNCHANGED <<LOG_TYPE, develop, build, log>>,
         Looping(r)', Ended(r)', Starting(r)'
  PROVE  BenchInv'
<1>1. Moves(r, s)
  BY MovesIs DEF BenchInv
<1>2. BenchTypeOK'
  BY <1>1 DEF BenchInv, BenchTypeOK, Moves, LastRun
<1>3. ASSUME NEW q \in Runners PROVE Looping(q)' /\ Ended(q)' /\ Starting(q)'
  BY <1>1, Frame DEF BenchInv, Moves
<1>4. LogsOfOneRun'
  BY DEF BenchInv, LogsOfOneRun
<1>. QED BY <1>2, <1>3, <1>4 DEF BenchInv

LEMMA ExitInv ==
  ASSUME BenchInv, NEW r \in Runners, NEW status \in Nat \ {0}, Exit(r, status),
         UNCHANGED <<LOG_TYPE, develop, build, log>>
  PROVE  BenchInv'
<1>. DEFINE s == [Idle EXCEPT !.pc = "exit", !.status = status]
<1>0. Idle \in RunnerState
  BY DEF Idle, RunnerState, PCs
<1>1. s \in RunnerState /\ s.pc = "exit" /\ s.status = status
  BY <1>0 DEF RunnerState, PCs
<1>2. runner' = [runner EXCEPT ![r] = s]
  BY DEF Exit
<1>3. runner'[r] = s
  BY DEF BenchInv, BenchTypeOK, Exit
<1>4. Looping(r)' /\ Ended(r)' /\ Starting(r)'
  BY <1>1, <1>3 DEF Looping, Ended, Starting, InLoop, At
<1>. HIDE DEF s
<1>. QED BY <1>1, <1>2, <1>4, StepInv

(* The steps before the loop.                                              *)
LEMMA GotoInv ==
  ASSUME BenchInv, NEW r \in Runners,
         runner[r].pc \notin {"open", "wait", "exit"},
         NEW pc \in PCs \ {"open", "wait", "exit"}, Goto(r, pc),
         UNCHANGED <<LOG_TYPE, develop, build, log>>
  PROVE  BenchInv'
<1>. DEFINE s == [runner[r] EXCEPT !.pc = pc]
<1>1. runner[r] \in RunnerState /\ Fresh(r)
  BY DEF BenchInv, BenchTypeOK, Starting
<1>2. s \in RunnerState /\ s.pc = pc /\ s.run = 0 /\ s.failed = 0 /\ s.valid = {}
  BY <1>1 DEF RunnerState, Fresh
<1>3. runner' = [runner EXCEPT ![r] = s] /\ runner'[r] = s
  BY DEF BenchInv, BenchTypeOK, Goto
<1>. HIDE DEF s
<1>4. Looping(r)' /\ Ended(r)' /\ Starting(r)'
  BY <1>2, <1>3 DEF Looping, Ended, Starting, InLoop, At, Fresh
<1>. QED BY <1>2, <1>3, <1>4, StepInv

LEMMA SetupInv ==
  ASSUME BenchInv, NEW r \in Runners,
         \/ Start(r) \/ CheckFlags(r) \/ CopyCflags(r) \/ CopyLdflags(r)
         \/ Refuse(r) \/ RefuseBatch(r) \/ Kill(r)
  PROVE  BenchInv'
<1>. USE DEF At
<1>1. CASE Start(r)
  BY <1>1, GotoInv DEF Start, PCs
<1>2. CASE CheckFlags(r)
  BY <1>2, GotoInv, ExitInv DEF CheckFlags, PCs
<1>3. CASE CopyCflags(r)
  BY <1>3, GotoInv DEF CopyCflags, CopyFlags, PCs
<1>4. CASE CopyLdflags(r)
  BY <1>4, GotoInv DEF CopyLdflags, CopyFlags, PCs
<1>5. CASE Refuse(r) \/ RefuseBatch(r) \/ Kill(r)
  BY <1>5, ExitInv DEF Refuse, RefuseBatch, Kill
<1>. QED BY <1>1, <1>2, <1>3, <1>4, <1>5

LEMMA CheckLogsInv ==
  ASSUME BenchInv, NEW r \in Runners, CheckLogs(r)
  PROVE  BenchInv'
<1>1. CASE Exit(r, 2)
  BY <1>1, ExitInv DEF CheckLogs
<1>2. CASE Goto(r, "open") /\ \A i \in 1..LastRun : log[i] = None
  <2>. DEFINE s == [runner[r] EXCEPT !.pc = "open"]
  <2>1. runner[r] \in RunnerState /\ Fresh(r)
    BY DEF CheckLogs, At, BenchInv, BenchTypeOK, Starting
  <2>2. s \in RunnerState /\ s.pc = "open" /\ s.run = 0 /\ s.failed = 0 /\ s.valid = {}
    BY <2>1 DEF RunnerState, Fresh, PCs
  <2>3. runner' = [runner EXCEPT ![r] = s] /\ runner'[r] = s
    BY <1>2 DEF BenchInv, BenchTypeOK, Goto
  <2>. HIDE DEF s
  <2>4. LogFiles' = {} /\ LastRun' = LastRun /\ LastRun \in Nat \ {0}
    BY <1>2, LastRunIsNat DEF CheckLogs, LogFiles, LastRun, BenchInv,
       BenchTypeOK
  <2>5. Looping(r)' /\ Ended(r)' /\ Starting(r)'
    BY <2>2, <2>3, <2>4 DEF Looping, Ended, Starting, InLoop, At, Fresh
  <2>. QED BY <2>2, <2>3, <2>5, StepInv DEF CheckLogs
<1>. QED BY <1>1, <1>2 DEF CheckLogs

(* Two runners never own the directory.                                    *)
LEMMA OneOwner ==
  ASSUME BenchInv, NEW r \in Runners, NEW q \in Runners,
         Owns(r), runner[r].run > 0, Owns(q), runner[q].run > 0
  PROVE  q = r
<1>1. 1 \in LogFiles
  BY DEF Owns, BenchInv, BenchTypeOK, RunnerState
<1>. QED BY <1>1 DEF Owns

LEMMA OpenLogInv ==
  ASSUME BenchInv, NEW r \in Runners, OpenLog(r)
  PROVE  BenchInv'
<1>. DEFINE i == runner[r].run + 1
            pc == IF LastOfBatch(i) THEN "wait" ELSE "open"
            s == [runner[r] EXCEPT !.run = i, !.pc = pc]
            e == [by |-> r, kind |-> "running", build |-> build]
<1>1. runner[r] \in RunnerState /\ runner[r].pc = "open" /\ Looping(r)
      /\ runner[r].run \in Nat /\ runner[r].run < LastRun
  BY DEF OpenLog, At, BenchInv, BenchTypeOK, RunnerState, Looping, InLoop
<1>2. CASE log[i] # None
  BY <1>2, ExitInv DEF OpenLog
<1>3. CASE log[i] = None
  <2>1. /\ log' = [log EXCEPT ![i] = e]
        /\ runner' = [runner EXCEPT ![r].run = i, ![r].pc = pc]
        /\ UNCHANGED <<LOG_TYPE, develop, build, flags>>
    BY <1>3 DEF OpenLog
  <2>2. i \in 1..LastRun /\ LastRun \in Nat /\ LastRun' = LastRun
        /\ (LOG_TYPE = "batch" => LastRun % BATCH_SIZE = 0)
    BY <1>1, <2>1, LastRunIsNat DEF BenchInv, LastRun
  <2>3. s \in RunnerState /\ s.run = i /\ s.pc = pc
        /\ s.failed = runner[r].failed /\ s.valid = runner[r].valid
    <3>1. pc \in PCs /\ i \in Nat
      BY <1>1 DEF PCs
    <3>. HIDE DEF pc, i
    <3>2. s \in RunnerState
      BY <1>1, <3>1 DEF RunnerState
    <3>. QED BY <1>1, <3>1, <3>2 DEF RunnerState
  <2>4. Moves(r, s)
    <3>1. runner' = [runner EXCEPT ![r] = s]
      BY <2>1 DEF BenchInv, BenchTypeOK
    <3>. HIDE DEF s
    <3>. QED BY <2>3, <3>1, MovesIs DEF BenchInv
  <2>5. e \in Log /\ e # None /\ e.by = r /\ e.kind = "running"
    BY NoneAssumption DEF Log, LogKinds, BenchInv, BenchTypeOK
  <2>6. log' \in [1..LastRun -> Log \union {None}] /\ log'[i] = e
        /\ \A j \in 1..LastRun : j # i => log'[j] = log[j]
    BY <2>1, <2>2, <2>5 DEF BenchInv, BenchTypeOK
  <2>7. pc \in {"wait", "open"} /\ (pc = "open" => i # LastRun)
    BY <2>2 DEF LastOfBatch
  <2>. HIDE DEF s, e, pc
  <2>8. BenchTypeOK'
    BY <2>1, <2>2, <2>4, <2>6 DEF BenchInv, BenchTypeOK, Moves
  <2>9. LogFiles \subseteq 1..LastRun /\ LogFiles' = LogFiles \union {i}
        /\ i \notin LogFiles
    BY <1>3, <2>2, <2>5, <2>6 DEF LogFiles, BenchInv, BenchTypeOK
  <2>10. LogFiles = 1..runner[r].run /\ \A j \in LogFiles : log[j].by = r
    <3>1. CASE runner[r].run = 0
      BY <1>1, <2>9, <3>1 DEF Looping, InLoop
    <3>2. CASE runner[r].run > 0
      BY <1>1, <3>2 DEF Looping, InLoop, Owns
    <3>. QED BY <1>1, <3>1, <3>2
  <2>11. LogFiles' = 1..i /\ \A j \in LogFiles' : log'[j].by = r
    <3>1. 1..i = (1..runner[r].run) \union {i}
      BY <1>1
    <3>. QED BY <2>5, <2>6, <2>9, <2>10, <3>1
  <2>12. Owns(r)'
    BY <2>3, <2>4, <2>11 DEF Owns, Moves
  <2>13. s.failed = 0 => s.valid = {j \in LogFiles' : log'[j].kind # "running"}
    <3>0. {j \in LogFiles' : log'[j].kind # "running"}
            = {j \in LogFiles : log[j].kind # "running"}
      <4>1. \A j \in LogFiles : log'[j] = log[j]
        BY <2>6, <2>9
      <4>2. log'[i].kind = "running"
        BY <2>5, <2>6
      <4>. HIDE DEF i
      <4>. QED BY <2>9, <4>1, <4>2
    <3>1. SUFFICES ASSUME runner[r].failed = 0
                   PROVE  runner[r].valid = {j \in LogFiles : log[j].kind # "running"}
      BY <2>3, <3>0
    <3>2. CASE runner[r].run = 0
      <4>1. runner[r].valid = {} /\ LogFiles = {}
        BY <1>1, <2>10, <3>2 DEF Looping, InLoop, Fresh
      <4>. QED BY <4>1
    <3>3. CASE runner[r].run > 0
      BY <1>1, <3>1, <3>3 DEF Looping, InLoop
    <3>. QED BY <1>1, <3>2, <3>3
  <2>14. Looping(r)' /\ Ended(r)' /\ Starting(r)'
    BY <1>1, <2>2, <2>3, <2>4, <2>7, <2>12, <2>13 DEF Looping, Ended,
       Starting, Moves, At, InLoop
  <2>15. ASSUME NEW q \in Runners, q # r
         PROVE  Looping(q)' /\ Ended(q)' /\ Starting(q)'
    <3>1. runner'[q] = runner[q] /\ runner[q].run \in Nat
      BY <2>4, <2>15 DEF Moves, BenchInv, BenchTypeOK, RunnerState
    <3>2. ~ (Owns(q) /\ runner[q].run > 0)
      <4>1. SUFFICES ASSUME Owns(q), runner[q].run > 0 PROVE FALSE
        OBVIOUS
      <4>2. 1 \in LogFiles
        BY <3>1, <4>1 DEF Owns
      <4>3. runner[r].run > 0
        BY <1>1, <2>10, <4>2
      <4>. QED BY <2>10, <2>15, <4>1, <4>3, OneOwner DEF Owns
    <3>3. 1 \in LogFiles'
      BY <1>1, <2>11
    <3>4. Looping(q)'
      BY <2>2, <3>1, <3>2, <3>3 DEF Looping, InLoop, At, Fresh, BenchInv
    <3>5. Ended(q)' /\ Starting(q)'
      BY <3>1, <3>2 DEF Ended, Starting, Fresh, At, BenchInv
    <3>. QED BY <3>4, <3>5
  <2>16. LogsOfOneRun'
    BY <2>11 DEF LogsOfOneRun, LogFiles
  <2>. QED BY <2>8, <2>14, <2>15, <2>16 DEF BenchInv
<1>. QED BY <1>2, <1>3

LEMMA CountInv ==
  ASSUME BenchInv, NEW r \in Runners, At(r, "wait"),
         NEW kind \in [Running(r) -> Kinds \union {"ok"}],
         NEW stable \in BOOLEAN, Count(r, kind, stable)
  PROVE  BenchInv'
<1>. DEFINE run == runner[r].run
            good == {i \in Running(r) : ValidRun(kind[i])}
            valid == runner[r].valid \union good
            failed == runner[r].failed + Cardinality(Running(r) \ good)
            stop == run = LastRun \/ stable
            s == [pc |-> IF stop THEN "exit" ELSE "open",
                  status |-> IF stop THEN ExitStatus(failed) ELSE 0,
                  run |-> run, failed |-> failed, valid |-> valid]
<1>1. runner[r] \in RunnerState /\ run \in Nat /\ run > 0 /\ run <= LastRun
      /\ Owns(r) /\ runner[r].failed \in Nat
      /\ (runner[r].failed = 0 =>
            runner[r].valid = {i \in LogFiles : log[i].kind # "running"})
  BY DEF BenchInv, BenchTypeOK, RunnerState, Looping, InLoop, At
<1>2. DOMAIN kind = Running(r)
  OBVIOUS
<1>3. /\ log' = [i \in DOMAIN log |->
           IF i \in Running(r) THEN [log[i] EXCEPT !.kind = kind[i]] ELSE log[i]]
      /\ runner' = [runner EXCEPT ![r] = s]
      /\ UNCHANGED <<LOG_TYPE, develop, build, flags>>
  BY <1>2 DEF Count
<1>4. LastRun \in Nat /\ LastRun' = LastRun /\ DOMAIN log = 1..LastRun
  BY <1>3, LastRunIsNat DEF BenchInv, BenchTypeOK, LastRun
<1>5. Running(r) \subseteq LogFiles /\ LogFiles \subseteq 1..LastRun
      /\ Running(r) = {i \in LogFiles : log[i].kind = "running"}
      /\ \A i \in LogFiles : log[i] \in Log
  BY <1>1 DEF Running, LogFiles, Owns, BenchInv, BenchTypeOK
<1>6. Cardinality(Running(r) \ good) \in Nat
      /\ (Cardinality(Running(r) \ good) = 0 => good = Running(r))
  <2>1. IsFiniteSet(Running(r) \ good)
    <3>1. IsFiniteSet(1..LastRun) BY <1>4, FS_Interval
    <3>2. Running(r) \ good \in SUBSET (1..LastRun) BY <1>5
    <3>. QED BY <3>1, <3>2, FS_Subset
  <2>. QED BY <2>1, FS_CardinalityType, FS_EmptySet
<1>7. s \in RunnerState /\ s.run = run /\ s.failed = failed /\ s.valid = valid
      /\ (s.pc = "exit" <=> stop) /\ s.pc \in {"exit", "open"}
      /\ (stop => s.status = ExitStatus(failed))
  <2>1. failed \in Nat
    BY <1>1, <1>6
  <2>2. valid \in SUBSET Nat
    <3>1. runner[r].valid \in SUBSET Nat
      BY <1>1 DEF RunnerState
    <3>2. good \subseteq Running(r) /\ Running(r) \subseteq 1..LastRun
      BY <1>5
    <3>3. 1..LastRun \subseteq Nat
      BY <1>4
    <3>. HIDE DEF good
    <3>. QED BY <3>1, <3>2, <3>3
  <2>3. (IF stop THEN ExitStatus(failed) ELSE 0) \in Nat
    BY DEF ExitStatus
  <2>. HIDE DEF failed, valid, stop, run
  <2>4. s \in RunnerState
    BY <1>1, <2>1, <2>2, <2>3 DEF RunnerState, PCs
  <2>. QED BY <2>4
<1>8. Moves(r, s)
  BY <1>3, <1>7, MovesIs DEF BenchInv
<1>. HIDE DEF s, good
<1>9. \A i \in 1..LastRun :
        /\ i \in Running(r) => /\ log'[i] \in Log /\ log'[i].by = log[i].by
                               /\ log'[i].kind = kind[i]
        /\ i \notin Running(r) => log'[i] = log[i]
  <2>1. ASSUME NEW i \in Running(r)
        PROVE  /\ log'[i] \in Log /\ log'[i].by = log[i].by
               /\ log'[i].kind = kind[i]
    <3>1. log'[i] = [log[i] EXCEPT !.kind = kind[i]] /\ log[i] \in Log
      BY <1>3, <1>4, <1>5
    <3>2. kind[i] \in LogKinds
      BY DEF LogKinds
    <3>. QED BY <3>1, <3>2 DEF Log
  <2>. QED BY <1>3, <1>4, <2>1
<1>10. LogFiles' = LogFiles /\ \A i \in LogFiles : log'[i].by = log[i].by
  <2>1. DOMAIN log' = 1..LastRun
    BY <1>3, <1>4
  <2>. QED BY <1>4, <1>5, <1>9, <2>1, NoneAssumption DEF LogFiles
<1>11. \A i \in LogFiles : log'[i].kind # "running"
  <2>1. "running" \notin Kinds \union {"ok"}
    BY DEF Kinds
  <2>2. ASSUME NEW i \in Running(r) PROVE log'[i].kind # "running"
    <3>1. kind[i] \in Kinds \union {"ok"} /\ i \in 1..LastRun
      BY <1>5
    <3>. QED BY <1>9, <2>1, <3>1
  <2>. QED BY <1>5, <1>9, <2>2
<1>12. BenchTypeOK'
  <2>1. log' \in [1..LastRun -> Log \union {None}]
    BY <1>3, <1>4, <1>9 DEF BenchInv, BenchTypeOK
  <2>. QED BY <1>3, <1>4, <1>8, <2>1 DEF BenchInv, BenchTypeOK, Moves
<1>13. Owns(r)'
  BY <1>1, <1>7, <1>8, <1>10 DEF Owns, Moves
<1>14. failed = 0 => valid = 1..run
  <2>1. SUFFICES ASSUME failed = 0 PROVE valid = 1..run
    OBVIOUS
  <2>2. runner[r].failed = 0 /\ good = Running(r)
    BY <1>1, <1>6, <2>1
  <2>. QED BY <1>1, <1>5, <2>2 DEF Owns
<1>15. Looping(r)' /\ Ended(r)' /\ Starting(r)'
  <2>1. stop \/ run < LastRun
    BY <1>1, <1>4
  <2>2. failed = 0 => valid = {i \in LogFiles' : log'[i].kind # "running"}
    BY <1>1, <1>10, <1>11, <1>14 DEF Owns
  <2>3. s.pc = "exit" /\ s.status = 0 => failed = 0
    BY <1>1, <1>6, <1>7 DEF ExitStatus
  <2>. HIDE DEF failed, valid, run, stop
  <2>4. runner'[r] = s
    BY <1>8 DEF Moves
  <2>5. Looping(r)'
    BY <1>1, <1>4, <1>7, <1>13, <2>1, <2>2, <2>4 DEF Looping, InLoop, At, run
  <2>6. Ended(r)'
    BY <1>1, <1>7, <1>13, <1>14, <2>3, <2>4 DEF Ended, At, run
  <2>7. Starting(r)'
    BY <1>7, <2>4 DEF Starting
  <2>. QED BY <2>5, <2>6, <2>7
<1>16. ASSUME NEW q \in Runners, q # r
       PROVE  Looping(q)' /\ Ended(q)' /\ Starting(q)'
  <2>1. runner'[q] = runner[q] /\ runner[q].run \in Nat
    BY <1>8, <1>16 DEF Moves, BenchInv, BenchTypeOK, RunnerState
  <2>2. ~ (Owns(q) /\ runner[q].run > 0)
    BY <1>1, <1>16, OneOwner
  <2>3. Looping(q)'
    BY <1>4, <1>10, <2>1, <2>2 DEF Looping, InLoop, At, Fresh, BenchInv
  <2>4. Ended(q)' /\ Starting(q)'
    BY <2>1, <2>2 DEF Ended, Starting, Fresh, At, BenchInv
  <2>. QED BY <2>3, <2>4
<1>17. LogsOfOneRun'
  BY <1>1, <1>10, <1>13 DEF LogsOfOneRun, LogFiles, Owns
<1>. QED BY <1>12, <1>15, <1>16, <1>17 DEF BenchInv

LEMMA FinishInv ==
  ASSUME BenchInv, NEW r \in Runners, FinishRun(r) \/ FinishBatch(r)
  PROVE  BenchInv'
<1>1. CASE FinishRun(r)
  <2>1. PICK k \in {"ok"} \union Kinds, stable \in BOOLEAN :
          Count(r, [i \in Running(r) |-> k], stable)
    BY <1>1 DEF FinishRun
  <2>. DEFINE kind == [i \in Running(r) |-> k]
  <2>2. kind \in [Running(r) -> Kinds \union {"ok"}]
    OBVIOUS
  <2>. HIDE DEF kind
  <2>. QED BY <1>1, <2>1, <2>2, CountInv DEF FinishRun, kind
<1>2. CASE FinishBatch(r)
  <2>0. PICK bad \in SUBSET Running(r) :
          \E k \in [bad -> Kinds], stable \in BOOLEAN :
            Count(r, [i \in Running(r) |-> IF i \in bad THEN k[i] ELSE "ok"],
                  stable)
    BY <1>2 DEF FinishBatch
  <2>1. PICK k \in [bad -> Kinds], stable \in BOOLEAN :
          Count(r, [i \in Running(r) |-> IF i \in bad THEN k[i] ELSE "ok"],
                stable)
    BY <2>0
  <2>. DEFINE kind == [i \in Running(r) |-> IF i \in bad THEN k[i] ELSE "ok"]
  <2>2. kind \in [Running(r) -> Kinds \union {"ok"}]
    OBVIOUS
  <2>. HIDE DEF kind
  <2>. QED BY <1>2, <2>1, <2>2, CountInv DEF FinishBatch, kind
<1>. QED BY <1>1, <1>2

LEMMA OutsideInv ==
  ASSUME BenchInv, Rebuild \/ Tidy
  PROVE  BenchInv'
<1>1. CASE Rebuild
  <2>1. BenchTypeOK'
    BY <1>1 DEF Rebuild, BenchInv, BenchTypeOK, LastRun
  <2>2. ASSUME NEW q \in Runners PROVE Looping(q)' /\ Ended(q)' /\ Starting(q)'
    BY <1>1, Frame DEF Rebuild, BenchInv
  <2>3. LogsOfOneRun'
    BY <1>1 DEF Rebuild, BenchInv, LogsOfOneRun
  <2>. QED BY <2>1, <2>2, <2>3 DEF BenchInv
<1>2. CASE Tidy
  <2>1. \A q \in Runners : runner'[q] = Idle
    BY <1>2 DEF Tidy
  <2>2. Idle \in RunnerState
    BY DEF Idle, RunnerState, PCs
  <2>3. PICK keep : log' = [i \in DOMAIN log |-> IF i \in keep THEN log[i] ELSE None]
    BY <1>2 DEF Tidy
  <2>4. BenchTypeOK'
    BY <1>2, <2>2, <2>3 DEF Tidy, BenchInv, BenchTypeOK, LastRun
  <2>5. ASSUME NEW q \in Runners PROVE Looping(q)' /\ Ended(q)' /\ Starting(q)'
    BY <2>1 DEF Idle, Looping, Ended, Starting, InLoop, At, Fresh
  <2>6. LogsOfOneRun'
    BY <2>3 DEF BenchInv, LogsOfOneRun
  <2>. QED BY <2>4, <2>5, <2>6 DEF BenchInv
<1>. QED BY <1>1, <1>2
------------------------------------------------------------------------------
LEMMA BenchInit ==
  Init => BenchInv
<1> SUFFICES ASSUME Init PROVE BenchInv
  OBVIOUS
<1>1. Idle \in RunnerState
  BY DEF Idle, RunnerState, PCs
<1>2. BenchTypeOK
  BY <1>1 DEF Init, BenchTypeOK
<1>3. ASSUME NEW q \in Runners PROVE Looping(q) /\ Ended(q) /\ Starting(q)
  BY DEF Init, Idle, Looping, Ended, Starting, InLoop, At, Fresh
<1>. QED BY <1>2, <1>3 DEF BenchInv, LogsOfOneRun, Init

LEMMA BenchNext ==
  ASSUME BenchInv, [Next]_vars
  PROVE  BenchInv'
<1>1. ASSUME NEW r \in Runners,
             \/ Start(r) \/ CheckFlags(r) \/ CopyCflags(r) \/ CopyLdflags(r)
             \/ Refuse(r) \/ RefuseBatch(r) \/ CheckLogs(r) \/ OpenLog(r)
             \/ FinishRun(r) \/ FinishBatch(r) \/ Kill(r)
      PROVE  BenchInv'
  BY <1>1, SetupInv, CheckLogsInv, OpenLogInv, FinishInv
<1>2. CASE UNCHANGED vars
  <2>1. BenchTypeOK' /\ LogsOfOneRun'
    BY <1>2 DEF vars, BenchInv, BenchTypeOK, LogsOfOneRun, LastRun
  <2>2. ASSUME NEW q \in Runners PROVE Looping(q)' /\ Ended(q)' /\ Starting(q)'
    BY <1>2, Frame DEF vars, BenchInv
  <2>. QED BY <2>1, <2>2 DEF BenchInv
<1>. QED BY <1>1, <1>2, OutsideInv DEF Next

(* The inductive invariant holds in every reachable state.                 *)
THEOREM BenchInvariant == Spec => []BenchInv
BY BenchInit, BenchNext, PTL DEF Spec

(* The logs of a directory never mix two runners.                          *)
THEOREM BenchLogsOfOneRun == Spec => []LogsOfOneRun
<1>1. BenchInv => LogsOfOneRun BY DEF BenchInv
<1>. QED BY <1>1, BenchInvariant, PTL
------------------------------------------------------------------------------
(* The order of the logs.  natural_key makes it that of their numbers.     *)
Rank(S, i) == Cardinality({j \in S : j <= i})

LEMMA RankIsOnto ==
  ASSUME NEW S \in SUBSET Nat, IsFiniteSet(S)
  PROVE  /\ Cardinality(S) \in Nat
         /\ \A i \in S : Rank(S, i) \in 1..Cardinality(S)
         /\ \A i, j \in S : Rank(S, i) = Rank(S, j) => i = j
<1>1. Cardinality(S) \in Nat
  BY FS_CardinalityType
<1>2. ASSUME NEW i \in S
      PROVE  /\ {j \in S : j <= i} \in SUBSET S
             /\ IsFiniteSet({j \in S : j <= i})
             /\ Rank(S, i) \in 1..Cardinality(S)
  <2>. DEFINE T == {j \in S : j <= i}
  <2>1. T \in SUBSET S /\ i \in T
    OBVIOUS
  <2>2. Rank(S, i) = Cardinality(T)
    BY DEF Rank
  <2>. HIDE DEF T
  <2>3. IsFiniteSet(T) /\ Cardinality(T) <= Cardinality(S)
    BY <2>1, FS_Subset
  <2>4. Cardinality(T) \in Nat /\ Cardinality(T) # 0
    BY <2>1, <2>3, FS_CardinalityType, FS_EmptySet
  <2>. QED BY <1>1, <2>1, <2>2, <2>3, <2>4 DEF T
<1>3. ASSUME NEW i \in S, NEW j \in S, j < i
      PROVE  Rank(S, i) # Rank(S, j)
  <2>. DEFINE T == {k \in S : k <= i}
            U == {k \in S : k <= j}
  <2>1. U \in SUBSET T /\ U # T
    <3>1. \A k \in S : k \in Nat
      OBVIOUS
    <3>2. i \in T /\ i \notin U
      BY <1>3, <3>1
    <3>3. U \subseteq T
      <4> SUFFICES ASSUME NEW k \in S, k <= j PROVE k <= i
        OBVIOUS
      <4>1. k \in Nat /\ j \in Nat /\ i \in Nat
        BY <3>1
      <4>. QED BY <1>3, <4>1
    <3>. HIDE DEF T, U
    <3>. QED BY <3>2, <3>3
  <2>2. IsFiniteSet(T)
    BY <1>2
  <2>3. Rank(S, i) = Cardinality(T) /\ Rank(S, j) = Cardinality(U)
    BY DEF Rank
  <2>. HIDE DEF T, U
  <2>. QED BY <2>1, <2>2, <2>3, FS_Subset
<1>4. ASSUME NEW i \in S, NEW j \in S, Rank(S, i) = Rank(S, j)
      PROVE  i = j
  BY <1>3, <1>4
<1>. QED BY <1>1, <1>2, <1>4

(* The rank of a number in an interval.                                    *)
LEMMA RankInInterval ==
  ASSUME NEW a \in Nat \ {0}, NEW b \in Nat, a <= b
  PROVE  /\ Cardinality(a..b) = b - a + 1
         /\ \A i \in a..b : Rank(a..b, i) = i - a + 1
<1>1. Cardinality(a..b) = b - a + 1
  BY FS_Interval
<1>2. ASSUME NEW i \in a..b PROVE Rank(a..b, i) = i - a + 1
  <2>1. {j \in a..b : j <= i} = a..i
    OBVIOUS
  <2>2. Cardinality(a..i) = i - a + 1
    BY FS_Interval
  <2>. QED BY <2>1, <2>2 DEF Rank
<1>. QED BY <1>1, <1>2

LEMMA AscendingInterval ==
  ASSUME NEW a \in Nat \ {0}, NEW b \in Nat, a <= b
  PROVE  Ascending(a..b) = [k \in 1..(b - a + 1) |-> a + k - 1]
<1>1. Ascending(a..b) =
        [k \in 1..Cardinality(a..b) |-> CHOOSE i \in a..b : Rank(a..b, i) = k]
  BY DEF Ascending, Rank
<1>2. ASSUME NEW k \in 1..(b - a + 1)
      PROVE  (CHOOSE i \in a..b : Rank(a..b, i) = k) = a + k - 1
  <2>1. a + k - 1 \in a..b /\ Rank(a..b, a + k - 1) = k
    BY RankInInterval
  <2>2. \A i \in a..b : Rank(a..b, i) = k => i = a + k - 1
    BY RankInInterval
  <2>. QED BY <2>1, <2>2
<1>. QED BY <1>1, <1>2, RankInInterval, ZenonT(40)

LEMMA DiscoverIsAscending == discover_logs = Ascending(LogFiles)
BY DEF discover_logs, Ascending, natural_key

LEMMA LogFilesIs ==
  ASSUME BenchInv
  PROVE  LogFiles \in SUBSET Nat /\ IsFiniteSet(LogFiles)
         /\ LogFiles \subseteq 1..LastRun
<1>1. LogFiles \in SUBSET (1..LastRun) /\ LastRun \in Nat
  BY LastRunIsNat DEF BenchInv, BenchTypeOK, LogFiles
<1>2. IsFiniteSet(1..LastRun)
  BY <1>1, FS_Interval
<1>3. IsFiniteSet(LogFiles)
  BY <1>1, <1>2, FS_Subset
<1>. QED BY <1>1, <1>3

(* The analyser finds every log.                                           *)
LEMMA DiscoverIsOnto ==
  ASSUME BenchInv
  PROVE  /\ DOMAIN discover_logs = 1..Cardinality(LogFiles)
         /\ \A i \in LogFiles : \E k \in DOMAIN discover_logs : discover_logs[k] = i
<1>. DEFINE S == LogFiles
<1>1. S \in SUBSET Nat /\ IsFiniteSet(S)
  BY LogFilesIs
<1>2. discover_logs =
        [k \in 1..Cardinality(S) |-> CHOOSE i \in S : Rank(S, i) = k]
  BY DiscoverIsAscending DEF Ascending, Rank
<1>. HIDE DEF S
<1>3. ASSUME NEW i \in S
      PROVE  Rank(S, i) \in 1..Cardinality(S) /\ discover_logs[Rank(S, i)] = i
  <2>1. Rank(S, i) \in 1..Cardinality(S)
    BY <1>1, RankIsOnto
  <2>2. \A j \in S : Rank(S, j) = Rank(S, i) => j = i
    BY <1>1, RankIsOnto
  <2>3. (CHOOSE j \in S : Rank(S, j) = Rank(S, i)) = i
    BY <2>2
  <2>. QED BY <1>2, <2>1, <2>3
<1>. QED BY <1>2, <1>3 DEF S

(* An emulator rebuilt between two runs is not reported on.                *)
THEOREM BenchOneBuild == Spec => []OneBuild
<1>1. ASSUME BenchInv PROVE OneBuild
  <2> SUFFICES ASSUME develop, run_analysis # Rejected,
                      NEW i \in LogFiles, NEW j \in LogFiles
               PROVE  log[i].build = log[j].build
    BY DEF OneBuild, LogFiles
  <2>1. determine_nemu_variant(discover_logs)
    BY DEF run_analysis
  <2>2. \A k \in DOMAIN discover_logs :
          log[discover_logs[k]].build = log[discover_logs[1]].build
    BY <2>1 DEF determine_nemu_variant
  <2>. QED BY <1>1, <2>2, DiscoverIsOnto
<1>. QED BY <1>1, BenchInvariant, PTL

(* What the analyser reports of a run that ended with status 0 is the very *)
(* samples the runner found stable, in their order.                        *)
THEOREM BenchResultsAreJudged == Spec => []ResultsAreJudged
<1>1. ASSUME BenchInv PROVE ResultsAreJudged
  <2> SUFFICES ASSUME NEW r \in Runners, At(r, "exit"), runner[r].status = 0,
                      run_analysis # Rejected
               PROVE  run_analysis.kept = judged(runner[r].valid)
    BY DEF ResultsAreJudged
  <2>. DEFINE n == runner[r].run
            logs == [k \in 1..n |-> k]
  <2>1. n \in Nat \ {0} /\ LogFiles = 1..n /\ runner[r].valid = 1..n
    BY <1>1 DEF BenchInv, BenchTypeOK, RunnerState, Ended, Owns
  <2>2. Ascending(1..n) = logs /\ Cardinality(1..n) = n
    BY <2>1, AscendingInterval, RankInInterval
  <2>3. discover_logs = logs
    BY <2>1, <2>2, DiscoverIsAscending
  <2>4. Len(discover_logs) >= MIN_LOG_FILES
        /\ run_analysis = [records |-> discover_logs, kept |-> warmed(discover_logs)]
    BY DEF run_analysis
  <2>5. Len(logs) = n /\ n >= 15
    BY <2>1, <2>3, <2>4 DEF MIN_LOG_FILES
  <2>6. run_analysis.kept = SubSeq(logs, WARMUP_RUNS + 1, n)
    BY <2>3, <2>4, <2>5 DEF warmed
  <2>7. CASE LOG_TYPE # "batch"
    BY <2>1, <2>2, <2>6, <2>7 DEF judged
  <2>8. CASE LOG_TYPE = "batch"
    <3>1. WARMUP_RUNS = 8
      BY <2>8 DEF WARMUP_RUNS, BATCH_SIZE
    <3>2. {i \in 1..n : i > 8} = 9..n
      BY <2>1
    <3>3. judged(runner[r].valid) = Ascending(9..n)
      BY <2>1, <2>8, <3>1, <3>2 DEF judged
    <3>4. Ascending(9..n) = [k \in 1..(n - 9 + 1) |-> 9 + k - 1]
      <4>1. n \in Nat /\ 9 \in Nat \ {0} /\ 9 <= n
        BY <2>1, <2>5
      <4> QED
        BY ONLY <4>1, AscendingInterval
    <3>5. SubSeq(logs, 9, n) = [k \in 1..(n - 9 + 1) |-> 9 + k - 1]
      BY <2>1, <2>5
    <3>6. run_analysis.kept = SubSeq(logs, 9, n)
      BY <2>6, <3>1
    <3>. HIDE DEF logs
    <3>. QED BY <3>3, <3>4, <3>5, <3>6
  <2>. QED BY <2>7, <2>8
<1>. QED BY <1>1, BenchInvariant, PTL

------------------------------------------------------------------------------
(* The configuration a build was made with.                                *)

(* The files tell the same values: autoconf.h what was compiled, auto.conf *)
(* what the next conf_touch_deps compares with.                            *)
Agree == header = <<Macros(OldAuto)>> \/ (header = <<>> /\ auto = <<>>)

(* auto.conf holds values conf_write_autoconf writes.                      *)
AutoInv == \A s \in DOMAIN OldAuto : s \in Names /\ ~ (s \in Bools /\ OldAuto[s] = No)

(* The objects make leaves alone.                                          *)
UpToDate(o) == built[o] # <<>> /\ o \notin stale
FreshInv == \A o \in Objects : UpToDate(o) => header # <<>> /\ built[o] = Compiled(o)

(* What the program between two writes has done and is yet to do.          *)
WriteInv ==
  /\ phase \in {"touch", "header", "auto"} => Readable
  /\ phase = "header" => \A o \in Objects : UpToDate(o) => parse_dep_file(o) \cap Touched = {}
  /\ phase = "auto" => header = <<Macros([s \in SetSymbols |-> curr[s]])>>

AutoConfInv ==
  /\ phase \in Elsewhere \cup {"touch", "header", "auto"}
  /\ built = [o \in Objects |-> built[o]]
  /\ AutoInv
  /\ WriteInv
  /\ ~ torn => FreshInv /\ (phase # "auto" => Agree)

------------------------------------------------------------------------------
LEMMA OldAutoAfter ==
  ASSUME Readable, auto' = <<Contents>>
  PROVE  OldAuto' = [s \in SetSymbols |-> curr[s]]
<1>1. DOMAIN Contents = SetSymbols /\ \A s \in SetSymbols : Contents[s] = Line(s, curr[s])
  BY DEF Contents
<1>2. \A s \in SetSymbols : /\ Value(s, Contents[s]) # <<>>
                            /\ Value(s, Contents[s])[1] = curr[s]
  BY <1>1 DEF Readable
<1>3. Valid(Contents) = SetSymbols
  BY <1>1, <1>2 DEF Valid
<1>4. Lines(Contents) = [s \in SetSymbols |-> curr[s]]
  BY <1>2, <1>3 DEF Lines
<1>5. OldAuto' = Lines(Contents)
  BY DEF OldAuto, Lines, Valid
<1> QED BY <1>4, <1>5

(* An object no touched symbol is a word of sees the same macros after.    *)
LEMMA CompiledAfter ==
  ASSUME NEW o, header = <<Macros(OldAuto)>>, AutoInv,
         parse_dep_file(o) \cap Touched = {},
         header' = <<Macros([s \in SetSymbols |-> curr[s]])>>
  PROVE  Compiled(o)' = Compiled(o)
<1> DEFINE vals == [s \in SetSymbols |-> curr[s]]
           D == parse_dep_file(o)
<1>1. header[1] = Macros(OldAuto) /\ header'[1] = Macros(vals)
  OBVIOUS
<1>2. /\ DOMAIN Macros(OldAuto) = DOMAIN OldAuto
      /\ \A s \in DOMAIN OldAuto : Macros(OldAuto)[s] = Macro(s, OldAuto[s])
  BY DEF Macros
<1>3. /\ DOMAIN Macros(vals) = SetSymbols
      /\ \A s \in SetSymbols : Macros(vals)[s] = Macro(s, curr[s])
  BY DEF Macros
<1>4. ASSUME NEW s \in D
      PROVE  /\ s \in SetSymbols <=> s \in DOMAIN OldAuto
             /\ s \in SetSymbols => curr[s] = OldAuto[s]
  <2>1. s \notin Touched
    OBVIOUS
  <2>2. s \in DOMAIN OldAuto => s \in Names /\ ~ (s \in Bools /\ OldAuto[s] = No)
    BY DEF AutoInv
  <2>3. CASE s \in Names
    <3>1. CASE s \in written /\ s \in DOMAIN OldAuto
      <4>1. curr[s] = OldAuto[s]
        BY <2>1, <2>3, <3>1 DEF Touched
      <4> QED BY <2>2, <2>3, <3>1, <4>1 DEF SetSymbols
    <3>2. CASE s \in written /\ s \notin DOMAIN OldAuto
      BY <2>1, <2>3, <3>2 DEF Touched, SetSymbols
    <3>3. CASE s \notin written
      BY <2>1, <2>3, <3>3 DEF Touched, SetSymbols
    <3> QED BY <3>1, <3>2, <3>3
  <2>4. CASE s \notin Names
    BY <2>2, <2>4 DEF SetSymbols
  <2> QED BY <2>3, <2>4
<1>5. D \cap DOMAIN header'[1] = D \cap DOMAIN header[1]
  BY <1>1, <1>2, <1>3, <1>4
<1>6. \A s \in D \cap DOMAIN header[1] : header'[1][s] = header[1][s]
  BY <1>1, <1>2, <1>3, <1>4
<1>7. [s \in D \cap DOMAIN header'[1] |-> header'[1][s]]
        = [s \in D \cap DOMAIN header[1] |-> header[1][s]]
  BY <1>5, <1>6
<1> QED BY <1>7 DEF Compiled, parse_dep_file

------------------------------------------------------------------------------
LEMMA InvInit == AutoConfInit => AutoConfInv
<1> SUFFICES ASSUME AutoConfInit PROVE AutoConfInv
  OBVIOUS
<1>1. OldAuto = <<>> /\ DOMAIN OldAuto = {}
  BY DEF AutoConfInit, OldAuto
<1>2. \A o \in Objects : ~ UpToDate(o)
  BY DEF AutoConfInit, UpToDate
<1> QED BY <1>1, <1>2 DEF AutoConfInit, AutoConfInv, AutoInv, FreshInv, WriteInv, Agree, Elsewhere

(* What a step that leaves the files and the objects alone keeps.          *)
LEMMA FilesKept ==
  ASSUME UNCHANGED <<auto, header, built, stale>>
  PROVE  /\ AutoInv => AutoInv'
         /\ FreshInv => FreshInv'
         /\ Agree => Agree'
         /\ OldAuto' = OldAuto
<1>1. OldAuto' = OldAuto
  BY DEF OldAuto, Lines, Valid
<1> QED BY <1>1 DEF AutoInv, FreshInv, UpToDate, Compiled, parse_dep_file, Agree, Macros

LEMMA ConfiguresStep ==
  AutoConfInv /\ Configures
    /\ (phase' \in Elsewhere \/ (phase' = "touch" /\ Readable')) => AutoConfInv'
<1> SUFFICES ASSUME AutoConfInv, Configures,
                    phase' \in Elsewhere \/ (phase' = "touch" /\ Readable')
             PROVE  AutoConfInv'
  OBVIOUS
<1>1. UNCHANGED <<auto, header, built, stale, torn>>
  BY DEF Configures, objects
<1>2. phase # "auto" /\ phase' \notin {"header", "auto"}
  BY DEF Configures, Elsewhere
<1>3. WriteInv'
  BY <1>2 DEF WriteInv, Elsewhere
<1> QED BY <1>1, <1>2, <1>3, FilesKept DEF AutoConfInv, Elsewhere

LEMMA TouchStep == AutoConfInv /\ conf_touch_deps => AutoConfInv'
<1> SUFFICES ASSUME AutoConfInv, conf_touch_deps PROVE AutoConfInv'
  OBVIOUS
<1> USE DEF conf_touch_deps
<1>1. OldAuto' = OldAuto /\ Touched' = Touched /\ (AutoInv => AutoInv') /\ (Agree => Agree')
  <2>1. OldAuto' = OldAuto
    BY DEF OldAuto, Lines, Valid
  <2> QED BY <2>1 DEF Touched, AutoInv, Agree, Macros
<1>2. \A o \in Objects : UpToDate(o)' => UpToDate(o) /\ (parse_dep_file(o) \cap Touched = {})'
  BY <1>1 DEF UpToDate, parse_dep_file
<1>3. FreshInv => FreshInv'
  BY <1>2 DEF FreshInv, Compiled, parse_dep_file
<1>4. Readable'
  BY DEF AutoConfInv, WriteInv, Readable, SetSymbols
<1>5. WriteInv'
  BY <1>2, <1>4 DEF WriteInv
<1> QED BY <1>1, <1>3, <1>5 DEF AutoConfInv

LEMMA RenameHeaderStep == AutoConfInv /\ RenameHeader => AutoConfInv'
<1> SUFFICES ASSUME AutoConfInv, RenameHeader PROVE AutoConfInv'
  OBVIOUS
<1> USE DEF RenameHeader
<1>1. UNCHANGED <<curr, written, auto, built, stale, torn>>
  BY DEF objects
<1>2. OldAuto' = OldAuto /\ SetSymbols' = SetSymbols
  BY <1>1 DEF OldAuto, Lines, Valid, SetSymbols
<1>3. AutoInv'
  BY <1>2 DEF AutoInv, AutoConfInv
<1>4. WriteInv'
  BY <1>1, <1>2 DEF WriteInv, AutoConfInv, Readable, Macros
<1>5. ASSUME ~ torn PROVE FreshInv'
  <2> SUFFICES ASSUME NEW o \in Objects, UpToDate(o)'
               PROVE  (header # <<>> /\ built[o] = Compiled(o))'
    BY DEF FreshInv
  <2>1. UpToDate(o) /\ header # <<>> /\ built[o] = Compiled(o) /\ Agree
    BY <1>1, <1>5 DEF UpToDate, AutoConfInv, FreshInv
  <2>2. header = <<Macros(OldAuto)>>
    BY <2>1 DEF Agree
  <2>3. parse_dep_file(o) \cap Touched = {}
    BY <2>1 DEF AutoConfInv, WriteInv
  <2>4. Compiled(o)' = Compiled(o)
    BY <2>2, <2>3, CompiledAfter DEF AutoConfInv
  <2> QED BY <1>1, <2>1, <2>4
<1> QED BY <1>1, <1>3, <1>4, <1>5 DEF AutoConfInv

LEMMA RenameAutoStep ==
  AutoConfInv /\ RenameAuto /\ phase' \in Elsewhere => AutoConfInv'
<1> SUFFICES ASSUME AutoConfInv, RenameAuto, phase' \in Elsewhere PROVE AutoConfInv'
  OBVIOUS
<1> USE DEF RenameAuto
<1>1. UNCHANGED <<header, built, stale, torn>>
  BY DEF objects
<1>2. OldAuto' = [s \in SetSymbols |-> curr[s]]
  BY OldAutoAfter DEF AutoConfInv, WriteInv
<1>3. AutoInv'
  BY <1>2 DEF AutoInv, SetSymbols
<1>4. Agree'
  BY <1>1, <1>2 DEF Agree, Macros, AutoConfInv, WriteInv
<1>5. FreshInv => FreshInv'
  BY <1>1 DEF FreshInv, UpToDate, Compiled, parse_dep_file
<1>6. WriteInv'
  BY DEF WriteInv, Elsewhere
<1> QED BY <1>1, <1>3, <1>4, <1>5, <1>6 DEF AutoConfInv

LEMMA KilledStep == AutoConfInv /\ Killed => AutoConfInv'
<1> SUFFICES ASSUME AutoConfInv, Killed PROVE AutoConfInv'
  OBVIOUS
<1> USE DEF Killed
<1>1. UNCHANGED <<auto, header, built, stale>>
  BY DEF objects
<1>2. WriteInv'
  BY DEF WriteInv
<1>3. ~ torn' => ~ torn /\ Agree
  BY DEF Agree, AutoConfInv
<1> QED BY <1>1, <1>2, <1>3, FilesKept DEF AutoConfInv, Elsewhere

LEMMA CompileStep ==
  ASSUME NEW o \in Objects, AutoConfInv, Compile(o)
  PROVE  AutoConfInv'
<1> USE DEF Compile
<1>1. OldAuto' = OldAuto /\ (AutoInv => AutoInv') /\ (Agree => Agree')
  <2>1. OldAuto' = OldAuto
    BY DEF OldAuto, Lines, Valid
  <2> QED BY <2>1 DEF AutoInv, Agree, Macros
<1>2. \A p : Compiled(p)' = Compiled(p)
  BY DEF Compiled, parse_dep_file
<1>3. /\ built'[o] = Compiled(o)
      /\ \A p \in Objects \ {o} : built'[p] = built[p] /\ (p \in stale' <=> p \in stale)
      /\ built' = [p \in Objects |-> built'[p]]
  BY DEF AutoConfInv
<1>4. FreshInv => FreshInv'
  BY <1>2, <1>3 DEF FreshInv, UpToDate
<1>5. WriteInv'
  BY DEF WriteInv
<1> QED BY <1>1, <1>3, <1>4, <1>5 DEF AutoConfInv

LEMMA CleanStep == AutoConfInv /\ Clean => AutoConfInv'
<1> SUFFICES ASSUME AutoConfInv, Clean PROVE AutoConfInv'
  OBVIOUS
<1> USE DEF Clean
<1>1. OldAuto' = OldAuto /\ (AutoInv => AutoInv') /\ (Agree => Agree')
  <2>1. OldAuto' = OldAuto
    BY DEF OldAuto, Lines, Valid
  <2> QED BY <2>1 DEF AutoInv, Agree, Macros
<1>2. FreshInv'
  BY DEF FreshInv, UpToDate
<1>3. ~ torn' => Agree
  BY DEF Agree, AutoConfInv
<1>4. WriteInv'
  BY DEF WriteInv
<1> QED BY <1>1, <1>2, <1>3, <1>4 DEF AutoConfInv

LEMMA StutterStep == AutoConfInv /\ UNCHANGED autoconf_vars => AutoConfInv'
<1> SUFFICES ASSUME AutoConfInv, UNCHANGED autoconf_vars PROVE AutoConfInv'
  OBVIOUS
<1>1. UNCHANGED <<curr, written, phase, auto, header, built, stale, torn>>
  BY DEF autoconf_vars, objects
<1>2. OldAuto' = OldAuto
  BY <1>1, FilesKept
<1>3. Readable' = Readable /\ Touched' = Touched /\ SetSymbols' = SetSymbols
  BY <1>1, <1>2 DEF Readable, Touched, SetSymbols
<1>4. WriteInv'
  BY <1>1, <1>3 DEF AutoConfInv, WriteInv, UpToDate, parse_dep_file, Macros
<1> QED BY <1>1, <1>4, FilesKept DEF AutoConfInv

(* Whatever the programs, the crashes and make do, the files agree, and    *)
(* the objects make leaves alone are compiled from autoconf.h.             *)
THEOREM AutoConfInvariant == AutoConfSpec => []AutoConfInv
<1>1. AutoConfInv /\ [AutoConfNext]_autoconf_vars => AutoConfInv'
  <2> SUFFICES ASSUME AutoConfInv, [AutoConfNext]_autoconf_vars PROVE AutoConfInv'
    OBVIOUS
  <2>1. CASE Configures /\ phase' \in Elsewhere
    BY <2>1, ConfiguresStep
  <2>2. CASE Configures /\ phase' = "touch" /\ Readable'
    BY <2>2, ConfiguresStep
  <2>3. CASE conf_touch_deps
    BY <2>3, TouchStep
  <2>4. CASE RenameHeader
    BY <2>4, RenameHeaderStep
  <2>5. CASE RenameAuto /\ phase' \in Elsewhere
    BY <2>5, RenameAutoStep
  <2>6. CASE Killed
    BY <2>6, KilledStep
  <2>7. CASE \E o \in Objects : Compile(o)
    BY <2>7, CompileStep
  <2>8. CASE Clean
    BY <2>8, CleanStep
  <2>9. CASE UNCHANGED autoconf_vars
    BY <2>9, StutterStep
  <2> QED BY <2>1, <2>2, <2>3, <2>4, <2>5, <2>6, <2>7, <2>8, <2>9 DEF AutoConfNext
<1> QED BY <1>1, InvInit, PTL DEF AutoConfSpec

(* BuildIsCurrent, for every Kconfig, header and source: an object make    *)
(* does not compile again has the values of autoconf.h.                    *)
THEOREM AutoConfBuildIsCurrent == AutoConfSpec => []BuildIsCurrent
<1>1. AutoConfInv => BuildIsCurrent
  BY DEF AutoConfInv, BuildIsCurrent, FreshInv, UpToDate
<1> QED BY <1>1, AutoConfInvariant, PTL
==============================================================================
