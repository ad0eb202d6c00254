------------------------------ MODULE ExplogProofs -----------------------------
(***************************************************************************)
(* The experiment log, for any number of processes, configurations, ids,   *)
(* scripts and ticks of the clock.                                         *)
(*                                                                         *)
(* There is no lock: mkdir with exist_ok=False is what makes the process   *)
(* that created a directory its owner until it appends or dies, and a      *)
(* directory that has a record has no owner.  A parent is looked up in the *)
(* log before the child is stamped, and lines of the log that could be     *)
(* read once are never lost, unless the log can never be read again.       *)
(***************************************************************************)
EXTENDS Explog, SequenceTheorems, FiniteSetTheorems, TLAPS

ExplogTypeOK ==
  /\ proc \in [Processes -> Command \union {None}]
  /\ log \in [exists : BOOLEAN, lines : Seq(Node \union {BAD}), open : BOOLEAN]
  /\ dir \in [Dirs -> [level : 0..Complete, diff : Snapshot \union {None}]]
  /\ head \in Nat /\ pending \in BOOLEAN
  /\ clock \in 0..MaxClock

In(p, pcs) == proc[p] # None /\ proc[p].pc \in pcs
Running == {"plan", "head", "add", "diff", "mkdir", "work", "append"}
Working == {"work", "append"}

(* The process that made a directory is alone in it, and it is in the log  *)
(* only when the process has left.                                         *)
Owned(p) ==
  /\ In(p, Working) =>
       /\ dir[Mine(p)].level >= 1
       /\ dir[Mine(p)].level >= 2 => dir[Mine(p)].diff = proc[p].diff
       /\ \A q \in Processes : In(q, Working) /\ Mine(q) = Mine(p) => q = p
       /\ \A i \in Records(log.lines) : log.lines[i].data_dir # Mine(p)
  /\ At(p, "append") => dir[Mine(p)].level = Complete /\ proc[p].at # None

(* A run has an id, and what Git said is of one moment unless disturbed.   *)
Captured(p) ==
  /\ In(p, Running) => proc[p].id \in Ids
  /\ In(p, Running \ {"plan", "head"}) => proc[p].head # None
  /\ In(p, {"mkdir"} \union Working) => proc[p].diff # None
  /\ In(p, Running) =>
       \/ proc[p].disturbed
       \/ /\ In(p, {"add", "diff"}) => proc[p].head = head
          /\ At(p, "diff") => ~ pending
          /\ In(p, {"mkdir"} \union Working) =>
               proc[p].diff = [base |-> proc[p].head, untracked |-> TRUE]

(* A broken line stays, and then the log can never be read again.          *)
Broken == \E i \in DOMAIN log.lines : log.lines[i] = BAD

Listed(i, parent, time) ==
  \E j \in 1..i : log.lines[j].id = parent /\ log.lines[j].timestamp <= time

(* The parent a running command was given is in the log.                   *)
ParentKnown(p) ==
  In(p, Running) /\ proc[p].parent # None =>
    \/ Broken
    \/ Listed(Len(log.lines), proc[p].parent,
              IF At(p, "append") THEN proc[p].at ELSE clock)

(* No stamp is later than the clock.                                       *)
Stamped ==
  /\ \A i \in Records(log.lines) : log.lines[i].timestamp <= clock
  /\ \A p \in Processes : At(p, "append") => proc[p].at <= clock

(* Each parent was in the log before its child, with no later a stamp.     *)
ParentsLogged ==
  Broken \/ \A i \in DOMAIN log.lines :
              log.lines[i].parent_id = None
              \/ Listed(i - 1, log.lines[i].parent_id, log.lines[i].timestamp)

LogInv ==
  /\ ~ log.exists => log = NoLog /\ succeeded = {}
  /\ log.open => log.lines # <<>>
  /\ \A d \in Dirs : dir[d].diff # None => dir[d].level >= 2

ExplogInv ==
  /\ ExplogTypeOK
  /\ \A p \in Processes : Owned(p)
  /\ \A p \in Processes : Captured(p)
  /\ \A p \in Processes : ParentKnown(p)
  /\ Stamped
  /\ ParentsLogged
  /\ LogInv
  /\ RecordBacked
  /\ OneRecordPerDirectory
  /\ SuccessRecorded
------------------------------------------------------------------------------
LEMMA IdInIds ==
  ASSUME ExplogTypeOK
  PROVE  generate_id \in Ids
<1>1. clock \in Nat /\ clock <= MaxClock /\ MaxClock \in Nat
      /\ TicksPerSecond \in Nat /\ TicksPerSecond > 0
  BY ExplogAssumption DEF ExplogTypeOK
<1>2. clock \div TicksPerSecond \in 0..(MaxClock \div TicksPerSecond)
  BY <1>1, SMT
<1>. QED BY <1>2 DEF generate_id, Ids

(* Disturb only sets disturbed, and sets it where a snapshot is under way. *)
LEMMA DisturbIs ==
  ASSUME NEW f \in [Processes -> Command \union {None}]
  PROVE  /\ Disturb(f) \in [Processes -> Command \union {None}]
         /\ \A q \in Processes :
              /\ f[q] = None => Disturb(f)[q] = None
              /\ f[q] # None =>
                   /\ Disturb(f)[q] # None
                   /\ Disturb(f)[q].pc = f[q].pc
                   /\ Disturb(f)[q].config = f[q].config
                   /\ Disturb(f)[q].id = f[q].id
                   /\ Disturb(f)[q].parent = f[q].parent
                   /\ Disturb(f)[q].at = f[q].at
                   /\ Disturb(f)[q].head = f[q].head
                   /\ Disturb(f)[q].diff = f[q].diff
                   /\ f[q].disturbed => Disturb(f)[q].disturbed
                   /\ f[q].pc \in {"add", "diff"} => Disturb(f)[q].disturbed
BY NoneAssumption, ZenonT(40) DEF Disturb, Command

LEMMA LogFrame ==
  ASSUME ExplogInv, UNCHANGED <<log.lines, log.open, dir, succeeded>>,
         log' = log \/ log'.exists
  PROVE  (/\ ParentsLogged /\ LogInv /\ RecordBacked
          /\ OneRecordPerDirectory /\ SuccessRecorded)'
BY DEF ExplogInv, ParentsLogged, LogInv, RecordBacked, OneRecordPerDirectory,
   SuccessRecorded, Broken, Listed, Records, Short

(* A step of p that leaves the other commands alone.                       *)
Moves(p, r) ==
  /\ proc' \in [Processes -> Command \union {None}]
  /\ proc'[p] = r
  /\ \A q \in Processes : q # p => proc'[q] = proc[q]

LEMMA MovesIs ==
  ASSUME ExplogTypeOK, NEW p \in Processes, NEW r \in Command \union {None},
         proc' = [proc EXCEPT ![p] = r]
  PROVE  Moves(p, r)
BY DEF Moves, ExplogTypeOK

LEMMA OwnedStays ==
  ASSUME ExplogInv, UNCHANGED <<log.lines, dir>>,
         \A q \in Processes : In(q, Working)' =>
            /\ In(q, Working) /\ Mine(q)' = Mine(q)
            /\ proc'[q].diff = proc[q].diff
            /\ At(q, "append")' => At(q, "append") /\ proc'[q].at = proc[q].at
  PROVE  \A q \in Processes : Owned(q)'
<1> SUFFICES ASSUME NEW q \in Processes PROVE Owned(q)'
  OBVIOUS
<1>1. Owned(q) BY DEF ExplogInv
<1>2. At(q, "append")' => In(q, Working)'
  BY DEF At, In, Working
<1>3. (\A i \in Records(log.lines) : log.lines[i].data_dir # Mine(q))
      /\ Mine(q)' = Mine(q)
      => (\A i \in Records(log.lines) : log.lines[i].data_dir # Mine(q))'
  BY DEF Records
<1>4. dir' = dir OBVIOUS
<1>. QED BY <1>1, <1>2, <1>3, <1>4 DEF Owned

LEMMA StampedStays ==
  ASSUME ExplogInv, UNCHANGED <<log.lines, clock>>,
         \A q \in Processes : In(q, Working)' =>
            /\ In(q, Working) /\ Mine(q)' = Mine(q)
            /\ proc'[q].diff = proc[q].diff
            /\ At(q, "append")' => At(q, "append") /\ proc'[q].at = proc[q].at
  PROVE  Stamped'
<1>1. \A q \in Processes : At(q, "append")' => In(q, Working)'
  BY DEF At, In, Working
<1>. QED BY <1>1 DEF ExplogInv, Stamped, Records

LEMMA CapturedStays ==
  ASSUME NEW q \in Processes, Captured(q), UNCHANGED <<head, pending>>,
         In(q, Running)' => proc'[q] = proc[q]
  PROVE  Captured(q)'
BY DEF Captured, In, Running, Working, At

LEMMA ParentKnownStays ==
  ASSUME NEW q \in Processes, ParentKnown(q), UNCHANGED <<log.lines, clock>>,
         In(q, Running)' =>
            /\ In(q, Running) /\ proc'[q].parent = proc[q].parent
            /\ At(q, "append")' = At(q, "append")
            /\ At(q, "append") => proc'[q].at = proc[q].at
  PROVE  ParentKnown(q)'
BY DEF ParentKnown, Listed, Broken

(* A step that takes p out of a run, or leaves it outside one.              *)
LEMMA OutsideInv ==
  ASSUME ExplogInv, NEW p \in Processes, NEW r \in Command \union {None},
         proc' = [proc EXCEPT ![p] = r], r = None \/ r.pc \notin Running,
         UNCHANGED <<log, dir, head, pending, clock, succeeded>>
  PROVE  ExplogInv'
<1>1. Moves(p, r)
  BY MovesIs DEF ExplogInv
<1>2. ~ In(p, Running)' /\ ~ In(p, Working)' /\ ~ At(p, "append")'
  BY <1>1 DEF Moves, In, At, Running, Working
<1>3. ExplogTypeOK'
  BY <1>1 DEF Moves, ExplogTypeOK, ExplogInv
<1>4. Stamped' /\ \A q \in Processes : Owned(q)'
  <2>1. \A q \in Processes : In(q, Working)' =>
            /\ In(q, Working) /\ Mine(q)' = Mine(q)
            /\ proc'[q].diff = proc[q].diff
            /\ At(q, "append")' => At(q, "append") /\ proc'[q].at = proc[q].at
    BY <1>1, <1>2 DEF Moves, In, At, Mine
  <2>. QED BY <2>1, OwnedStays, StampedStays
<1>5. ASSUME NEW q \in Processes PROVE Captured(q)'
  BY <1>1, <1>2, CapturedStays DEF Moves, ExplogInv
<1>6. ASSUME NEW q \in Processes PROVE ParentKnown(q)'
  BY <1>1, <1>2, ParentKnownStays DEF Moves, In, At, ExplogInv
<1>. QED BY <1>3, <1>4, <1>5, <1>6, LogFrame DEF ExplogInv

LEMMA FailInv ==
  ASSUME ExplogInv, NEW p \in Processes, Fail(p)
  PROVE  ExplogInv'
BY OutsideInv DEF Fail, Return, files

LEMMA InitConfigInv ==
  ASSUME ExplogInv, NEW p \in Processes, InitConfig(p)
  PROVE  ExplogInv'
<1>1. PICK c \in Configs :
        Begin(p, c, IF config[c] = "absent" THEN "init.create"
                    ELSE "init.preflight", None, None)
  BY DEF InitConfig
<1>. DEFINE pc == IF config[c] = "absent" THEN "init.create" ELSE "init.preflight"
            r == [pc |-> pc, config |-> c, id |-> None, parent |-> None,
                  at |-> None, head |-> None, diff |-> None, disturbed |-> FALSE]
<1>2. r \in Command /\ r.pc \notin Running
  BY DEF Command, Steps, Running
<1>3. proc' = [proc EXCEPT ![p] = r]
  BY <1>1 DEF Begin
<1>. HIDE DEF r
<1>. QED BY <1>2, <1>3, OutsideInv DEF InitConfig, files

LEMMA InitStepInv ==
  ASSUME ExplogInv, NEW p \in Processes, NEW pc \in Steps \ Running,
         proc[p] # None, Goto(p, pc),
         UNCHANGED <<log, dir, head, pending, clock, succeeded>>
  PROVE  ExplogInv'
<1>. DEFINE r == [proc[p] EXCEPT !.pc = pc]
<1>1. proc[p] \in Command
  BY DEF ExplogInv, ExplogTypeOK
<1>2. r \in Command /\ r.pc \notin Running
  BY <1>1 DEF Command
<1>3. proc' = [proc EXCEPT ![p] = r]
  BY DEF Goto
<1>. HIDE DEF r
<1>. QED BY <1>2, <1>3, OutsideInv

LEMMA InitializeEnvironmentInv ==
  ASSUME ExplogInv, NEW p \in Processes,
         \/ CreateEmptyConfig(p) \/ InitPreflight(p)
         \/ CreateLogParent(p) \/ CreateDataRoot(p)
  PROVE  ExplogInv'
<1>1. {"init.preflight", "init.parent", "init.root", "init.log"}
        \subseteq Steps \ Running
  BY DEF Steps, Running
<1>2. CASE CreateEmptyConfig(p)
  <2>1. CASE Return(p)
    BY <1>2, <2>1, OutsideInv DEF CreateEmptyConfig, Return
  <2>2. CASE Goto(p, "init.preflight")
    BY <1>1, <1>2, <2>2, InitStepInv DEF CreateEmptyConfig, At
  <2>. QED BY <1>2, <2>1, <2>2 DEF CreateEmptyConfig
<1>3. CASE InitPreflight(p)
  BY <1>1, <1>3, InitStepInv DEF InitPreflight, At, files
<1>4. CASE CreateLogParent(p)
  BY <1>1, <1>4, InitStepInv DEF CreateLogParent, At
<1>5. CASE CreateDataRoot(p)
  BY <1>1, <1>5, InitStepInv DEF CreateDataRoot, At
<1>. QED BY <1>2, <1>3, <1>4, <1>5

LEMMA PlanDirectoriesInv ==
  ASSUME ExplogInv, NEW p \in Processes, PlanDirectories(p)
  PROVE  ExplogInv'
<1>. DEFINE r == [proc[p] EXCEPT !.pc = "head"]
<1>. USE DEF ExplogInv
<1>1. proc[p] \in Command /\ proc[p].pc = "plan"
  BY DEF PlanDirectories, At, ExplogTypeOK
<1>2. r \in Command
  BY <1>1 DEF Command, Steps, Snapshot, ExplogTypeOK
<1>3. proc' = [proc EXCEPT ![p] = r]
  BY <1>1 DEF PlanDirectories, Goto, Command
<1>4. Moves(p, r)
  BY <1>2, <1>3, MovesIs
<1>5. /\ r # None /\ proc[p] # None
      /\ r.config = proc[p].config /\ r.id = proc[p].id
      /\ r.parent = proc[p].parent /\ r.disturbed = proc[p].disturbed
      /\ r.pc = "head"
      /\ r.at = proc[p].at
      /\ r.head = proc[p].head
      /\ r.diff = proc[p].diff
  BY <1>1, <1>2, NoneAssumption DEF Command
<1>. HIDE DEF ExplogInv, r
<1>6. ExplogTypeOK'
  BY <1>4 DEF Moves, PlanDirectories, ExplogTypeOK, files, bounds, ExplogInv
<1>7. Stamped' /\ \A q \in Processes : Owned(q)'
  <2>1. UNCHANGED <<log.lines, clock, dir>>
    BY DEF PlanDirectories, files
  <2>2. \A q \in Processes : In(q, Working)' =>
            /\ In(q, Working) /\ Mine(q)' = Mine(q)
            /\ proc'[q].diff = proc[q].diff
            /\ At(q, "append")' => At(q, "append") /\ proc'[q].at = proc[q].at
    BY <1>1, <1>4, <1>5 DEF Moves, In, At, Mine, Working, Command
  <2>. QED BY <2>1, <2>2, OwnedStays, StampedStays
<1>8. ASSUME NEW q \in Processes PROVE Captured(q)'
  <2>1. Captured(q) /\ Captured(p)
    BY DEF ExplogInv
  <2>2. CASE q = p
    BY <1>1, <1>2, <1>4, <1>5, <2>1, <2>2, NoneAssumption DEF PlanDirectories,
       Moves, Captured, In, At, Running, Working, Command, ExplogTypeOK
  <2>3. CASE q # p
    BY <1>4, <2>1, <2>3 DEF PlanDirectories, Moves, Captured, In, At, Running,
       Working, files
  <2>. QED BY <2>2, <2>3
<1>9. ASSUME NEW q \in Processes PROVE ParentKnown(q)'
  <2>1. UNCHANGED <<log.lines, clock>> /\ ParentKnown(q)
    BY DEF PlanDirectories, files, ExplogInv
  <2>2. In(q, Running)' =>
            /\ In(q, Running) /\ proc'[q].parent = proc[q].parent
            /\ At(q, "append")' = At(q, "append")
            /\ At(q, "append") => proc'[q].at = proc[q].at
    BY <1>1, <1>4, <1>5 DEF Moves, In, At, Running, Command
  <2>. QED BY <2>1, <2>2, ParentKnownStays
<1>10. UNCHANGED <<log, dir, succeeded>> /\ log'.lines = log.lines
  BY DEF PlanDirectories, files
<1>. QED BY <1>6, <1>7, <1>8, <1>9, <1>10, LogFrame DEF ExplogInv

LEMMA GitRevParseInv ==
  ASSUME ExplogInv, NEW p \in Processes, GitRevParse(p)
  PROVE  ExplogInv'
<1>. DEFINE r == [proc[p] EXCEPT !.pc = "add", !.head = head]
<1>. USE DEF ExplogInv
<1>1. proc[p] \in Command /\ proc[p].pc = "head"
  BY DEF GitRevParse, At, ExplogTypeOK
<1>2. r \in Command
  BY <1>1 DEF Command, Steps, Snapshot, ExplogTypeOK
<1>3. proc' = [proc EXCEPT ![p] = r]
  BY <1>1 DEF GitRevParse, Goto, Command
<1>4. Moves(p, r)
  BY <1>2, <1>3, MovesIs
<1>5. /\ r # None /\ proc[p] # None
      /\ r.config = proc[p].config /\ r.id = proc[p].id
      /\ r.parent = proc[p].parent /\ r.disturbed = proc[p].disturbed
      /\ r.pc = "add"
      /\ r.at = proc[p].at
      /\ r.head = head
      /\ r.diff = proc[p].diff
  BY <1>1, <1>2, NoneAssumption DEF Command
<1>. HIDE DEF ExplogInv, r
<1>6. ExplogTypeOK'
  BY <1>4 DEF Moves, GitRevParse, ExplogTypeOK, files, bounds, ExplogInv
<1>7. Stamped' /\ \A q \in Processes : Owned(q)'
  <2>1. UNCHANGED <<log.lines, clock, dir>>
    BY DEF GitRevParse, files
  <2>2. \A q \in Processes : In(q, Working)' =>
            /\ In(q, Working) /\ Mine(q)' = Mine(q)
            /\ proc'[q].diff = proc[q].diff
            /\ At(q, "append")' => At(q, "append") /\ proc'[q].at = proc[q].at
    BY <1>1, <1>4, <1>5 DEF Moves, In, At, Mine, Working, Command
  <2>. QED BY <2>1, <2>2, OwnedStays, StampedStays
<1>8. ASSUME NEW q \in Processes PROVE Captured(q)'
  <2>1. Captured(q) /\ Captured(p)
    BY DEF ExplogInv
  <2>2. CASE q = p
    <3>1. proc[p].id \in Ids /\ head # None /\ head' = head
      BY <1>1, <1>5, <2>1, NoneAssumption DEF GitRevParse, Captured, In,
         Running, ExplogInv, ExplogTypeOK
    <3>. QED
      BY <1>4, <1>5, <2>2, <3>1 DEF Moves, Captured, In, At, Running, Working
  <2>3. CASE q # p
    BY <1>4, <2>1, <2>3 DEF GitRevParse, Moves, Captured, In, At, Running,
       Working, files
  <2>. QED BY <2>2, <2>3
<1>9. ASSUME NEW q \in Processes PROVE ParentKnown(q)'
  <2>1. UNCHANGED <<log.lines, clock>> /\ ParentKnown(q)
    BY DEF GitRevParse, files, ExplogInv
  <2>2. In(q, Running)' =>
            /\ In(q, Running) /\ proc'[q].parent = proc[q].parent
            /\ At(q, "append")' = At(q, "append")
            /\ At(q, "append") => proc'[q].at = proc[q].at
    BY <1>1, <1>4, <1>5 DEF Moves, In, At, Running, Command
  <2>. QED BY <2>1, <2>2, ParentKnownStays
<1>10. UNCHANGED <<log, dir, succeeded>> /\ log'.lines = log.lines
  BY DEF GitRevParse, files
<1>. QED BY <1>6, <1>7, <1>8, <1>9, <1>10, LogFrame DEF ExplogInv

LEMMA GitAddInv ==
  ASSUME ExplogInv, NEW p \in Processes, GitAdd(p)
  PROVE  ExplogInv'
<1>. DEFINE r == [proc[p] EXCEPT !.pc = "diff"]
<1>. USE DEF ExplogInv
<1>1. proc[p] \in Command /\ proc[p].pc = "add"
  BY DEF GitAdd, At, ExplogTypeOK
<1>2. r \in Command
  BY <1>1 DEF Command, Steps, Snapshot, ExplogTypeOK
<1>3. proc' = [proc EXCEPT ![p] = r]
  BY <1>1 DEF GitAdd, Goto, Command
<1>4. Moves(p, r)
  BY <1>2, <1>3, MovesIs
<1>5. /\ r # None /\ proc[p] # None
      /\ r.config = proc[p].config /\ r.id = proc[p].id
      /\ r.parent = proc[p].parent /\ r.disturbed = proc[p].disturbed
      /\ r.pc = "diff"
      /\ r.at = proc[p].at
      /\ r.head = proc[p].head
      /\ r.diff = proc[p].diff
  BY <1>1, <1>2, NoneAssumption DEF Command
<1>. HIDE DEF ExplogInv, r
<1>6. ExplogTypeOK'
  BY <1>4 DEF Moves, GitAdd, ExplogTypeOK, files, bounds, ExplogInv
<1>7. Stamped' /\ \A q \in Processes : Owned(q)'
  <2>1. UNCHANGED <<log.lines, clock, dir>>
    BY DEF GitAdd, files
  <2>2. \A q \in Processes : In(q, Working)' =>
            /\ In(q, Working) /\ Mine(q)' = Mine(q)
            /\ proc'[q].diff = proc[q].diff
            /\ At(q, "append")' => At(q, "append") /\ proc'[q].at = proc[q].at
    BY <1>1, <1>4, <1>5 DEF Moves, In, At, Mine, Working, Command
  <2>. QED BY <2>1, <2>2, OwnedStays, StampedStays
<1>8. ASSUME NEW q \in Processes PROVE Captured(q)'
  <2>1. Captured(q) /\ Captured(p)
    BY DEF ExplogInv
  <2>2. CASE q = p
    BY <1>1, <1>2, <1>4, <1>5, <2>1, <2>2, NoneAssumption DEF GitAdd, Moves,
       Captured, In, At, Running, Working, Command, ExplogTypeOK
  <2>3. CASE q # p
    BY <1>4, <2>1, <2>3 DEF GitAdd, Moves, Captured, In, At, Running, Working,
       files
  <2>. QED BY <2>2, <2>3
<1>9. ASSUME NEW q \in Processes PROVE ParentKnown(q)'
  <2>1. UNCHANGED <<log.lines, clock>> /\ ParentKnown(q)
    BY DEF GitAdd, files, ExplogInv
  <2>2. In(q, Running)' =>
            /\ In(q, Running) /\ proc'[q].parent = proc[q].parent
            /\ At(q, "append")' = At(q, "append")
            /\ At(q, "append") => proc'[q].at = proc[q].at
    BY <1>1, <1>4, <1>5 DEF Moves, In, At, Running, Command
  <2>. QED BY <2>1, <2>2, ParentKnownStays
<1>10. UNCHANGED <<log, dir, succeeded>> /\ log'.lines = log.lines
  BY DEF GitAdd, files
<1>. QED BY <1>6, <1>7, <1>8, <1>9, <1>10, LogFrame DEF ExplogInv

LEMMA GitDiffInv ==
  ASSUME ExplogInv, NEW p \in Processes, GitDiff(p)
  PROVE  ExplogInv'
<1>. DEFINE r == [proc[p] EXCEPT !.pc = "mkdir",
             !.diff = [base |-> head, untracked |-> ~ pending]]
<1>. USE DEF ExplogInv
<1>1. proc[p] \in Command /\ proc[p].pc = "diff"
  BY DEF GitDiff, At, ExplogTypeOK
<1>2. r \in Command
  BY <1>1 DEF Command, Steps, Snapshot, ExplogTypeOK
<1>3. proc' = [proc EXCEPT ![p] = r]
  BY <1>1 DEF GitDiff, Goto, Command
<1>4. Moves(p, r)
  BY <1>2, <1>3, MovesIs
<1>5. /\ r # None /\ proc[p] # None
      /\ r.config = proc[p].config /\ r.id = proc[p].id
      /\ r.parent = proc[p].parent /\ r.disturbed = proc[p].disturbed
      /\ r.pc = "mkdir"
      /\ r.at = proc[p].at
      /\ r.head = proc[p].head
      /\ r.diff = [base |-> head, untracked |-> ~ pending]
  BY <1>1, <1>2, NoneAssumption DEF Command
<1>. HIDE DEF ExplogInv, r
<1>6. ExplogTypeOK'
  BY <1>4 DEF Moves, GitDiff, ExplogTypeOK, files, bounds, ExplogInv
<1>7. Stamped' /\ \A q \in Processes : Owned(q)'
  <2>1. UNCHANGED <<log.lines, clock, dir>>
    BY DEF GitDiff, files
  <2>2. \A q \in Processes : In(q, Working)' =>
            /\ In(q, Working) /\ Mine(q)' = Mine(q)
            /\ proc'[q].diff = proc[q].diff
            /\ At(q, "append")' => At(q, "append") /\ proc'[q].at = proc[q].at
    BY <1>1, <1>4, <1>5 DEF Moves, In, At, Mine, Working, Command
  <2>. QED BY <2>1, <2>2, OwnedStays, StampedStays
<1>8. ASSUME NEW q \in Processes PROVE Captured(q)'
  <2>1. Captured(q) /\ Captured(p)
    BY DEF ExplogInv
  <2>2. CASE q = p
    <3>1. proc[p].id \in Ids /\ proc[p].head # None
      BY <1>1, <1>5, <2>1 DEF Captured, In, Running
    <3>2. proc[p].disturbed \/ (proc[p].head = head /\ pending = FALSE)
      BY <1>1, <1>5, <2>1 DEF Captured, In, At, Running, ExplogInv,
         ExplogTypeOK
    <3>3. r.diff # None
      <4>1. [base |-> head, untracked |-> ~ pending] \in Snapshot
        BY DEF Snapshot, ExplogInv, ExplogTypeOK
      <4>. QED BY <1>5, <4>1, NoneAssumption
    <3>4. r.disturbed \/ r.diff = [base |-> r.head, untracked |-> TRUE]
      BY <1>5, <3>2
    <3>. QED
      BY <1>4, <1>5, <2>2, <3>1, <3>3, <3>4 DEF Moves, Captured, In, At,
         Running, Working
  <2>3. CASE q # p
    BY <1>4, <2>1, <2>3 DEF GitDiff, Moves, Captured, In, At, Running,
       Working, files
  <2>. QED BY <2>2, <2>3
<1>9. ASSUME NEW q \in Processes PROVE ParentKnown(q)'
  <2>1. UNCHANGED <<log.lines, clock>> /\ ParentKnown(q)
    BY DEF GitDiff, files, ExplogInv
  <2>2. In(q, Running)' =>
            /\ In(q, Running) /\ proc'[q].parent = proc[q].parent
            /\ At(q, "append")' = At(q, "append")
            /\ At(q, "append") => proc'[q].at = proc[q].at
    BY <1>1, <1>4, <1>5 DEF Moves, In, At, Running, Command
  <2>. QED BY <2>1, <2>2, ParentKnownStays
<1>10. UNCHANGED <<log, dir, succeeded>> /\ log'.lines = log.lines
  BY DEF GitDiff, files
<1>. QED BY <1>6, <1>7, <1>8, <1>9, <1>10, LogFrame DEF ExplogInv

LEMMA StampInv ==
  ASSUME ExplogInv, NEW p \in Processes, Stamp(p)
  PROVE  ExplogInv'
<1>. DEFINE r == [proc[p] EXCEPT !.pc = "append", !.at = clock]
<1>. USE DEF ExplogInv
<1>1. proc[p] \in Command /\ proc[p].pc = "work"
  BY DEF Stamp, At, ExplogTypeOK
<1>2. r \in Command
  BY <1>1 DEF Command, Steps, Snapshot, ExplogTypeOK
<1>3. proc' = [proc EXCEPT ![p] = r]
  BY <1>1 DEF Stamp, Goto, Command
<1>4. Moves(p, r)
  BY <1>2, <1>3, MovesIs
<1>5. /\ r # None /\ proc[p] # None
      /\ r.config = proc[p].config /\ r.id = proc[p].id
      /\ r.parent = proc[p].parent /\ r.disturbed = proc[p].disturbed
      /\ r.pc = "append"
      /\ r.at = clock
      /\ r.head = proc[p].head
      /\ r.diff = proc[p].diff
  BY <1>1, <1>2, NoneAssumption DEF Command
<1>. HIDE DEF ExplogInv, r
<1>6. ExplogTypeOK'
  BY <1>4 DEF Moves, Stamp, ExplogTypeOK, files, bounds, ExplogInv
<1>7. (\A q \in Processes : Owned(q))'
  <2>1. UNCHANGED <<log.lines, dir>>
    BY DEF Stamp, files
  <2>2. \A q \in Processes :
            /\ In(q, Working)' => In(q, Working)
            /\ In(q, Working)' => Mine(q)' = Mine(q)
            /\ In(q, Working)' => proc'[q].diff = proc[q].diff
            /\ q # p => (At(q, "append")' => At(q, "append"))
    BY <1>1, <1>4, <1>5 DEF Moves, In, At, Mine, Working
  <2>3. dir[Mine(p)].level = Complete /\ r.at # None
    BY <1>5, NoneAssumption DEF Stamp, ExplogInv, ExplogTypeOK
  <2>4. ASSUME NEW q \in Processes PROVE Owned(q)'
    <3>1. Owned(q) BY DEF ExplogInv
    <3>2. In(q, Working)' =>
             /\ dir'[Mine(q)'].level >= 1
             /\ dir'[Mine(q)'].level >= 2 => dir'[Mine(q)'].diff = proc'[q].diff
      BY <2>1, <2>2, <3>1 DEF Owned
    <3>3. In(q, Working)' =>
             \A q2 \in Processes :
               In(q2, Working)' /\ Mine(q2)' = Mine(q)' => q2 = q
      BY <2>2, <3>1 DEF Owned
    <3>4. In(q, Working)' =>
             \A i \in Records(log.lines)' : log'.lines[i].data_dir # Mine(q)'
      BY <2>1, <2>2, <3>1 DEF Owned, Records
    <3>5. At(q, "append")' =>
             dir'[Mine(q)'].level = Complete /\ proc'[q].at # None
      <4>1. CASE q = p
        <5>1. Mine(p)' = Mine(p)
          BY <1>4, <1>5 DEF Moves, Mine
        <5>. QED BY <1>4, <2>1, <2>3, <4>1, <5>1 DEF Moves
      <4>2. CASE q # p
        <5>1. Mine(q)' = Mine(q) /\ proc'[q].at = proc[q].at
          BY <1>4, <4>2 DEF Moves, Mine
        <5>. QED BY <2>1, <2>2, <3>1, <4>2, <5>1 DEF Owned
      <4>. QED BY <4>1, <4>2
    <3>. QED BY <3>2, <3>3, <3>4, <3>5 DEF Owned
  <2>. QED BY <2>4
<1>8. ASSUME NEW q \in Processes PROVE Captured(q)'
  <2>1. Captured(q) /\ Captured(p)
    BY DEF ExplogInv
  <2>2. CASE q = p
    BY <1>1, <1>2, <1>4, <1>5, <2>1, <2>2, NoneAssumption DEF Stamp, Moves,
       Captured, In, At, Running, Working, Command, ExplogTypeOK
  <2>3. CASE q # p
    BY <1>4, <2>1, <2>3 DEF Stamp, Moves, Captured, In, At, Running, Working,
       files
  <2>. QED BY <2>2, <2>3
<1>9. ASSUME NEW q \in Processes PROVE ParentKnown(q)'
  <2>1. UNCHANGED <<log.lines, clock>> /\ ParentKnown(q)
    BY DEF Stamp, files, ExplogInv
  <2>2. CASE q = p
    BY <1>1, <1>4, <1>5, <2>1, <2>2 DEF Moves, ParentKnown, Listed, Broken,
       In, At, Running
  <2>3. CASE q # p
    <3>1. proc'[q] = proc[q] BY <1>4, <2>3 DEF Moves
    <3>. QED BY <2>1, <3>1, ParentKnownStays DEF In, At
  <2>. QED BY <2>2, <2>3
<1>10. Stamped'
  <2>1. clock' = clock /\ log' = log /\ clock \in Int /\ r.at = clock
    BY <1>5 DEF Stamp, files, ExplogInv, ExplogTypeOK
  <2>. QED BY <1>4, <1>5, <2>1 DEF Moves, At, Stamped, Records, ExplogInv
<1>11. UNCHANGED <<log, dir, succeeded>> /\ log'.lines = log.lines
  BY DEF Stamp, files
<1>. QED BY <1>6, <1>7, <1>8, <1>9, <1>10, <1>11, LogFrame DEF ExplogInv

(* Disturb, and possibly the end of p.                                     *)
Disturbs(p) ==
  /\ proc' \in [Processes -> Command \union {None}]
  /\ proc'[p] = None
  /\ \A q \in Processes : q # p => proc'[q] = Disturb(proc)[q]

LEMMA DisturbedProcess ==
  ASSUME ExplogInv, NEW q \in Processes,
         proc'[q] = Disturb(proc)[q] \/ proc'[q] = None
  PROVE  /\ In(q, Working)' =>
              /\ In(q, Working) /\ Mine(q)' = Mine(q)
              /\ proc'[q].diff = proc[q].diff
              /\ At(q, "append")' => At(q, "append") /\ proc'[q].at = proc[q].at
         /\ In(q, Running)' =>
              /\ In(q, Running) /\ proc'[q].parent = proc[q].parent
              /\ At(q, "append")' = At(q, "append")
              /\ At(q, "append") => proc'[q].at = proc[q].at
         /\ Captured(q)'
<1>1. proc \in [Processes -> Command \union {None}] /\ Captured(q)
  BY DEF ExplogInv, ExplogTypeOK
<1>. DEFINE d == Disturb(proc)[q]
<1>2. /\ proc[q] = None => d = None
      /\ proc[q] # None =>
           /\ d # None
           /\ d.pc = proc[q].pc
           /\ d.config = proc[q].config
           /\ d.id = proc[q].id
           /\ d.parent = proc[q].parent
           /\ d.at = proc[q].at
           /\ d.head = proc[q].head
           /\ d.diff = proc[q].diff
           /\ proc[q].disturbed => d.disturbed
           /\ proc[q].pc \in {"add", "diff"} => d.disturbed
  BY <1>1, DisturbIs
<1>3. proc'[q] = d \/ proc'[q] = None
  OBVIOUS
<1>. HIDE DEF d
<1>4. Captured(q)'
  <2>1. CASE proc'[q] = None
    BY <2>1 DEF Captured, In, At
  <2>2. CASE proc'[q] # None
    BY <1>1, <1>2, <1>3, <2>2 DEF Captured, In, At, Running, Working
  <2>. QED BY <2>1, <2>2
<1>. QED BY <1>2, <1>3, <1>4 DEF In, At, Mine, Working, Running

LEMMA DisturbedInv ==
  ASSUME ExplogInv, proc' = Disturb(proc), UNCHANGED <<log, dir, clock, succeeded>>,
         head' \in Nat, pending' \in BOOLEAN
  PROVE  ExplogInv'
<1>1. ExplogTypeOK'
  BY DisturbIs DEF ExplogInv, ExplogTypeOK
<1>2. UNCHANGED <<log.lines, log.open>>
  OBVIOUS
<1>3. Stamped' /\ \A q \in Processes : Owned(q)'
  BY <1>2, DisturbedProcess, OwnedStays, StampedStays
<1>4. \A q \in Processes : Captured(q)'
  BY DisturbedProcess
<1>5. ASSUME NEW q \in Processes PROVE ParentKnown(q)'
  BY <1>2, DisturbedProcess, ParentKnownStays DEF ExplogInv
<1>. QED BY <1>1, <1>2, <1>3, <1>4, <1>5, LogFrame DEF ExplogInv

LEMMA UserInv ==
  ASSUME ExplogInv, User
  PROVE  ExplogInv'
<1>1. CASE Commit
  BY <1>1, DisturbedInv DEF Commit, files, ExplogInv, ExplogTypeOK
<1>2. CASE NewFile
  BY <1>2, DisturbedInv DEF NewFile, files, ExplogInv, ExplogTypeOK
<1>3. CASE Tick
  <2>1. UNCHANGED <<proc, log, dir, head, pending, succeeded>>
        /\ clock' \in 0..MaxClock /\ clock' >= clock
    BY <1>3, ExplogAssumption DEF Tick, files, ExplogInv, ExplogTypeOK
  <2>2. ExplogTypeOK'
    BY <2>1 DEF ExplogInv, ExplogTypeOK
  <2>3. \A q \in Processes : Owned(q)' /\ Captured(q)'
    BY <2>1 DEF ExplogInv, Owned, Captured, In, At, Mine, Records
  <2>4. ASSUME NEW q \in Processes PROVE ParentKnown(q)'
    <3>1. \A j \in 1..Len(log.lines) : log.lines[j] # BAD =>
            log.lines[j].timestamp \in Int
      BY DEF ExplogInv, ExplogTypeOK, Node
    <3>2. clock \in Int /\ clock' \in Int
      BY <2>1 DEF ExplogInv, ExplogTypeOK
    <3>3. Broken \/ \A j \in 1..Len(log.lines) : log.lines[j] # BAD
      BY DEF Broken, ExplogInv, ExplogTypeOK
    <3>4. (Listed(Len(log.lines), proc[q].parent, clock) =>
            Listed(Len(log.lines), proc[q].parent, clock')) \/ Broken
      BY <2>1, <3>1, <3>2, <3>3 DEF Listed
    <3>5. ParentKnown(q)
      BY DEF ExplogInv
    <3>. QED BY <2>1, <3>4, <3>5 DEF ParentKnown, Listed, Broken, In, At
  <2>5. Stamped'
    <3>1. \A i \in Records(log.lines) : log.lines[i].timestamp \in Int
      BY DEF ExplogInv, ExplogTypeOK, Records, Node
    <3>2. \A q \in Processes : At(q, "append") => proc[q].at \in Int
      BY DEF ExplogInv, ExplogTypeOK, Owned, At, Command
    <3>3. clock \in Int /\ clock' \in Int
      BY <2>1 DEF ExplogInv, ExplogTypeOK
    <3>. QED BY <2>1, <3>1, <3>2, <3>3 DEF ExplogInv, Stamped, Records, At
  <2>. QED BY <2>1, <2>2, <2>3, <2>4, <2>5, LogFrame DEF ExplogInv
<1>4. CASE \E c \in Configs : FillConfig(c)
  <2>1. UNCHANGED <<proc, log, dir, head, pending, clock, succeeded>>
    BY <1>4 DEF FillConfig
  <2>2. ExplogTypeOK'
    BY <2>1 DEF ExplogInv, ExplogTypeOK
  <2>3. Stamped' /\ \A q \in Processes : Owned(q)' /\ Captured(q)' /\ ParentKnown(q)'
    BY <2>1 DEF ExplogInv, Stamped, Owned, Captured, ParentKnown, Listed,
       Broken, In, At, Mine, Records
  <2>. QED BY <2>1, <2>2, <2>3, LogFrame DEF ExplogInv
<1>. QED BY <1>1, <1>2, <1>3, <1>4 DEF User

LEMMA PreflightInv ==
  ASSUME ExplogInv, NEW p \in Processes, Preflight(p)
  PROVE  ExplogInv'
<1>1. PICK c \in Configs, i \in CustomIds \union {generate_id},
           parent \in Ids \union {None} :
        /\ validate_log_state(log.lines, i, parent)
        /\ Begin(p, c, "plan", i, parent)
  BY DEF Preflight
<1>. DEFINE r == [pc |-> "plan", config |-> c, id |-> i, parent |-> parent,
                  at |-> None, head |-> None, diff |-> None, disturbed |-> FALSE]
<1>2. i \in Ids
  BY <1>1, IdInIds DEF ExplogInv, Ids
<1>3. r \in Command /\ r.pc = "plan" /\ r # None /\ r.id = i
      /\ ~ r.disturbed /\ r.parent = parent
  <2>1. r \in Command
    BY <1>2 DEF Command, Steps
  <2>. QED BY <2>1, NoneAssumption
<1>4. proc' = [proc EXCEPT ![p] = r]
  BY <1>1 DEF Begin
<1>. HIDE DEF r
<1>5. Moves(p, r) /\ UNCHANGED <<log, dir, head, pending, clock, succeeded>>
  BY <1>3, <1>4, MovesIs DEF ExplogInv, Preflight, files
<1>6. ~ In(p, Working)' /\ ~ At(p, "append")' /\ In(p, {"plan"})'
  BY <1>3, <1>5 DEF Moves, In, At, Working
<1>7. ExplogTypeOK'
  BY <1>5 DEF Moves, ExplogTypeOK, ExplogInv
<1>8. Stamped' /\ \A q \in Processes : Owned(q)'
  <2>1. \A q \in Processes : In(q, Working)' =>
            /\ In(q, Working) /\ Mine(q)' = Mine(q)
            /\ proc'[q].diff = proc[q].diff
            /\ At(q, "append")' => At(q, "append") /\ proc'[q].at = proc[q].at
    BY <1>5, <1>6 DEF Moves, In, At, Mine
  <2>. QED BY <1>5, <2>1, OwnedStays, StampedStays
<1>9. ASSUME NEW q \in Processes PROVE Captured(q)'
  <2>1. CASE q = p
    <3>1. proc[p] = None
      BY <1>1 DEF Begin
    <3>2. Captured(p)
      BY DEF ExplogInv
    <3>. QED BY <1>2, <1>3, <1>5, <2>1 DEF Moves, Captured, In, At, Working,
       Running
  <2>2. CASE q # p
    BY <1>5, <2>2, CapturedStays DEF Moves, ExplogInv
  <2>. QED BY <2>1, <2>2
<1>10. ASSUME NEW q \in Processes PROVE ParentKnown(q)'
  <2>1. CASE q = p
    <3>1. CASE Broken
      BY <1>5, <3>1 DEF ParentKnown, Broken
    <3>2. CASE ~ Broken /\ parent # None
      <4>1. PICK j \in Records(log.lines) : log.lines[j].id = parent
        BY <1>1, <3>2 DEF validate_log_state, LoggedIds
      <4>2. log.lines[j].timestamp <= clock
        BY <4>1 DEF Stamped, ExplogInv, Records
      <4>3. j \in 1..Len(log.lines)
        BY <4>1 DEF Records, ExplogInv, ExplogTypeOK
      <4>4. Listed(Len(log.lines), parent, clock)
        BY <4>1, <4>2, <4>3 DEF Listed
      <4>. QED BY <1>3, <1>5, <1>6, <2>1, <4>4 DEF Moves, ParentKnown, Listed
    <3>3. CASE parent = None
      BY <1>3, <1>5, <2>1, <3>3 DEF Moves, ParentKnown
    <3>. QED BY <3>1, <3>2, <3>3
  <2>2. CASE q # p
    BY <1>5, <2>2, ParentKnownStays DEF Moves, In, At, ExplogInv
  <2>. QED BY <2>1, <2>2
<1>11. log'.lines = log.lines /\ log'.open = log.open
  BY <1>5
<1>. QED BY <1>5, <1>7, <1>8, <1>9, <1>10, <1>11, LogFrame DEF ExplogInv

(* A step of p within "work" on its own directory d, which no other        *)
(* process and no record has: d gets the value v.                          *)
LEMMA OwnDirectoryInv ==
  ASSUME ExplogInv, NEW p \in Processes, In(p, Working)', proc'[p].pc = "work",
         NEW d \in Dirs, d = Mine(p)',
         NEW v \in [level : 1..Complete, diff : Snapshot \union {None}],
         v.level >= 2 => v.diff = proc'[p].diff,
         v.diff # None => v.level >= 2,
         dir' = [dir EXCEPT ![d] = v],
         UNCHANGED <<log, clock, succeeded>>,
         \A i \in Records(log.lines) : log.lines[i].data_dir # d,
         \A q \in Processes : q # p /\ In(q, Working) => Mine(q) # d,
         \A q \in Processes : q # p /\ In(q, Working)' =>
            /\ In(q, Working) /\ Mine(q)' = Mine(q)
            /\ proc'[q].diff = proc[q].diff
            /\ At(q, "append")' => At(q, "append") /\ proc'[q].at = proc[q].at
  PROVE  /\ \A q \in Processes : Owned(q)'
         /\ (/\ Stamped /\ ParentsLogged /\ LogInv /\ RecordBacked
             /\ OneRecordPerDirectory /\ SuccessRecorded)'
<1>1. \A q \in Processes : At(q, "append")' => In(q, Working)' /\ q # p
  BY DEF At, In, Working
<1>2. dir'[d] = v /\ \A e \in Dirs : e # d => dir'[e] = dir[e]
  BY DEF ExplogInv, ExplogTypeOK
<1>3. \A q \in Processes : In(q, Working)' => Mine(q)' \in Dirs
  <2>1. ASSUME NEW q \in Processes, q # p, In(q, Working)' PROVE Mine(q)' \in Dirs
    <3>1. In(q, Working) /\ Mine(q)' = Mine(q) BY <2>1
    <3>2. proc[q].id \in Ids /\ proc[q].config \in Configs
      BY <3>1 DEF ExplogInv, Captured, In, Working, Running, ExplogTypeOK,
         Command
    <3>. QED BY <3>1, <3>2 DEF Mine, Dirs
  <2>. QED BY <2>1
<1>4. ASSUME NEW q \in Processes PROVE Owned(q)'
  <2>1. Owned(q) BY DEF ExplogInv
  <2>2. CASE q = p
    <3>1. ASSUME NEW q2 \in Processes, In(q2, Working)', Mine(q2)' = d
          PROVE  q2 = p
      BY <3>1
    <3>2. \A i \in Records(log.lines)' : log'.lines[i].data_dir # d
      BY DEF Records
    <3>. QED BY <1>1, <1>2, <2>2, <3>1, <3>2 DEF Owned
  <2>3. CASE q # p
    <3>1. In(q, Working)' =>
             /\ dir'[Mine(q)'].level >= 1
             /\ dir'[Mine(q)'].level >= 2 => dir'[Mine(q)'].diff = proc'[q].diff
      BY <1>2, <1>3, <2>1, <2>3 DEF Owned
    <3>2. In(q, Working)' =>
             \A q2 \in Processes :
               In(q2, Working)' /\ Mine(q2)' = Mine(q)' => q2 = q
      BY <2>1, <2>3 DEF Owned
    <3>3. In(q, Working)' =>
             \A i \in Records(log.lines)' : log'.lines[i].data_dir # Mine(q)'
      BY <2>1, <2>3 DEF Owned, Records
    <3>4. At(q, "append")' =>
             dir'[Mine(q)'].level = Complete /\ proc'[q].at # None
      BY <1>1, <1>2, <1>3, <2>1, <2>3 DEF Owned
    <3>. QED BY <3>1, <3>2, <3>3, <3>4 DEF Owned
  <2>. QED BY <2>2, <2>3
<1>5. Stamped'
  <2>1. \A q \in Processes : At(q, "append")' =>
           At(q, "append") /\ proc'[q].at = proc[q].at
    BY <1>1
  <2>. QED BY <2>1 DEF ExplogInv, Stamped, Records
<1>6. (ParentsLogged /\ OneRecordPerDirectory /\ SuccessRecorded)'
  BY DEF ExplogInv, ParentsLogged, OneRecordPerDirectory, SuccessRecorded,
     Broken, Listed, Records, Short
<1>7. RecordBacked'
  <2>1. \A i \in Records(log.lines) : log.lines[i].data_dir \in Dirs
    BY DEF ExplogInv, ExplogTypeOK, Records, Node
  <2>. QED BY <1>2, <2>1 DEF ExplogInv, RecordBacked, Records
<1>8. LogInv'
  <2>1. v.diff # None => v.level >= 2 OBVIOUS
  <2>. QED BY <1>2, <2>1 DEF ExplogInv, LogInv
<1>. QED BY <1>4, <1>5, <1>6, <1>7, <1>8

LEMMA CreateDirectoriesInv ==
  ASSUME ExplogInv, NEW p \in Processes, CreateDirectories(p)
  PROVE  ExplogInv'
<1>. DEFINE r == [proc[p] EXCEPT !.pc = "work"]
            d == Mine(p)
            v == [dir[d] EXCEPT !.level = 1]
<1>1. proc[p] \in Command /\ proc[p].pc = "mkdir" /\ proc[p] # None
  BY DEF CreateDirectories, At, ExplogInv, ExplogTypeOK
<1>2. r \in Command
  BY <1>1 DEF Command, Steps
<1>3. /\ r # None /\ r.pc = "work"
      /\ r.config = proc[p].config /\ r.id = proc[p].id
      /\ r.parent = proc[p].parent /\ r.disturbed = proc[p].disturbed
      /\ r.head = proc[p].head /\ r.diff = proc[p].diff
  BY <1>1, <1>2, NoneAssumption DEF Command
<1>4. proc' = [proc EXCEPT ![p] = r]
  BY DEF CreateDirectories, Goto
<1>. HIDE DEF r
<1>5. Moves(p, r)
  BY <1>2, <1>4, MovesIs DEF ExplogInv
<1>6. Captured(p) /\ d \in Dirs
  BY <1>1 DEF ExplogInv, Captured, In, Running, Dirs, Mine, Command
<1>7. Complete \in Nat /\ Complete >= 2
  BY ExplogAssumption DEF Complete
<1>8. dir[d] \in [level : 0..Complete, diff : Snapshot \union {None}]
      /\ dir[d].level = 0 /\ dir[d].diff = None
  BY <1>6 DEF ExplogInv, ExplogTypeOK, LogInv, CreateDirectories
<1>9. /\ v \in [level : 1..Complete, diff : Snapshot \union {None}]
      /\ v.level = 1 /\ v.diff = None /\ dir' = [dir EXCEPT ![d] = v]
  <2>1. v = [level |-> 1, diff |-> None]
    BY <1>8
  <2>2. dir' = [dir EXCEPT ![d] = v]
    BY <1>6 DEF CreateDirectories, ExplogInv, ExplogTypeOK
  <2>. QED BY <1>7, <2>1, <2>2
<1>10. Mine(p)' = d
  BY <1>3, <1>5 DEF Moves, Mine
<1>. HIDE DEF d, v
<1>11. /\ \A q \in Processes : Owned(q)'
       /\ (/\ Stamped /\ ParentsLogged /\ LogInv /\ RecordBacked
           /\ OneRecordPerDirectory /\ SuccessRecorded)'
  <2>1. In(p, Working)' /\ proc'[p].pc = "work"
    BY <1>3, <1>5 DEF Moves, In, Working
  <2>2. UNCHANGED <<log, clock, succeeded>>
    BY DEF CreateDirectories
  <2>3. \A i \in Records(log.lines) : log.lines[i].data_dir # d
    <3>1. RecordBacked BY DEF ExplogInv
    <3>2. dir[d].level # Complete BY <1>7, <1>8
    <3>. QED BY <3>1, <3>2 DEF RecordBacked
  <2>4. ASSUME NEW q \in Processes, In(q, Working) PROVE Mine(q) # d
    BY <1>8, <2>4 DEF ExplogInv, Owned
  <2>5. \A q \in Processes : q # p /\ In(q, Working)' =>
            /\ In(q, Working) /\ Mine(q)' = Mine(q)
            /\ proc'[q].diff = proc[q].diff
            /\ At(q, "append")' => At(q, "append") /\ proc'[q].at = proc[q].at
    BY <1>5 DEF Moves, In, At, Mine
  <2>6. (v.level >= 2 => v.diff = proc'[p].diff) /\ (v.diff # None => v.level >= 2)
    BY <1>9
  <2>. QED
    BY <1>6, <1>9, <1>10, <2>1, <2>2, <2>3, <2>4, <2>5, <2>6, OwnDirectoryInv
<1>12. ExplogTypeOK'
  <2>1. dir' \in [Dirs -> [level : 0..Complete, diff : Snapshot \union {None}]]
    BY <1>6, <1>7, <1>9 DEF ExplogInv, ExplogTypeOK
  <2>. QED BY <1>5, <2>1 DEF CreateDirectories, Moves, ExplogInv, ExplogTypeOK
<1>13. ASSUME NEW q \in Processes PROVE Captured(q)' /\ ParentKnown(q)'
  <2>1. UNCHANGED <<log.lines, clock, head, pending>> /\ Captured(q) /\ ParentKnown(q)
    BY DEF CreateDirectories, ExplogInv
  <2>2. CASE q = p
    <3>1. Captured(q)'
      BY <1>1, <1>3, <1>5, <1>6, <2>2 DEF Moves, Captured, In, At, Running,
         Working
    <3>2. ParentKnown(q)'
      BY <1>1, <1>3, <1>5, <2>1, <2>2, ParentKnownStays DEF Moves, In, At,
         Running
    <3>. QED BY <3>1, <3>2
  <2>3. CASE q # p
    BY <1>5, <2>1, <2>3, CapturedStays, ParentKnownStays DEF Moves, In, At
  <2>. QED BY <2>2, <2>3
<1>. QED BY <1>11, <1>12, <1>13 DEF ExplogInv

(* Writing git.diff, and running a script.                                 *)
LEMMA WorkInv ==
  ASSUME ExplogInv, NEW p \in Processes, WriteDiff(p) \/ RunScript(p)
  PROVE  ExplogInv'
<1>. DEFINE d == Mine(p)
<1>1. In(p, Working) /\ proc[p].pc = "work" /\ proc' = Disturb(proc)
  BY DEF WriteDiff, RunScript, At, In, Working
<1>2. Owned(p) /\ Captured(p) /\ proc[p] \in Command
  BY <1>1 DEF ExplogInv, ExplogTypeOK, In
<1>3. d \in Dirs
  BY <1>1, <1>2 DEF Captured, In, Running, Working, Dirs, Mine, Command
<1>4. Complete \in Nat /\ Complete >= 2
  BY ExplogAssumption DEF Complete
<1>5. dir[d] \in [level : 0..Complete, diff : Snapshot \union {None}]
  BY <1>3 DEF ExplogInv, ExplogTypeOK
<1>6. PICK v \in [level : 1..Complete, diff : Snapshot \union {None}] :
        /\ v.level >= 2 /\ v.diff = proc[p].diff
        /\ dir' = [dir EXCEPT ![d] = v]
  <2>1. CASE WriteDiff(p)
    <3>. DEFINE v == [level |-> 2, diff |-> proc[p].diff]
    <3>1. v \in [level : 1..Complete, diff : Snapshot \union {None}]
      BY <1>2, <1>4 DEF Command
    <3>2. v.level >= 2 /\ v.diff = proc[p].diff
      OBVIOUS
    <3>3. dir' = [dir EXCEPT ![d] = v]
      BY <2>1 DEF WriteDiff
    <3>. HIDE DEF v, d
    <3>. QED BY <3>1, <3>2, <3>3
  <2>2. CASE RunScript(p)
    <3>. DEFINE v == [dir[d] EXCEPT !.level = @ + 1]
    <3>1. dir[d].level \in 2..(Complete - 1) /\ dir[d].diff = proc[p].diff
      BY <1>1, <1>2, <1>4, <1>5, <2>2 DEF RunScript, Owned
    <3>2. v = [level |-> dir[d].level + 1, diff |-> proc[p].diff]
      BY <1>5, <3>1
    <3>3. v \in [level : 1..Complete, diff : Snapshot \union {None}]
          /\ v.level >= 2 /\ v.diff = proc[p].diff
      BY <1>2, <1>4, <3>1, <3>2 DEF Command
    <3>4. dir' = [dir EXCEPT ![d] = v]
      BY <1>3, <2>2 DEF RunScript, ExplogInv, ExplogTypeOK
    <3>. QED BY <3>3, <3>4
  <2>. QED BY <2>1, <2>2
<1>7. UNCHANGED <<log, head, clock, succeeded>> /\ pending' \in BOOLEAN
      /\ log'.lines = log.lines
  BY DEF WriteDiff, RunScript
<1>8. \A q \in Processes :
        /\ In(q, Working)' =>
              /\ In(q, Working) /\ Mine(q)' = Mine(q)
              /\ proc'[q].diff = proc[q].diff
              /\ At(q, "append")' => At(q, "append") /\ proc'[q].at = proc[q].at
        /\ In(q, Running)' =>
              /\ In(q, Running) /\ proc'[q].parent = proc[q].parent
              /\ At(q, "append")' = At(q, "append")
              /\ At(q, "append") => proc'[q].at = proc[q].at
        /\ Captured(q)'
  BY <1>1, DisturbedProcess
<1>9. /\ proc' \in [Processes -> Command \union {None}]
      /\ In(p, Working)' /\ proc'[p].pc = "work" /\ Mine(p)' = d
      /\ proc'[p].diff = proc[p].diff
  BY <1>1, DisturbIs DEF ExplogInv, ExplogTypeOK, In, Mine
<1>. HIDE DEF d
<1>10. /\ \A q \in Processes : Owned(q)'
       /\ (/\ Stamped /\ ParentsLogged /\ LogInv /\ RecordBacked
           /\ OneRecordPerDirectory /\ SuccessRecorded)'
  <2>1. \A i \in Records(log.lines) : log.lines[i].data_dir # d
    BY <1>1, <1>2 DEF Owned, d
  <2>2. \A q \in Processes : q # p /\ In(q, Working) => Mine(q) # d
    BY <1>1, <1>2 DEF Owned, d
  <2>3. v.level >= 2 /\ v.diff = proc'[p].diff
    BY <1>6, <1>9
  <2>4. \A q \in Processes : q # p /\ In(q, Working)' =>
            /\ In(q, Working) /\ Mine(q)' = Mine(q)
            /\ proc'[q].diff = proc[q].diff
            /\ At(q, "append")' => At(q, "append") /\ proc'[q].at = proc[q].at
    BY <1>8
  <2>5. dir' = [dir EXCEPT ![d] = v]
    BY <1>6
  <2>. QED
    BY <1>3, <1>7, <1>9, <2>1, <2>2, <2>3, <2>4, <2>5, OwnDirectoryInv
<1>11. ExplogTypeOK'
  <2>1. dir' \in [Dirs -> [level : 0..Complete, diff : Snapshot \union {None}]]
    BY <1>3, <1>4, <1>6 DEF ExplogInv, ExplogTypeOK
  <2>. QED BY <1>7, <1>9, <2>1 DEF ExplogInv, ExplogTypeOK
<1>12. ASSUME NEW q \in Processes PROVE ParentKnown(q)'
  BY <1>7, <1>8, ParentKnownStays DEF ExplogInv
<1>. QED BY <1>8, <1>10, <1>11, <1>12 DEF ExplogInv

(* What a write leaves: a new last line, or the broken line it was written *)
(* to the end of.                                                          *)
LEMMA WriteLineIs ==
  ASSUME ExplogInv, NEW r \in Node \union {BAD}, NEW open \in BOOLEAN,
         log' = WriteLine(log, r, open)
  PROVE  /\ log' \in [exists : BOOLEAN, lines : Seq(Node \union {BAD}),
                      open : BOOLEAN]
         /\ log'.exists /\ log'.open = open
         /\ \A i \in DOMAIN log.lines : i \in DOMAIN log'.lines
         /\ \/ /\ ~ log.open
               /\ Len(log'.lines) = Len(log.lines) + 1
               /\ \A i \in DOMAIN log.lines : log'.lines[i] = log.lines[i]
               /\ log'.lines[Len(log.lines) + 1] = r
            \/ /\ log.open
               /\ Len(log'.lines) = Len(log.lines)
               /\ \A i \in DOMAIN log.lines :
                    i # Len(log.lines) => log'.lines[i] = log.lines[i]
               /\ Len(log.lines) \in DOMAIN log.lines
               /\ log'.lines[Len(log.lines)] = BAD
<1>. DEFINE l == log.lines
            m == IF log.open THEN [l EXCEPT ![Len(l)] = BAD] ELSE Append(l, r)
<1>1. l \in Seq(Node \union {BAD}) /\ Len(l) \in Nat /\ DOMAIN l = 1..Len(l)
  BY DEF ExplogInv, ExplogTypeOK
<1>2. log' = [exists |-> TRUE, open |-> open, lines |-> m]
  BY DEF WriteLine
<1>3. CASE ~ log.open
  <2>1. m = Append(l, r)
    BY <1>3
  <2>2. m \in Seq(Node \union {BAD}) /\ Len(m) = Len(l) + 1
        /\ m[Len(l) + 1] = r /\ \A i \in 1..Len(l) : m[i] = l[i]
    BY <1>1, <2>1
  <2>3. DOMAIN m = 1..(Len(l) + 1)
    BY <2>2
  <2>. HIDE DEF l, m
  <2>. QED BY <1>1, <1>2, <1>3, <2>2, <2>3 DEF l
<1>4. CASE log.open
  <2>1. m = [l EXCEPT ![Len(l)] = BAD]
    BY <1>4
  <2>2. Len(l) \in 1..Len(l)
    <3>1. l # <<>> BY <1>4 DEF ExplogInv, LogInv
    <3>. QED BY <1>1, <3>1
  <2>3. m \in Seq(Node \union {BAD}) /\ Len(m) = Len(l)
        /\ m[Len(l)] = BAD /\ \A i \in 1..Len(l) : i # Len(l) => m[i] = l[i]
    BY <1>1, <2>1, <2>2, ExceptSeq
  <2>4. DOMAIN m = 1..Len(l)
    BY <2>3
  <2>. HIDE DEF l, m
  <2>. QED BY <1>1, <1>2, <1>4, <2>2, <2>3, <2>4 DEF l
<1>. QED BY <1>3, <1>4 DEF ExplogInv, ExplogTypeOK

LEMMA AppendRecordInv ==
  ASSUME ExplogInv, NEW p \in Processes, AppendRecord(p)
  PROVE  ExplogInv'
<1>. DEFINE n == ExperimentNode(p)
            d == Mine(p)
            l == log.lines
            m == log'.lines
<1>1. /\ proc[p] \in Command /\ At(p, "append") /\ In(p, Working)
      /\ Owned(p) /\ Captured(p) /\ ParentKnown(p) /\ In(p, Running)
  BY DEF AppendRecord, At, In, Running, Working, ExplogInv, ExplogTypeOK
<1>2. /\ n \in Node /\ d \in Dirs /\ n # BAD /\ n.data_dir = d
      /\ n.timestamp = proc[p].at /\ n.parent_id = proc[p].parent
      /\ n.git_commit = proc[p].head /\ n.disturbed = proc[p].disturbed
  <2>1. proc[p].id \in Ids /\ proc[p].head # None /\ proc[p].at # None
    BY <1>1 DEF Captured, Owned, In, Running, Working
  <2>2. d \in Dirs
    BY <1>1, <2>1 DEF Dirs, Mine, Command
  <2>3. n \in Node
    BY <1>1, <2>1, <2>2 DEF ExperimentNode, Node, Command
  <2>. QED BY <2>2, <2>3, NoneAssumption DEF ExperimentNode
<1>3. PICK r \in {n, BAD}, open \in BOOLEAN :
        /\ log' = WriteLine(log, r, open)
        /\ \/ ~ open /\ r = n /\ succeeded' = succeeded \union {n}
           \/ open /\ succeeded' = succeeded
  BY DEF AppendRecord
<1>4. r \in Node \union {BAD}
  BY <1>2
<1>. HIDE DEF n, d
<1>5. /\ log' \in [exists : BOOLEAN, lines : Seq(Node \union {BAD}), open : BOOLEAN]
      /\ log'.exists /\ log'.open = open
      /\ \A i \in DOMAIN l : i \in DOMAIN m
      /\ \/ /\ ~ log.open
            /\ Len(m) = Len(l) + 1
            /\ \A i \in DOMAIN l : m[i] = l[i]
            /\ m[Len(l) + 1] = r
         \/ /\ log.open
            /\ Len(m) = Len(l)
            /\ \A i \in DOMAIN l : i # Len(l) => m[i] = l[i]
            /\ Len(l) \in DOMAIN l
            /\ m[Len(l)] = BAD
  BY <1>3, <1>4, WriteLineIs
<1>6. /\ l \in Seq(Node \union {BAD}) /\ m \in Seq(Node \union {BAD})
      /\ Len(l) \in Nat /\ DOMAIN l = 1..Len(l) /\ DOMAIN m = 1..Len(m)
  BY <1>5 DEF ExplogInv, ExplogTypeOK
<1>7. UNCHANGED <<dir, head, clock>> /\ pending' \in BOOLEAN
      /\ proc' = [Disturb(proc) EXCEPT ![p] = None]
  BY DEF AppendRecord, ExplogInv, ExplogTypeOK
<1>8. /\ proc' \in [Processes -> Command \union {None}] /\ proc'[p] = None
      /\ \A q \in Processes : q # p => proc'[q] = Disturb(proc)[q]
  <2>1. Disturb(proc) \in [Processes -> Command \union {None}]
    BY DisturbIs DEF ExplogInv, ExplogTypeOK
  <2>. QED BY <1>7, <2>1
<1>. HIDE DEF l, m
<1>9. \A q \in Processes :
        /\ In(q, Working)' =>
              /\ In(q, Working) /\ Mine(q)' = Mine(q)
              /\ proc'[q].diff = proc[q].diff
              /\ At(q, "append")' => At(q, "append") /\ proc'[q].at = proc[q].at
        /\ In(q, Running)' =>
              /\ In(q, Running) /\ proc'[q].parent = proc[q].parent
              /\ At(q, "append")' = At(q, "append")
              /\ At(q, "append") => proc'[q].at = proc[q].at
        /\ Captured(q)'
  BY <1>8, DisturbedProcess
<1>10. /\ ~ In(p, Working)' /\ ~ In(p, Running)'
       /\ \A q \in Processes : At(q, "append")' => In(q, Working)'
  BY <1>8 DEF In, At, Working
(* The records of the new log.                                             *)
<1>11. ASSUME NEW i \in Records(m)
       PROVE  \/ i \in Records(l) /\ m[i] = l[i]
              \/ i = Len(l) + 1 /\ m[i] = n /\ r = n /\ ~ log.open
                 /\ \A j \in Records(l) : m[j] = l[j]
  <2>1. i \in 1..Len(m) /\ m[i] # BAD
    BY <1>6 DEF Records
  <2>2. CASE log.open
    <3>1. i \in 1..Len(l) /\ i # Len(l) /\ m[i] = l[i]
      BY <1>5, <1>6, <2>1, <2>2
    <3>. QED BY <1>6, <2>1, <3>1 DEF Records
  <2>3. CASE ~ log.open
    <3>1. /\ \A j \in 1..Len(l) : m[j] = l[j]
          /\ m[Len(l) + 1] = r /\ Len(m) = Len(l) + 1
      BY <1>5, <1>6, <2>3
    <3>2. CASE i = Len(l) + 1
      <4>1. m[i] = n /\ r = n
        BY <2>1, <3>1, <3>2
      <4>. QED BY <1>6, <2>3, <3>1, <3>2, <4>1 DEF Records
    <3>3. CASE i # Len(l) + 1
      <4>1. i \in 1..Len(l)
        BY <1>6, <2>1, <3>1, <3>3
      <4>. QED BY <1>6, <2>1, <3>1, <4>1 DEF Records
    <3>. QED BY <3>2, <3>3
  <2>. QED BY <2>2, <2>3
<1>12. (Broken => Broken') /\ (log.open => Broken')
  BY <1>5, <1>6 DEF Broken, l, m
<1>13. ExplogTypeOK'
  BY <1>5, <1>7, <1>8 DEF ExplogInv, ExplogTypeOK
<1>14. \A q \in Processes : Owned(q)'
  <2>1. ASSUME NEW q \in Processes, In(q, Working)' PROVE Owned(q)'
    <3>1. Owned(q) /\ In(q, Working) /\ Mine(q)' = Mine(q) /\ q # p
      BY <1>9, <1>10, <2>1 DEF ExplogInv
    <3>2. Mine(q) # d
      BY <1>1, <3>1 DEF Owned, d
    <3>3. \A i \in Records(m) : m[i].data_dir # Mine(q)'
      BY <1>2, <1>11, <3>1, <3>2 DEF Owned, l
    <3>4. \A q2 \in Processes : In(q2, Working)' /\ Mine(q2)' = Mine(q)' => q2 = q
      BY <1>9, <3>1 DEF Owned
    <3>5. /\ dir'[Mine(q)'].level >= 1
          /\ dir'[Mine(q)'].level >= 2 => dir'[Mine(q)'].diff = proc'[q].diff
          /\ At(q, "append")' =>
               dir'[Mine(q)'].level = Complete /\ proc'[q].at # None
      BY <1>7, <1>9, <2>1, <3>1 DEF Owned
    <3>. QED BY <3>3, <3>4, <3>5 DEF Owned, Records, m
  <2>. QED BY <1>10, <2>1 DEF Owned
<1>15. ASSUME NEW q \in Processes PROVE ParentKnown(q)'
  <2>1. CASE In(q, Running)' /\ proc'[q].parent # None /\ ~ Broken'
    <3>1. Listed(Len(l), proc[q].parent, IF At(q, "append") THEN proc[q].at ELSE clock)
          /\ ~ log.open
      BY <1>9, <1>12, <2>1 DEF ExplogInv, ParentKnown, l
    <3>2. 1..Len(l) \subseteq 1..Len(m) /\ \A i \in 1..Len(l) : m[i] = l[i]
      BY <1>5, <1>6, <3>1
    <3>3. PICK j \in 1..Len(l) :
            /\ l[j].id = proc[q].parent
            /\ l[j].timestamp <= IF At(q, "append") THEN proc[q].at ELSE clock
      BY <3>1 DEF Listed, l
    <3>4. /\ j \in 1..Len(m) /\ m[j].id = proc'[q].parent
          /\ m[j].timestamp <=
               IF At(q, "append")' THEN proc'[q].at ELSE clock'
      BY <1>7, <1>9, <2>1, <3>2, <3>3
    <3>. QED BY <3>4 DEF ParentKnown, Listed, m
  <2>. QED BY <2>1 DEF ParentKnown
<1>16. Stamped'
  <2>1. proc[p].at <= clock
    BY <1>1 DEF ExplogInv, Stamped
  <2>2. \A i \in Records(m) : m[i].timestamp <= clock
    BY <1>2, <1>11, <2>1 DEF ExplogInv, Stamped, l
  <2>. QED BY <1>7, <1>9, <1>10, <2>2 DEF ExplogInv, Stamped, Records, m
<1>17. ParentsLogged'
  <2>1. CASE ~ Broken'
    <3>1. ~ Broken /\ ~ log.open
      BY <1>12, <2>1
    <3>2. /\ Len(m) = Len(l) + 1 /\ m[Len(l) + 1] = n
          /\ \A i \in 1..Len(l) : m[i] = l[i]
      BY <1>5, <1>6, <2>1, <3>1 DEF Broken, m
    <3>3. ASSUME NEW i \in 1..Len(m), m[i].parent_id # None
          PROVE  \E j \in 1..(i - 1) :
                    m[j].id = m[i].parent_id /\ m[j].timestamp <= m[i].timestamp
      <4>1. CASE i \in 1..Len(l)
        <5>1. Listed(i - 1, l[i].parent_id, l[i].timestamp)
          BY <1>6, <3>1, <3>2, <3>3, <4>1 DEF ExplogInv, ParentsLogged, l
        <5>. QED BY <1>6, <3>2, <4>1, <5>1 DEF Listed, l
      <4>2. CASE i = Len(l) + 1
        <5>1. Listed(Len(l), n.parent_id, n.timestamp)
          BY <1>1, <1>2, <3>1, <3>2, <3>3, <4>2 DEF ParentKnown, l
        <5>. QED BY <1>6, <3>2, <4>2, <5>1 DEF Listed, l
      <4>. QED BY <1>6, <3>2, <4>1, <4>2
    <3>. QED BY <1>6, <3>3 DEF ParentsLogged, Listed, m
  <2>. QED BY <2>1 DEF ParentsLogged
<1>18. RecordBacked'
  <2>1. dir[d].level = Complete
    BY <1>1 DEF Owned, d
  <2>2. dir[d].diff = proc[p].diff
    <3>1. Complete \in Nat /\ Complete >= 2
      BY ExplogAssumption DEF Complete
    <3>. QED BY <1>1, <2>1, <3>1 DEF Owned, d
  <2>3. proc[p].disturbed \/ proc[p].diff = [base |-> proc[p].head, untracked |-> TRUE]
    BY <1>1 DEF Captured, In, Working
  <2>4. \A i \in Records(m) :
          /\ dir[m[i].data_dir].level = Complete
          /\ \/ m[i].disturbed
             \/ dir[m[i].data_dir].diff = [base |-> m[i].git_commit, untracked |-> TRUE]
    BY <1>2, <1>11, <2>1, <2>2, <2>3 DEF ExplogInv, RecordBacked, l
  <2>. QED BY <1>7, <2>4 DEF RecordBacked, m
<1>19. OneRecordPerDirectory'
  <2>1. \A i \in Records(l) : l[i].data_dir # d
    BY <1>1 DEF Owned, d, l
  <2>2. \A i, j \in Records(l) : l[i].data_dir = l[j].data_dir => i = j
    BY DEF ExplogInv, OneRecordPerDirectory, l
  <2>3. \A i, j \in Records(m) : m[i].data_dir = m[j].data_dir => i = j
    BY <1>2, <1>11, <2>1, <2>2
  <2>. QED BY <2>3 DEF OneRecordPerDirectory, m
<1>20. SuccessRecorded'
  <2>1. CASE ~ Short'
    <3>1. ~ Broken' /\ ~ open
      BY <1>5, <2>1 DEF Short, Broken
    <3>2. ~ Broken /\ ~ log.open /\ r = n
      BY <1>3, <1>12, <3>1
    <3>3. succeeded = {l[i] : i \in 1..Len(l)}
      BY <1>6, <3>2 DEF ExplogInv, SuccessRecorded, Short, Broken, l
    <3>4. 1..Len(m) = 1..Len(l) \union {Len(l) + 1}
          /\ m[Len(l) + 1] = n /\ \A i \in 1..Len(l) : m[i] = l[i]
      <4>1. Len(m) = Len(l) + 1
        BY <1>5, <3>2
      <4>2. m[Len(l) + 1] = n /\ \A i \in 1..Len(l) : m[i] = l[i]
        BY <1>5, <1>6, <3>2
      <4>3. 1..Len(m) = 1..Len(l) \union {Len(l) + 1}
        BY <1>6, <4>1
      <4>. QED BY <4>2, <4>3
    <3>5. succeeded' = {m[i] : i \in 1..Len(m)}
      BY <1>3, <3>1, <3>3, <3>4
    <3>. QED BY <1>6, <3>5 DEF SuccessRecorded, m
  <2>. QED BY <2>1 DEF SuccessRecorded
<1>21. LogInv'
  <2>1. Len(m) # 0
    <3>1. CASE log.open BY <1>5, <1>6, <3>1
    <3>2. CASE ~ log.open
      <4>1. Len(m) = Len(l) + 1 BY <1>5, <3>2
      <4>. QED BY <1>6, <4>1
    <3>. QED BY <3>1, <3>2
  <2>. QED BY <1>5, <1>7, <2>1 DEF ExplogInv, LogInv, m
<1>. QED
  BY <1>9, <1>13, <1>14, <1>15, <1>16, <1>17, <1>18, <1>19, <1>20, <1>21 DEF
     ExplogInv

LEMMA InitializeLogInv ==
  ASSUME ExplogInv, NEW p \in Processes, InitializeLog(p)
  PROVE  ExplogInv'
<1>1. CASE Return(p) /\ UNCHANGED <<log, pending>>
  BY <1>1, OutsideInv DEF InitializeLog, Return
<1>2. CASE /\ ~ log.exists /\ log' = [NoLog EXCEPT !.exists = TRUE]
           /\ pending' = TRUE
           /\ proc' = [Disturb(proc) EXCEPT ![p] = None]
  <2>1. /\ log'.exists /\ UNCHANGED <<log.lines, log.open>>
        /\ log' \in [exists : BOOLEAN, lines : Seq(Node \union {BAD}), open : BOOLEAN]
    <3>1. log = [exists |-> FALSE, lines |-> <<>>, open |-> FALSE]
      BY <1>2 DEF ExplogInv, LogInv, NoLog
    <3>2. log' = [exists |-> TRUE, lines |-> <<>>, open |-> FALSE]
      BY <1>2 DEF NoLog
    <3>. QED BY <3>1, <3>2
  <2>2. UNCHANGED <<dir, head, clock, succeeded>> /\ pending' \in BOOLEAN
    BY <1>2 DEF InitializeLog
  <2>3. /\ proc' \in [Processes -> Command \union {None}] /\ proc'[p] = None
        /\ \A q \in Processes : q # p => proc'[q] = Disturb(proc)[q]
    <3>1. Disturb(proc) \in [Processes -> Command \union {None}]
      BY DisturbIs DEF ExplogInv, ExplogTypeOK
    <3>. QED BY <1>2, <3>1
  <2>4. ExplogTypeOK'
    BY <2>1, <2>2, <2>3 DEF ExplogInv, ExplogTypeOK
  <2>5. \A q \in Processes :
          /\ In(q, Working)' =>
                /\ In(q, Working) /\ Mine(q)' = Mine(q)
                /\ proc'[q].diff = proc[q].diff
                /\ At(q, "append")' => At(q, "append") /\ proc'[q].at = proc[q].at
          /\ In(q, Running)' =>
                /\ In(q, Running) /\ proc'[q].parent = proc[q].parent
                /\ At(q, "append")' = At(q, "append")
                /\ At(q, "append") => proc'[q].at = proc[q].at
          /\ Captured(q)'
    BY <2>3, DisturbedProcess
  <2>6. Stamped' /\ \A q \in Processes : Owned(q)'
    BY <2>1, <2>2, <2>5, OwnedStays, StampedStays
  <2>7. \A q \in Processes : ParentKnown(q)'
    BY <2>1, <2>2, <2>5, ParentKnownStays DEF ExplogInv
  <2>. QED BY <2>1, <2>2, <2>4, <2>5, <2>6, <2>7, LogFrame DEF ExplogInv
<1>. QED BY <1>1, <1>2 DEF InitializeLog

------------------------------------------------------------------------------
LEMMA ExplogInit ==
  Init => ExplogInv
<1> SUFFICES ASSUME Init PROVE ExplogInv
  OBVIOUS
<1>1. log = [exists |-> FALSE, lines |-> <<>>, open |-> FALSE] /\ log = NoLog
  BY DEF Init, NoLog
<1>2. \A p \in Processes : proc[p] = None
  BY DEF Init
<1>3. Complete \in Nat
  BY ExplogAssumption DEF Complete
<1>4. ExplogTypeOK
  BY <1>1, <1>3, ExplogAssumption DEF Init, ExplogTypeOK
<1>5. \A p \in Processes : Owned(p) /\ Captured(p) /\ ParentKnown(p)
  BY <1>2 DEF Owned, Captured, ParentKnown, In, At
<1>6. Records(log.lines) = {} /\ DOMAIN log.lines = {}
  BY <1>1 DEF Records
<1>7. Stamped /\ RecordBacked /\ OneRecordPerDirectory
  BY <1>2, <1>6 DEF Stamped, RecordBacked, OneRecordPerDirectory, At
<1>8. ParentsLogged
  BY <1>6 DEF ParentsLogged
<1>9. SuccessRecorded
  BY <1>6 DEF Init, SuccessRecorded
<1>10. LogInv
  BY <1>1 DEF Init, LogInv
<1>. QED BY <1>4, <1>5, <1>7, <1>8, <1>9, <1>10 DEF ExplogInv

LEMMA ExplogNext ==
  ASSUME ExplogInv, [Next]_vars
  PROVE  ExplogInv'
<1>1. ASSUME NEW p \in Processes, RunExperiment(p) PROVE ExplogInv'
  BY <1>1, PreflightInv, PlanDirectoriesInv, GitRevParseInv, GitAddInv,
     GitDiffInv, CreateDirectoriesInv, WorkInv, StampInv, AppendRecordInv DEF
     RunExperiment
<1>2. ASSUME NEW p \in Processes, InitializeEnvironment(p) PROVE ExplogInv'
  BY <1>2, InitConfigInv, InitializeEnvironmentInv, InitializeLogInv DEF
     InitializeEnvironment
<1>3. ASSUME NEW p \in Processes, Fail(p) PROVE ExplogInv'
  BY <1>3, FailInv
<1>4. CASE User
  BY <1>4, UserInv
<1>5. CASE UNCHANGED vars
  BY <1>5 DEF vars, ExplogInv, ExplogTypeOK, Owned, Captured, ParentKnown,
     Stamped, ParentsLogged, LogInv, RecordBacked, OneRecordPerDirectory,
     SuccessRecorded, Broken, Listed, Records, Short, In, At, Mine
<1>. QED BY <1>1, <1>2, <1>3, <1>4, <1>5 DEF Next

(* The inductive invariant holds in every reachable state.                 *)
THEOREM ExplogInvariant == Spec => []ExplogInv
BY ExplogInit, ExplogNext, PTL DEF Spec

(* A record is backed by its directory: every script has run there, and    *)
(* its git.diff is the working tree of the recorded commit.                *)
THEOREM ExplogRecordBacked == Spec => []RecordBacked
<1>1. ExplogInv => RecordBacked BY DEF ExplogInv
<1>. QED BY <1>1, ExplogInvariant, PTL

(* No two records share a directory.                                       *)
THEOREM ExplogOneRecordPerDirectory == Spec => []OneRecordPerDirectory
<1>1. ExplogInv => OneRecordPerDirectory BY DEF ExplogInv
<1>. QED BY <1>1, ExplogInvariant, PTL

(* What a command that succeeded printed is what the log holds.            *)
THEOREM ExplogSuccessRecorded == Spec => []SuccessRecorded
<1>1. ExplogInv => SuccessRecorded BY DEF ExplogInv
<1>. QED BY <1>1, ExplogInvariant, PTL
------------------------------------------------------------------------------
(* The order of list_nodes.  A line's rank is the number of lines that do  *)
(* not come after it; ranks are a permutation of the positions, so that    *)
(* the k-th node of the listing is the line of rank k.                     *)
Before(l, i, j) ==
  \/ l[i].timestamp < l[j].timestamp
  \/ l[i].timestamp = l[j].timestamp /\ i <= j
UpTo(l, i) == {j \in DOMAIN l : Before(l, j, i)}
Rank(l, i) == Cardinality(UpTo(l, i))

LEMMA RankIsPermutation ==
  ASSUME NEW l \in Seq(Node)
  PROVE  /\ \A i \in 1..Len(l) : Rank(l, i) \in 1..Len(l)
         /\ \A i, j \in 1..Len(l) :
              Before(l, j, i) /\ i # j => Rank(l, j) < Rank(l, i)
         /\ \A k \in 1..Len(l) : \E i \in 1..Len(l) : Rank(l, i) = k
         /\ \A i, j \in 1..Len(l) : Rank(l, i) = Rank(l, j) => i = j
<1>. DEFINE n == Len(l)
<1>1. n \in Nat /\ DOMAIN l = 1..n /\ IsFiniteSet(1..n) /\ Cardinality(1..n) = n
  <2>1. n \in Nat /\ DOMAIN l = 1..n
    OBVIOUS
  <2>. HIDE DEF n
  <2>2. IsFiniteSet(1..n) /\ Cardinality(1..n) = IF 1 > n THEN 0 ELSE n - 1 + 1
    BY <2>1, FS_Interval
  <2>. QED BY <2>1, <2>2
<1>2. \A i \in 1..n : l[i].timestamp \in Int
  <2>1. \A i \in 1..n : l[i] \in Node
    OBVIOUS
  <2>. QED BY <2>1, ExplogAssumption DEF Node
<1>. HIDE DEF n
<1>3. ASSUME NEW i \in 1..n
      PROVE  UpTo(l, i) \in SUBSET (1..n) /\ IsFiniteSet(UpTo(l, i))
             /\ Rank(l, i) \in 1..n /\ i \in UpTo(l, i)
  <2>1. UpTo(l, i) \in SUBSET (1..n) /\ i \in UpTo(l, i)
    BY <1>1 DEF UpTo, Before
  <2>2. IsFiniteSet(UpTo(l, i)) /\ Rank(l, i) <= n
    BY <1>1, <2>1, FS_Subset DEF Rank
  <2>3. Rank(l, i) \in Nat /\ Rank(l, i) # 0
    BY <2>1, <2>2, FS_CardinalityType, FS_EmptySet DEF Rank
  <2>. QED BY <1>1, <2>1, <2>2, <2>3
<1>4. ASSUME NEW i \in 1..n, NEW j \in 1..n, Before(l, j, i), i # j
      PROVE  Rank(l, j) < Rank(l, i)
  <2>1. UpTo(l, j) \in SUBSET UpTo(l, i)
    <3> SUFFICES ASSUME NEW k \in 1..n, Before(l, k, j) PROVE Before(l, k, i)
      BY <1>1 DEF UpTo
    <3>. QED BY <1>1, <1>2, <1>4 DEF Before
  <2>2. i \notin UpTo(l, j)
    BY <1>1, <1>2, <1>4 DEF UpTo, Before
  <2>3. Rank(l, j) <= Rank(l, i) /\ Rank(l, j) # Rank(l, i)
    BY <1>3, <2>1, <2>2, FS_Subset DEF Rank
  <2>. QED BY <1>1, <1>3, <2>3
<1>5. ASSUME NEW i \in 1..n, NEW j \in 1..n, Rank(l, i) = Rank(l, j)
      PROVE  i = j
  <2>1. i # j => Before(l, i, j) \/ Before(l, j, i)
    BY <1>1, <1>2 DEF Before
  <2>2. Rank(l, i) \in Int /\ Rank(l, j) \in Int
    BY <1>1, <1>3
  <2>. QED BY <1>4, <1>5, <2>1, <2>2
<1>6. \A k \in 1..n : \E i \in 1..n : Rank(l, i) = k
  <2>. DEFINE f == [i \in 1..n |-> Rank(l, i)]
  <2>1. f \in Injection(1..n, 1..n)
    BY <1>3, <1>5 DEF Injection, IsInjective
  <2>2. f \in Surjection(1..n, 1..n)
    BY <1>1, <2>1, FS_Injection
  <2>. QED BY <2>2 DEF Surjection
<1>. QED BY <1>3, <1>4, <1>5, <1>6 DEF n

LEMMA ListNodesIs ==
  ASSUME NEW l \in Seq(Node)
  PROVE  /\ DOMAIN list_nodes(l) = 1..Len(l)
         /\ \A i \in 1..Len(l) : list_nodes(l)[Rank(l, i)] = l[i]
<1>1. list_nodes(l) =
        [k \in 1..Len(l) |-> l[CHOOSE i \in 1..Len(l) : Rank(l, i) = k]]
  <2>1. DOMAIN l = 1..Len(l)
    OBVIOUS
  <2>2. list_nodes(l) =
          [k \in DOMAIN l |-> l[CHOOSE i \in DOMAIN l : Rank(l, i) = k]]
    BY Zenon DEF list_nodes, Rank, UpTo, Before
  <2>. QED BY <2>1, <2>2
<1>2. ASSUME NEW i \in 1..Len(l) PROVE list_nodes(l)[Rank(l, i)] = l[i]
  <2>. DEFINE c == CHOOSE j \in 1..Len(l) : Rank(l, j) = Rank(l, i)
  <2>1. c \in 1..Len(l) /\ Rank(l, c) = Rank(l, i)
    OBVIOUS
  <2>2. c = i
    BY <2>1, RankIsPermutation
  <2>3. Rank(l, i) \in 1..Len(l)
    BY RankIsPermutation
  <2>4. list_nodes(l)[Rank(l, i)] = l[c]
    BY <1>1, <2>3
  <2>. QED BY <2>2, <2>4
<1>. QED BY <1>1, <1>2

(* "explog list" shows a parent before its children, for any number of     *)
(* records and of equal stamps.                                            *)
THEOREM ExplogParentsListedFirst == Spec => []ParentsListedFirst
<1>1. ASSUME ExplogInv PROVE ParentsListedFirst
  <2> SUFFICES ASSUME read_log(log.lines),
                      NEW k \in DOMAIN list_nodes(log.lines),
                      list_nodes(log.lines)[k].parent_id # None
               PROVE  \E j \in 1..(k - 1) : list_nodes(log.lines)[j].id =
                                           list_nodes(log.lines)[k].parent_id
    BY DEF ParentsListedFirst
  <2>. DEFINE l == log.lines
  <2>1. ~ Broken /\ l \in Seq(Node)
    <3>1. l \in Seq(Node \union {BAD}) /\ \A i \in 1..Len(l) : l[i] # BAD
      BY <1>1 DEF ExplogInv, ExplogTypeOK, read_log, Records
    <3>2. DOMAIN l = 1..Len(l) /\ \A i \in 1..Len(l) : l[i] \in Node
      BY <3>1
    <3>. QED BY <3>1, <3>2, SeqDef DEF Broken
  <2>2. k \in 1..Len(l)
    BY <2>1, ListNodesIs
  <2>3. PICK i \in 1..Len(l) : Rank(l, i) = k
    BY <2>1, <2>2, RankIsPermutation
  <2>4. list_nodes(l)[k] = l[i]
    BY <2>1, <2>3, ListNodesIs
  <2>5. Listed(i - 1, l[i].parent_id, l[i].timestamp)
    BY <1>1, <2>1, <2>4 DEF ExplogInv, ParentsLogged
  <2>6. PICK j \in 1..(i - 1) : l[j].id = l[i].parent_id
                               /\ l[j].timestamp <= l[i].timestamp
    BY <2>5 DEF Listed
  <2>7. j \in 1..Len(l) /\ j # i /\ Before(l, j, i)
    <3>1. l[j].timestamp \in Int /\ l[i].timestamp \in Int
      <4>1. j \in 1..Len(l) /\ l[j] \in Node /\ l[i] \in Node
        BY <2>1
      <4>. QED BY <4>1, ExplogAssumption DEF Node
    <3>. QED BY <2>6, <3>1 DEF Before
  <2>8. Rank(l, j) \in 1..Len(l) /\ Rank(l, j) < k
    BY <2>1, <2>3, <2>7, RankIsPermutation
  <2>9. list_nodes(l)[Rank(l, j)] = l[j]
    BY <2>1, <2>7, ListNodesIs
  <2>10. Rank(l, j) \in 1..(k - 1)
    BY <2>2, <2>8
  <2>. QED BY <2>4, <2>6, <2>9, <2>10
<1>. QED BY <1>1, ExplogInvariant, PTL

------------------------------------------------------------------------------
LEMMA LinesFinal ==
  ASSUME ExplogInv, UNCHANGED log.lines
  PROVE  \A i \in 1..Terminated(log) :
           i \in DOMAIN log'.lines /\ log'.lines[i] = log.lines[i]
<1>1. /\ Len(log.lines) \in Nat /\ DOMAIN log.lines = 1..Len(log.lines)
  BY DEF ExplogInv, ExplogTypeOK
<1>. QED BY <1>1 DEF Terminated

LEMMA DirectoriesFinal ==
  ASSUME ExplogInv, UNCHANGED dir
  PROVE  /\ \A i \in Records(log.lines) :
              LET d == log.lines[i].data_dir IN dir'[d] = dir[d]
         /\ \A d \in Dirs :
              /\ dir'[d].level >= dir[d].level
              /\ dir[d].diff # None => dir'[d].diff = dir[d].diff
BY DEF ExplogInv, ExplogTypeOK

(* A step of p on a directory no record has.                               *)
LEMMA DirectoryStepFinal ==
  ASSUME ExplogInv, NEW d \in Dirs, UNCHANGED log,
         \A i \in Records(log.lines) : log.lines[i].data_dir # d,
         NEW v, dir' = [dir EXCEPT ![d] = v],
         v.level >= dir[d].level, dir[d].diff # None => v.diff = dir[d].diff
  PROVE  Final
<1>1. dir'[d] = v /\ \A e \in Dirs : e # d => dir'[e] = dir[e]
  BY DEF ExplogInv, ExplogTypeOK
<1>2. \A e \in Dirs : dir[e].level \in Int
  BY ExplogAssumption DEF ExplogInv, ExplogTypeOK, Complete
<1>3. \A i \in Records(log.lines) : log.lines[i].data_dir \in Dirs
  BY DEF ExplogInv, ExplogTypeOK, Records, Node
<1>4. UNCHANGED log.lines OBVIOUS
<1>. QED BY <1>1, <1>2, <1>3, <1>4, LinesFinal DEF Final

LEMMA WorkFinal ==
  ASSUME ExplogInv, NEW p \in Processes,
         CreateDirectories(p) \/ WriteDiff(p) \/ RunScript(p)
  PROVE  Final
<1>. DEFINE d == Mine(p)
<1>1. Owned(p) /\ Captured(p) /\ proc[p] \in Command /\ In(p, Running)
  BY DEF CreateDirectories, WriteDiff, RunScript, At, In, Running, ExplogInv,
     ExplogTypeOK
<1>2. d \in Dirs
  BY <1>1 DEF Captured, Dirs, Mine, Command
<1>3. Complete \in Nat /\ Complete >= 2
  BY ExplogAssumption DEF Complete
<1>4. dir[d] \in [level : 0..Complete, diff : Snapshot \union {None}]
      /\ (dir[d].diff # None => dir[d].level >= 2)
  BY <1>2 DEF ExplogInv, ExplogTypeOK, LogInv
<1>5. CASE CreateDirectories(p)
  <2>. DEFINE v == [dir[d] EXCEPT !.level = 1]
  <2>1. dir[d].level = 0 /\ UNCHANGED log
    BY <1>5 DEF CreateDirectories
  <2>2. \A i \in Records(log.lines) : log.lines[i].data_dir # d
    <3>1. dir[d].level # Complete BY <1>3, <2>1
    <3>. QED BY <3>1 DEF ExplogInv, RecordBacked
  <2>3. dir' = [dir EXCEPT ![d] = v]
    BY <1>2, <1>5 DEF CreateDirectories, ExplogInv, ExplogTypeOK
  <2>4. v.level >= dir[d].level /\ (dir[d].diff # None => v.diff = dir[d].diff)
    BY <1>4, <2>1
  <2>. HIDE DEF v, d
  <2>. QED BY <1>2, <2>1, <2>2, <2>3, <2>4, DirectoryStepFinal
<1>6. CASE WriteDiff(p)
  <2>. DEFINE v == [level |-> 2, diff |-> proc[p].diff]
  <2>1. In(p, Working) /\ dir[d].level = 1 /\ UNCHANGED log
        /\ dir' = [dir EXCEPT ![d] = v]
    BY <1>6 DEF WriteDiff, At, In, Working
  <2>2. \A i \in Records(log.lines) : log.lines[i].data_dir # d
    BY <1>1, <2>1 DEF Owned
  <2>3. v.level >= dir[d].level /\ (dir[d].diff # None => v.diff = dir[d].diff)
    BY <1>4, <2>1
  <2>. HIDE DEF v, d
  <2>. QED BY <1>2, <2>1, <2>2, <2>3, DirectoryStepFinal
<1>7. CASE RunScript(p)
  <2>. DEFINE v == [dir[d] EXCEPT !.level = @ + 1]
  <2>1. In(p, Working) /\ UNCHANGED log
    BY <1>7 DEF RunScript, At, In, Working
  <2>2. dir' = [dir EXCEPT ![d] = v]
    BY <1>2, <1>7 DEF RunScript, ExplogInv, ExplogTypeOK
  <2>3. \A i \in Records(log.lines) : log.lines[i].data_dir # d
    BY <1>1, <2>1 DEF Owned
  <2>4. v.level >= dir[d].level /\ (dir[d].diff # None => v.diff = dir[d].diff)
    BY <1>3, <1>4
  <2>. HIDE DEF v, d
  <2>. QED BY <1>2, <2>1, <2>2, <2>3, <2>4, DirectoryStepFinal
<1>. QED BY <1>5, <1>6, <1>7

LEMMA AppendRecordFinal ==
  ASSUME ExplogInv, NEW p \in Processes, AppendRecord(p)
  PROVE  Final
<1>. DEFINE l == log.lines
            m == log'.lines
<1>1. l \in Seq(Node \union {BAD}) /\ Len(l) \in Nat /\ DOMAIN l = 1..Len(l)
  BY DEF ExplogInv, ExplogTypeOK
<1>2. PICK r, open : log' = WriteLine(log, r, open)
  BY DEF AppendRecord
<1>3. UNCHANGED dir
  BY DEF AppendRecord
<1>4. m = IF log.open THEN [l EXCEPT ![Len(l)] = BAD] ELSE Append(l, r)
  BY <1>2 DEF WriteLine
<1>5. \A i \in 1..Terminated(log) : i \in DOMAIN m /\ m[i] = l[i]
  <2>1. CASE log.open
    <3>1. Terminated(log) = Len(l) - 1
      BY <2>1 DEF Terminated
    <3>2. m = [l EXCEPT ![Len(l)] = BAD]
      BY <1>4, <2>1
    <3>. HIDE DEF l, m
    <3>3. ASSUME NEW k \in Nat, NEW i \in 1..(k - 1)
          PROVE  i \in 1..k /\ i # k
      OBVIOUS
    <3>4. \A i \in 1..Terminated(log) : i \in DOMAIN l /\ i # Len(l)
      BY <1>1, <3>1, <3>3
    <3>. QED BY <3>2, <3>4
  <2>2. CASE ~ log.open
    <3>1. Terminated(log) = Len(l)
      BY <2>2 DEF Terminated
    <3>2. DOMAIN m = 1..(Len(l) + 1) /\ \A i \in 1..Len(l) : m[i] = l[i]
      BY <1>1, <1>4, <2>2
    <3>. HIDE DEF l, m
    <3>. QED BY <1>1, <3>1, <3>2
  <2>. QED BY <2>1, <2>2
<1>. QED BY <1>3, <1>5, DirectoriesFinal DEF Final

LEMMA InitializeLogFinal ==
  ASSUME ExplogInv, NEW p \in Processes, InitializeLog(p)
  PROVE  Final
<1>1. UNCHANGED dir
  BY DEF InitializeLog
<1>2. UNCHANGED log.lines
  <2>1. CASE log.exists
    BY <2>1 DEF InitializeLog
  <2>2. CASE ~ log.exists
    BY <2>2 DEF InitializeLog, ExplogInv, LogInv, NoLog
  <2>. QED BY <2>1, <2>2
<1>. QED BY <1>1, <1>2, LinesFinal, DirectoriesFinal DEF Final

(* A line of the log that has its newline never changes, nor the directory *)
(* of a record, nor a git.diff: no run and no initialization loses what    *)
(* another has written.                                                    *)
THEOREM ExplogRecordsAreFinal == Spec => RecordsAreFinal
<1>1. ASSUME ExplogInv, [Next]_vars PROVE [Final]_vars
  <2>1. ASSUME UNCHANGED <<log, dir>> PROVE Final
    <3>1. UNCHANGED log.lines BY <2>1
    <3>. QED BY <1>1, <2>1, <3>1, LinesFinal, DirectoriesFinal DEF Final
  <2>2. ASSUME NEW p \in Processes, RunExperiment(p) PROVE Final
    <3>1. CASE CreateDirectories(p) \/ WriteDiff(p) \/ RunScript(p)
      BY <1>1, <3>1, WorkFinal
    <3>2. CASE AppendRecord(p)
      BY <1>1, <3>2, AppendRecordFinal
    <3>3. CASE \/ Preflight(p) \/ PlanDirectories(p) \/ GitRevParse(p)
               \/ GitAdd(p) \/ GitDiff(p) \/ Stamp(p)
      BY <2>1, <3>3 DEF Preflight, PlanDirectories, GitRevParse, GitAdd,
         GitDiff, Stamp, files
    <3>. QED BY <2>2, <3>1, <3>2, <3>3 DEF RunExperiment
  <2>3. ASSUME NEW p \in Processes, InitializeEnvironment(p) PROVE Final
    <3>1. CASE InitializeLog(p)
      BY <1>1, <3>1, InitializeLogFinal
    <3>2. CASE \/ InitConfig(p) \/ CreateEmptyConfig(p) \/ InitPreflight(p)
               \/ CreateLogParent(p) \/ CreateDataRoot(p)
      BY <2>1, <3>2 DEF InitConfig, CreateEmptyConfig, InitPreflight,
         CreateLogParent, CreateDataRoot, files
    <3>. QED BY <2>3, <3>1, <3>2 DEF InitializeEnvironment
  <2>4. ASSUME NEW p \in Processes, Fail(p) PROVE Final
    BY <2>1, <2>4 DEF Fail, files
  <2>5. CASE User
    BY <2>1, <2>5 DEF User, Commit, NewFile, Tick, FillConfig, files
  <2>. QED BY <1>1, <2>2, <2>3, <2>4, <2>5 DEF Next
<1>. QED BY <1>1, ExplogInvariant, PTL DEF Spec, RecordsAreFinal
===============================================================================
