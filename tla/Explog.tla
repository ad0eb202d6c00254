-------------------------------- MODULE Explog --------------------------------
(***************************************************************************)
(* explog, the experiment log: explog/src/explog.  Processes run           *)
(* "explog run" (workflow.run_experiment) and "explog init"                *)
(* (initialization.initialize_environment) against one JSONL log and one   *)
(* Git repository, with no lock between them; any step may fail, or the    *)
(* process be killed, and nothing is rolled back.                          *)
(*                                                                         *)
(* A configuration file names a data_root; all name the same log.  The     *)
(* directory <<c, i>> is data_root(c)/i, and its level counts the steps    *)
(* that made it: 1 the three directories, 2 git.diff, then one for each     *)
(* experiment script and each processing script.                           *)
(***************************************************************************)
EXTENDS Integers, Sequences, FiniteSets

CONSTANTS
  Processes,
  Configs,          \* the configuration files, one data_root each
  CustomIds,        \* what --id may name, all safe directory names
  None,             \* Python's None: no parent, no diff, not running
  BAD,              \* a line of the log that is no JSON object
  NExperiment,      \* len(config.experiment_scripts)
  NProcessing,      \* len(config.data_processing_scripts)
  TicksPerSecond,
  MaxClock,         \* bound of the clock
  MaxRuns,          \* bound of the commands started
  MaxEdits          \* bound of the user's commits and new files

ASSUME ExplogAssumption ==
  /\ NExperiment \in Nat /\ NProcessing \in Nat
  /\ TicksPerSecond \in Nat \ {0}
  /\ MaxClock \in Nat /\ MaxRuns \in Nat /\ MaxEdits \in Nat

VARIABLES
  proc,       \* proc[p]: None, or the command p is running and where it is
  log,        \* the log file
  log_parent, \* its parent directory exists
  config,     \* config[c]: "absent", "template" (just created), "outside"
              \* (its data_root is not below the Git root) or "filled"
  made,       \* the data_roots that exist
  dir,        \* dir[<<c, i>>]: level and git.diff of the directory
  head,       \* the commit HEAD names
  pending,    \* some file that is not ignored is not in the index
  clock,
  runs,       \* the commands started so far
  edits,      \* the user's commits and new files so far
  succeeded   \* history: the nodes whose id was printed

vars == <<proc, log, log_parent, config, made, dir, head, pending, clock,
          runs, edits, succeeded>>
bounds == <<runs, edits>>
files == <<log, log_parent, config, made, dir>>

(* generate_id: the second, in UTC.                                        *)
generate_id == clock \div TicksPerSecond

Ids == CustomIds \union 0..(MaxClock \div TicksPerSecond)
Dirs == Configs \X Ids
Complete == 2 + NExperiment + NProcessing

(* A record of the log; a snapshot of Git; what a running command holds.   *)
Node == [id : Ids, parent_id : Ids \union {None}, timestamp : 0..MaxClock,
         git_commit : Nat, data_dir : Dirs, disturbed : BOOLEAN]
Snapshot == [base : Nat, untracked : BOOLEAN]
Steps == {"plan", "head", "add", "diff", "mkdir", "work", "append",
          "init.create", "init.preflight", "init.parent", "init.root", "init.log"}
Command == [pc : Steps, config : Configs, id : Ids \union {None},
            parent : Ids \union {None}, at : (0..MaxClock) \union {None},
            head : Nat \union {None}, diff : Snapshot \union {None},
            disturbed : BOOLEAN]

ASSUME NoneAssumption ==
  /\ None \notin Nat \union Ids \union Snapshot \union Command
  /\ BAD \notin Node

------------------------------------------------------------------------------
(* The log is a sequence of lines.  The last one may lack its newline      *)
(* after a write that stopped short: the next append continues that line.  *)
NoLog == [exists |-> FALSE, lines |-> <<>>, open |-> FALSE]

Records(l) == {i \in DOMAIN l : l[i] # BAD}
LoggedIds(l) == {l[i].id : i \in Records(l)}

(* read_log raises LogError unless every line is an object with an id of   *)
(* its own.  A missing log is an empty one.                                *)
read_log(l) ==
  /\ Records(l) = DOMAIN l
  /\ \A i, j \in DOMAIN l : l[i].id = l[j].id => i = j

WriteLine(l, r, open) ==
  [exists |-> TRUE, open |-> open,
   lines  |-> IF l.open THEN [l.lines EXCEPT ![Len(l.lines)] = BAD]
              ELSE Append(l.lines, r)]

(* list_nodes: sorted by time stamp, and the sort is stable.               *)
list_nodesUnstable(l) ==        \* variant: equal stamps in any order
  LET before(i, j) ==
        \/ l[i].timestamp < l[j].timestamp
        \/ l[i].timestamp = l[j].timestamp /\ i >= j
  IN [k \in DOMAIN l |->
        l[CHOOSE i \in DOMAIN l :
            Cardinality({j \in DOMAIN l : before(j, i)}) = k]]

list_nodes(l) ==
  LET before(i, j) ==
        \/ l[i].timestamp < l[j].timestamp
        \/ l[i].timestamp = l[j].timestamp /\ i <= j
  IN [k \in DOMAIN l |->
        l[CHOOSE i \in DOMAIN l :
            Cardinality({j \in DOMAIN l : before(j, i)}) = k]]

(* load_config refuses a missing file, an empty value and a script that is *)
(* no argv array; resolve_data_root a data_root outside the repository.    *)
load_config(c) == config[c] \in {"outside", "filled"}
resolve_data_root(c) == config[c] # "outside"

(* _validate_log_state                                                     *)
validate_log_state(l, i, parent) ==
  /\ i \notin LoggedIds(l)
  /\ parent \in LoggedIds(l) \union {None}

------------------------------------------------------------------------------
Init ==
  /\ proc = [p \in Processes |-> None]
  /\ log = NoLog
  /\ log_parent \in BOOLEAN
  /\ config \in [Configs -> {"absent", "filled"}]
  /\ made = {}
  /\ dir = [d \in Dirs |-> [level |-> 0, diff |-> None]]
  /\ head = 0
  /\ pending = TRUE
  /\ clock = 0
  /\ runs = 0 /\ edits = 0
  /\ succeeded = {}

At(p, pc) == proc[p] # None /\ proc[p].pc = pc
Mine(p) == <<proc[p].config, proc[p].id>>
Goto(p, pc) == proc' = [proc EXCEPT ![p].pc = pc]
Return(p) == proc' = [proc EXCEPT ![p] = None]

(* A new file, or a commit, falls between git add -N and git diff of the   *)
(* processes that are there: their snapshot is no single moment's.         *)
Disturb(old) ==
  [q \in Processes |-> IF old[q] # None /\ old[q].pc \in {"add", "diff"}
                       THEN [old[q] EXCEPT !.disturbed = TRUE] ELSE old[q]]

(* Any step may raise, a script exit non-zero, or the process be killed:   *)
(* what it has written stays.                                              *)
Fail(p) ==
  /\ proc[p] # None
  /\ Return(p)
  /\ UNCHANGED <<files, head, pending, clock, bounds, succeeded>>

------------------------------------------------------------------------------
(* run_experiment.  A command that its preflight refuses changes nothing,  *)
(* so a run starts where load_config, read_log and _validate_log_state     *)
(* have accepted it.                                                       *)
Begin(p, c, pc, i, parent) ==
  /\ proc[p] = None /\ runs < MaxRuns
  /\ runs' = runs + 1
  /\ proc' = [proc EXCEPT ![p] =
       [pc |-> pc, config |-> c, id |-> i, parent |-> parent, at |-> None,
        head |-> None, diff |-> None, disturbed |-> FALSE]]

Preflight(p) ==
  /\ read_log(log.lines)
  /\ \E c \in Configs, i \in CustomIds \union {generate_id},
        parent \in Ids \union {None} :
       /\ load_config(c)
       /\ validate_log_state(log.lines, i, parent)
       /\ Begin(p, c, "plan", i, parent)
  /\ UNCHANGED <<files, head, pending, clock, edits, succeeded>>

(* plan_directories and the test of the log's parent directory.            *)
PlanDirectories(p) ==
  /\ At(p, "plan")
  /\ resolve_data_root(proc[p].config)
  /\ dir[Mine(p)].level = 0
  /\ log_parent
  /\ Goto(p, "head")
  /\ UNCHANGED <<files, head, pending, clock, bounds, succeeded>>

(* capture_snapshot: three git commands.                                   *)
GitRevParse(p) ==
  /\ At(p, "head")
  /\ proc' = [proc EXCEPT ![p].pc = "add", ![p].head = head]
  /\ UNCHANGED <<files, head, pending, clock, bounds, succeeded>>

GitAdd(p) ==
  /\ At(p, "add")
  /\ Goto(p, "diff")
  /\ pending' = FALSE
  /\ UNCHANGED <<files, head, clock, bounds, succeeded>>

GitDiff(p) ==
  /\ At(p, "diff")
  /\ proc' = [proc EXCEPT ![p].pc = "mkdir",
                ![p].diff = [base |-> head, untracked |-> ~ pending]]
  /\ UNCHANGED <<files, head, pending, clock, bounds, succeeded>>

(* create_directories: mkdir with exist_ok=False is what decides between   *)
(* two runs that passed the preflight with the same directory; raw and     *)
(* processed are made in it, and nothing tells a directory that lacks them *)
(* from one that has them.                                                 *)
CreateDirectoriesExistOk(p) ==           \* variant: exist_ok=True
  /\ At(p, "mkdir")
  /\ dir' = [dir EXCEPT ![Mine(p)].level = 1]
  /\ made' = made \union {proc[p].config}
  /\ Goto(p, "work")
  /\ UNCHANGED <<log, log_parent, config, head, pending, clock, bounds, succeeded>>

CreateDirectories(p) ==
  /\ At(p, "mkdir")
  /\ dir[Mine(p)].level = 0
  /\ dir' = [dir EXCEPT ![Mine(p)].level = 1]
  /\ made' = made \union {proc[p].config}
  /\ Goto(p, "work")
  /\ UNCHANGED <<log, log_parent, config, head, pending, clock, bounds, succeeded>>

WriteDiff(p) ==
  /\ At(p, "work")
  /\ dir[Mine(p)].level = 1
  /\ dir' = [dir EXCEPT ![Mine(p)] = [level |-> 2, diff |-> proc[p].diff]]
  /\ pending' = TRUE
  /\ proc' = Disturb(proc)
  /\ UNCHANGED <<log, log_parent, config, made, head, clock, bounds, succeeded>>

(* run_experiment_scripts, then run_processing_scripts, in their order; a  *)
(* script may write files below its output directory.                      *)
RunScript(p) ==
  /\ At(p, "work")
  /\ dir[Mine(p)].level \in 2..(Complete - 1)
  /\ dir' = [dir EXCEPT ![Mine(p)].level = @ + 1]
  /\ pending' = TRUE
  /\ proc' = Disturb(proc)
  /\ UNCHANGED <<log, log_parent, config, made, head, clock, bounds, succeeded>>

StampEarly(p) ==                \* variant: the processing scripts are not awaited
  /\ At(p, "work")
  /\ dir[Mine(p)].level >= 2 + NExperiment
  /\ proc' = [proc EXCEPT ![p].pc = "append", ![p].at = clock]
  /\ UNCHANGED <<files, head, pending, clock, bounds, succeeded>>

Stamp(p) ==                     \* _creation_timestamp
  /\ At(p, "work")
  /\ dir[Mine(p)].level = Complete
  /\ proc' = [proc EXCEPT ![p].pc = "append", ![p].at = clock]
  /\ UNCHANGED <<files, head, pending, clock, bounds, succeeded>>

ExperimentNode(p) ==
  [id |-> proc[p].id, parent_id |-> proc[p].parent, timestamp |-> proc[p].at,
   git_commit |-> proc[p].head, data_dir |-> Mine(p),
   disturbed |-> proc[p].disturbed]

(* append_record.  A write that stops short (a full disk, a kill) leaves   *)
(* part of the line, or all of it but the newline, and the command fails.  *)
AppendRecord(p) ==
  /\ At(p, "append") /\ log_parent
  /\ \/ /\ log' = WriteLine(log, ExperimentNode(p), FALSE)
        /\ succeeded' = succeeded \union {ExperimentNode(p)}
     \/ /\ \E r \in {ExperimentNode(p), BAD} : log' = WriteLine(log, r, TRUE)
        /\ UNCHANGED succeeded
  /\ proc' = [Disturb(proc) EXCEPT ![p] = None]
  /\ pending' = (pending \/ ~ log.exists)
  /\ UNCHANGED <<log_parent, config, made, dir, head, clock, bounds>>

------------------------------------------------------------------------------
(* initialize_environment.  A missing configuration is created from the    *)
(* template and the command fails; the loser of a race to create it goes   *)
(* on to load_config, which refuses the template's empty values.           *)
InitConfig(p) ==
  /\ \E c \in Configs :
       Begin(p, c, IF config[c] = "absent" THEN "init.create"
                   ELSE "init.preflight", None, None)
  /\ UNCHANGED <<files, head, pending, clock, edits, succeeded>>

CreateEmptyConfig(p) ==
  /\ At(p, "init.create")
  /\ IF config[proc[p].config] = "absent"
       THEN /\ config' = [config EXCEPT ![proc[p].config] = "template"]
            /\ Return(p)
       ELSE Goto(p, "init.preflight") /\ UNCHANGED config
  /\ UNCHANGED <<log, log_parent, made, dir, head, pending, clock, bounds, succeeded>>

InitPreflight(p) ==
  /\ At(p, "init.preflight")
  /\ load_config(proc[p].config) /\ resolve_data_root(proc[p].config)
  /\ read_log(log.lines)
  /\ Goto(p, "init.parent")
  /\ UNCHANGED <<files, head, pending, clock, bounds, succeeded>>

CreateLogParent(p) ==
  /\ At(p, "init.parent")
  /\ log_parent' = TRUE
  /\ Goto(p, "init.root")
  /\ UNCHANGED <<log, config, made, dir, head, pending, clock, bounds, succeeded>>

CreateDataRoot(p) ==
  /\ At(p, "init.root")
  /\ made' = made \union {proc[p].config}
  /\ Goto(p, "init.log")
  /\ UNCHANGED <<log, log_parent, config, dir, head, pending, clock, bounds, succeeded>>

(* initialize_log: open("x"); another process may have made the log since  *)
(* the preflight, and then it is read again.                               *)
InitializeLogTruncate(p) ==     \* variant: open("w")
  /\ At(p, "init.log")
  /\ log' = [NoLog EXCEPT !.exists = TRUE]
  /\ pending' = (pending \/ ~ log.exists)
  /\ proc' = [Disturb(proc) EXCEPT ![p] = None]
  /\ UNCHANGED <<log_parent, config, made, dir, head, clock, bounds, succeeded>>

InitializeLog(p) ==
  /\ At(p, "init.log")
  /\ IF log.exists
       THEN /\ read_log(log.lines)
            /\ Return(p)
            /\ UNCHANGED <<log, pending>>
       ELSE /\ log' = [NoLog EXCEPT !.exists = TRUE]
            /\ pending' = TRUE
            /\ proc' = [Disturb(proc) EXCEPT ![p] = None]
  /\ UNCHANGED <<log_parent, config, made, dir, head, clock, bounds, succeeded>>

------------------------------------------------------------------------------
(* The user of the repository, and time.                                   *)
FillConfig(c) ==
  /\ config[c] = "template"
  /\ \E filled \in {"outside", "filled"} :
       config' = [config EXCEPT ![c] = filled]
  /\ UNCHANGED <<proc, log, log_parent, made, dir, head, pending, clock, bounds, succeeded>>

Commit ==
  /\ edits < MaxEdits /\ edits' = edits + 1
  /\ head' = head + 1
  /\ proc' = Disturb(proc)
  /\ UNCHANGED <<files, pending, clock, runs, succeeded>>

NewFile ==
  /\ ~ pending
  /\ edits < MaxEdits /\ edits' = edits + 1
  /\ pending' = TRUE
  /\ proc' = Disturb(proc)
  /\ UNCHANGED <<files, head, clock, runs, succeeded>>

Tick ==
  /\ clock < MaxClock
  /\ clock' = clock + 1
  /\ UNCHANGED <<proc, files, head, pending, bounds, succeeded>>

RunExperiment(p) ==
  \/ Preflight(p) \/ PlanDirectories(p)
  \/ GitRevParse(p) \/ GitAdd(p) \/ GitDiff(p)
  \/ CreateDirectories(p) \/ WriteDiff(p) \/ RunScript(p)
  \/ Stamp(p) \/ AppendRecord(p)

InitializeEnvironment(p) ==
  \/ InitConfig(p) \/ CreateEmptyConfig(p) \/ InitPreflight(p)
  \/ CreateLogParent(p) \/ CreateDataRoot(p) \/ InitializeLog(p)

User == Commit \/ NewFile \/ Tick \/ \E c \in Configs : FillConfig(c)

Next ==
  \/ \E p \in Processes :
       RunExperiment(p) \/ InitializeEnvironment(p) \/ Fail(p)
  \/ User

Spec == Init /\ [][Next]_vars

------------------------------------------------------------------------------
(* A record in the log is backed by what it names: its directory holds     *)
(* git.diff and the output of every script, and the diff, applied to the   *)
(* recorded commit, gives the working tree with its untracked files,       *)
(* unless the repository moved while git was asked.  "Only when all the    *)
(* steps before have succeeded is the node appended" (README).             *)
RecordBacked ==
  \A i \in Records(log.lines) :
    LET r == log.lines[i] d == dir[r.data_dir] IN
    /\ d.level = Complete
    /\ r.disturbed \/ d.diff = [base |-> r.git_commit, untracked |-> TRUE]

(* No two records share a directory, however the runs interleave and      *)
(* whatever ids they chose.                                                *)
OneRecordPerDirectory ==
  \A i, j \in Records(log.lines) :
    log.lines[i].data_dir = log.lines[j].data_dir => i = j

(* "explog list" shows a parent before its children, though stamps are     *)
(* taken before the record is appended and several may be equal.           *)
ParentsListedFirst ==
  read_log(log.lines) =>
    LET nodes == list_nodes(log.lines) IN
    \A i \in DOMAIN nodes :
      nodes[i].parent_id = None \/
        \E j \in 1..(i - 1) : nodes[j].id = nodes[i].parent_id

(* A command that printed an id has its record in the log, unless a write  *)
(* to the log ever stopped short.                                          *)
Short == log.open \/ \E i \in DOMAIN log.lines : log.lines[i] = BAD
SuccessRecorded ==
  Short \/ succeeded = {log.lines[i] : i \in DOMAIN log.lines}

(* Whatever runs, an initialization included, a line of the log that has   *)
(* its newline never changes, nor does the directory of a recorded         *)
(* experiment, nor the git.diff of any: a failed run's data are kept.      *)
Terminated(l) == IF l.open THEN Len(l.lines) - 1 ELSE Len(l.lines)
Final ==
  /\ \A i \in 1..Terminated(log) :
       i \in DOMAIN log'.lines /\ log'.lines[i] = log.lines[i]
  /\ \A i \in Records(log.lines) :
       LET d == log.lines[i].data_dir IN dir'[d] = dir[d]
  /\ \A d \in Dirs :
       /\ dir'[d].level >= dir[d].level
       /\ dir[d].diff # None => dir'[d].diff = dir[d].diff
RecordsAreFinal == [][Final]_vars
=============================================================================
