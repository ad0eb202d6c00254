--------------------------------- MODULE Bench ---------------------------------
(***************************************************************************)
(* scripts/run and scripts/analyze: a runner repeats MicroBench, one log   *)
(* file a run, until the statistics of its own samples are stable; the     *)
(* analyser later reads the directory of logs back and reports on it.      *)
(* run_real.py and run_on_single.py run one benchmark at a time,           *)
(* run_on_batch.py eight.                                                  *)
(*                                                                         *)
(* A sample is known by the number of its log; a runner finishes its logs  *)
(* in the order of their numbers, so a set of samples is a list too.      *)
(* Whether samples are stable (99% RMOE below 1%) is a choice of the model. *)
(***************************************************************************)
EXTENDS Integers, Sequences, FiniteSets

CONSTANTS
  Runners,        \* processes that run a runner on the same directory
  MAX_RUNS,       \* bound, by LOG_TYPE: in the code 125, for a batch 128
  MaxFaults,      \* bound: the abnormal logs and the rebuilds
  Kept,           \* bound: the logs a user may leave behind
  None

BATCH_SIZE == 8
MIN_BATCH_COUNT == 3
MIN_RUNS == 15
MIN_LOG_FILES == 15

ASSUME RunsAssumption ==
  /\ DOMAIN MAX_RUNS \subseteq {"real", "single", "batch"}
  /\ \A t \in DOMAIN MAX_RUNS :
       /\ MAX_RUNS[t] \in Nat \ {0}
       /\ t = "batch" => MAX_RUNS[t] % BATCH_SIZE = 0
  /\ MaxFaults \in Nat

VARIABLES
  LOG_TYPE,   \* scripts/_config.py: "real", "single" or "batch"
  develop,    \* the emulator prints its Compile Flags
  build,      \* the build of the emulator that make would run now
  runner,     \* runner[r]: where it is, its exit status, and its counters
  flags,      \* the flag files that were copied to the directory
  log         \* log[i]: None, or the runner, the kind and the build of log-i

vars == <<LOG_TYPE, develop, build, runner, flags, log>>

(* What may be wrong with a log: no results, for a status that is not 0 or  *)
(* because none were printed; results the runner does not count, for a      *)
(* status that is not 0 or a time of zero; and fields only the analyser     *)
(* needs (Marks, the average frequency, perf events, the load average).     *)
Kinds == {"failed", "late", "partial"}

LogKinds == Kinds \union {"ok", "running"}
Log == [by : Runners, kind : LogKinds, build : Nat]

ASSUME NoneAssumption == None \notin Log

LastRun == MAX_RUNS[LOG_TYPE]

Ascending(runs) ==
  [k \in 1..Cardinality(runs) |->
     CHOOSE i \in runs : Cardinality({j \in runs : j <= i}) = k]

Idle == [pc |-> "idle", status |-> 0, run |-> 0, failed |-> 0, valid |-> {}]

------------------------------------------------------------------------------
(* The samples the runner's stop condition looks at, and when it does.     *)
WARMUP_RUNS == IF LOG_TYPE = "batch" THEN BATCH_SIZE ELSE 5

judged(valid) ==
  IF LOG_TYPE = "batch"
    THEN Ascending({i \in valid : i > WARMUP_RUNS})
    ELSE SubSeq(Ascending(valid), WARMUP_RUNS + 1, Cardinality(valid))

MayStop(run, valid) ==
  IF LOG_TYPE = "batch" THEN /\ run >= MIN_BATCH_COUNT * BATCH_SIZE
                             /\ Len(judged(valid)) >= 2
                        ELSE Cardinality(valid) >= MIN_RUNS

(* finish_worker and extract_scored_time_ms: the run counts as valid.      *)
ValidRun(kind) ==
  kind \notin {"failed", "late"}

------------------------------------------------------------------------------
Init ==
  /\ LOG_TYPE \in DOMAIN MAX_RUNS
  /\ develop \in BOOLEAN
  /\ build = 1
  /\ runner = [r \in Runners |-> Idle]
  /\ flags = {}
  /\ log = [i \in 1..LastRun |-> None]

At(r, pc) == runner[r].pc = pc
Goto(r, pc) == runner' = [runner EXCEPT ![r].pc = pc]
Exit(r, status) ==
  runner' = [runner EXCEPT ![r] = [Idle EXCEPT !.pc = "exit", !.status = status]]

(* run.py, resolve_run_config                                              *)
Start(r) ==
  /\ At(r, "idle")
  /\ Goto(r, "flags")
  /\ UNCHANGED <<LOG_TYPE, develop, build, flags, log>>

(* copy_compile_flags: neither file may exist; then they are copied, one   *)
(* after the other.                                                        *)
CheckFlags(r) ==
  /\ At(r, "flags")
  /\ IF flags # {} THEN Exit(r, 2) ELSE Goto(r, "cflags")
  /\ UNCHANGED <<LOG_TYPE, develop, build, flags, log>>

CopyFlags(r, f, next) ==
  /\ flags' = flags \union {f}
  /\ Goto(r, next)
  /\ UNCHANGED <<LOG_TYPE, develop, build, log>>

CopyCflags(r) == At(r, "cflags") /\ CopyFlags(r, "compile_cflags", "ldflags")
CopyLdflags(r) == At(r, "ldflags") /\ CopyFlags(r, "compile_ldflags", "check")

(* The checks of main that may refuse: the tools, the isolated cgroup, the *)
(* CPU, the microbench directory.                                          *)
Refuse(r) ==
  /\ LOG_TYPE # "batch" /\ At(r, "check")
  /\ Exit(r, 2)
  /\ UNCHANGED <<LOG_TYPE, develop, build, flags, log>>

(* run_on_batch.py also wants the cgroup to be an isolated partition and   *)
(* eight CPUs below 16, each with its counterpart above.                   *)
RefuseBatch(r) ==
  /\ LOG_TYPE = "batch" /\ At(r, "check")
  /\ Exit(r, 2)
  /\ UNCHANGED <<LOG_TYPE, develop, build, flags, log>>

CheckLogsFirst(r) ==             \* variant: looks at the first log only
  /\ At(r, "check")
  /\ IF log[1] # None THEN Exit(r, 2) ELSE Goto(r, "open")
  /\ UNCHANGED <<LOG_TYPE, develop, build, flags, log>>

CheckLogs(r) ==
  /\ At(r, "check")
  /\ IF \E i \in 1..LastRun : log[i] # None THEN Exit(r, 2)
                                            ELSE Goto(r, "open")
  /\ UNCHANGED <<LOG_TYPE, develop, build, flags, log>>

(* start_worker: the log is opened with "x", then make is started in it.   *)
(* A batch opens eight before it waits for any.                            *)
LastOfBatch(i) == LOG_TYPE # "batch" \/ i % BATCH_SIZE = 0

OpenLog(r) ==
  LET i == runner[r].run + 1
  IN /\ At(r, "open")
     /\ IF log[i] # None
          THEN Exit(r, 1) /\ UNCHANGED log
          ELSE /\ log' = [log EXCEPT
                     ![i] = [by |-> r, kind |-> "running", build |-> build]]
               /\ runner' = [runner EXCEPT
                     ![r].run = i,
                     ![r].pc = IF LastOfBatch(i) THEN "wait" ELSE "open"]
     /\ UNCHANGED <<LOG_TYPE, develop, build, flags>>

Faults ==
  Cardinality({i \in DOMAIN log : log[i] # None /\ log[i].kind \in Kinds})
    + (build - 1)

Running(r) ==
  {i \in DOMAIN log :
     log[i] # None /\ log[i].by = r /\ log[i].kind = "running"}

(* The rest of the loop's body: what make left in the logs, the kind of    *)
(* each, is counted, and the samples are judged.  The loop ends when they  *)
(* are stable or the runs are used up.                                     *)
ExitStatus(failed) == IF failed > 0 THEN 1 ELSE 0

Count(r, kind, stable) ==
  LET run == runner[r].run
      good == {i \in DOMAIN kind : ValidRun(kind[i])}
      valid == runner[r].valid \union good
      failed == runner[r].failed + Cardinality(DOMAIN kind \ good)
      stop == run = LastRun \/ stable
  IN /\ stable => MayStop(run, valid)
     /\ log' = [i \in DOMAIN log |->
          IF i \in DOMAIN kind THEN [log[i] EXCEPT !.kind = kind[i]] ELSE log[i]]
     /\ runner' = [runner EXCEPT
          ![r] = [pc |-> IF stop THEN "exit" ELSE "open",
                  status |-> IF stop THEN ExitStatus(failed) ELSE 0,
                  run |-> run, failed |-> failed, valid |-> valid]]
     /\ UNCHANGED <<LOG_TYPE, develop, build, flags>>

FinishRun(r) ==
  /\ LOG_TYPE # "batch" /\ At(r, "wait")
  /\ \E k \in {"ok"} \union Kinds, stable \in BOOLEAN :
       /\ k \in Kinds => Faults < MaxFaults
       /\ Count(r, [i \in Running(r) |-> k], stable)

(* monitor_workers, finish_worker: the eight logs are finished in turn.    *)
FinishBatch(r) ==
  /\ LOG_TYPE = "batch" /\ At(r, "wait")
  /\ \E bad \in SUBSET Running(r) :
       /\ Cardinality(bad) + Faults <= MaxFaults
       /\ \E k \in [bad -> Kinds], stable \in BOOLEAN :
            Count(r, [i \in Running(r) |-> IF i \in bad THEN k[i] ELSE "ok"],
                  stable)

(* An exception, a Ctrl-C or a signal ends the runner where it is.         *)
Kill(r) ==
  /\ runner[r].pc \notin {"idle", "exit"}
  /\ Exit(r, 130)
  /\ UNCHANGED <<LOG_TYPE, develop, build, flags, log>>

(* Outside the scripts: the emulator is rebuilt (one that prints no flags  *)
(* cannot be told from its other builds); a user who wants to try again    *)
(* removes the flag files, and the logs but perhaps one.                   *)
Rebuild ==
  /\ develop /\ Faults < MaxFaults
  /\ build' = build + 1
  /\ UNCHANGED <<LOG_TYPE, develop, runner, flags, log>>

Tidy ==
  /\ \A r \in Runners : runner[r].pc \in {"idle", "exit"}
  /\ \E keep \in {{}} \union {{i} : i \in Kept} :
       log' = [i \in DOMAIN log |-> IF i \in keep THEN log[i] ELSE None]
  /\ flags' = {}
  /\ runner' = [r \in Runners |-> Idle]
  /\ UNCHANGED <<LOG_TYPE, develop, build>>

Next ==
  \/ \E r \in Runners :
       \/ Start(r) \/ CheckFlags(r) \/ CopyCflags(r) \/ CopyLdflags(r)
       \/ Refuse(r) \/ RefuseBatch(r) \/ CheckLogs(r) \/ OpenLog(r)
       \/ FinishRun(r) \/ FinishBatch(r) \/ Kill(r)
  \/ Rebuild
  \/ Tidy

Spec == Init /\ [][Next]_vars

------------------------------------------------------------------------------
(* process.py and the analyser of LOG_TYPE, as a function of the           *)
(* directory: what it would report if it were run now.                     *)
natural_keyByText(i) ==          \* variant: names compared as strings
  IF i < 10 THEN 11 * i ELSE (11 * (i \div 10)) + 1 + (i % 10)

natural_key(i) == i

LogFiles == {i \in DOMAIN log : log[i] # None}

discover_logs ==
  [k \in 1..Cardinality(LogFiles) |->
     CHOOSE i \in LogFiles :
       Cardinality({j \in LogFiles : natural_key(j) <= natural_key(i)}) = k]

(* parse_benchmark_fields: results are there, once; and parse_single_log   *)
(* and its kin: so are the other fields the analyser needs.                *)
BenchmarkFields(kind) == kind \notin {"running", "failed"}
ParsedLog(kind) == BenchmarkFields(kind) /\ kind # "partial"

(* The Compile Flags lines of the logs are the same line, or absent.       *)
nemu_variantUnchecked(logs) ==   \* variant: the first record's line is taken
  TRUE

determine_nemu_variant(logs) ==
  develop => \A k \in DOMAIN logs : log[logs[k]].build = log[logs[1]].build

(* write_statistics: the samples of its second section.                    *)
warmed(logs) == SubSeq(logs, WARMUP_RUNS + 1, Len(logs))

Rejected == None

run_analysis ==
  LET logs == discover_logs
  IN IF /\ \A i \in DOMAIN log : log[i] # None => ParsedLog(log[i].kind)
        /\ Len(logs) >= MIN_LOG_FILES
        /\ determine_nemu_variant(logs)
       THEN [records |-> logs, kept |-> warmed(logs)]
       ELSE Rejected

------------------------------------------------------------------------------
(* What the analyser reports of a directory whose runner ended with        *)
(* status 0 is the very samples the runner found stable, in their order:   *)
(* the two warm-up rules, one of logs and one of valid samples, agree.     *)
ResultsAreJudged ==
  \A r \in Runners :
    (At(r, "exit") /\ runner[r].status = 0 /\ run_analysis # Rejected)
      => run_analysis.kept = judged(runner[r].valid)

(* The logs of a directory never mix two runners, though two may start on  *)
(* it at once or one on the remains of another.                            *)
LogsOfOneRun ==
  \A i, j \in DOMAIN log :
    (log[i] # None /\ log[j] # None) => log[i].by = log[j].by

(* An emulator rebuilt between two runs is not reported on: the logs of a  *)
(* report that names NEMU Develop are of one build.                        *)
OneBuild ==
  (develop /\ run_analysis # Rejected) =>
    \A i, j \in DOMAIN log :
      (log[i] # None /\ log[j] # None) => log[i].build = log[j].build
================================================================================
