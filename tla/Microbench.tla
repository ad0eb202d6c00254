------------------------------ MODULE Microbench ------------------------------
(***************************************************************************)
(* microbench/src/bench.c: main runs the benchmarks and prints their       *)
(* times.  What it measures, and the clock, is Uptime.                     *)
(***************************************************************************)
EXTENDS Klib, Workloads, Uptime

CONSTANTS
  Setups,      \* what is run: the jobs, and how far the clock moves at once
  REF_SCORE, Ref

ASSUME MicrobenchAssumption == REF_SCORE \in Nat /\ Ref \in Nat

VARIABLES
  setup,
  job,         \* the benchmark main is at
  bench_score, pass,
  buf,         \* static, of format_time
  printed      \* the times printed: <<what was measured, the text>>

main_vars  == <<setup, job, bench_score, pass, buf, printed>>
bench_vars == <<uptime_vars, main_vars>>

BufSize == 32

------------------------------------------------------------------------------
(* format_time: sprintf, then the microseconds from the place the length   *)
(* it returned says, backwards.  The text goes up to the first NUL.        *)
RECURSIVE LastDigits(_, _, _)
LastDigits(b, p, us) ==
  IF us = 0 THEN b
  ELSE LastDigits([b EXCEPT ![p] = CharZero + (us % 10)], p - 1, us \div 10)
format_time(b, us) ==
  LET ms  == us \div 1000
      out == vsprintf(<<[kind |-> "d", d |-> ms],
                        [kind |-> "s", s |-> <<CharDot, CharZero, CharZero, CharZero>>]>>)
      text == Append(out.text, 0)
  IN  LastDigits([i \in DOMAIN b |-> IF i <= Len(text) THEN text[i] ELSE b[i]],
                 out.n, us - ms * 1000)
Text(b) == SubSeq(b, 1, SelectInSeq(b, LAMBDA c : c = 0) - 1)

score(usec) == IF usec = 0 THEN 0 ELSE (REF_SCORE * Ref) \div usec

------------------------------------------------------------------------------
BenchStart ==
  /\ UptimeInit
  /\ setup \in Setups /\ job = 1
  /\ bench_score = 0 /\ pass = TRUE
  /\ buf = [i \in 1 .. BufSize |-> 0] /\ printed = << >>

(* The next benchmark; one that needs more memory than there is, is        *)
(* ignored.                                                                *)
NextJob ==
  /\ IF job > Len(setup.jobs) THEN BenchLoop("total") /\ job' = job
     ELSE IF setup.jobs[job].fits THEN BenchLoop("prepare") /\ job' = job
     ELSE BenchLoop("bench") /\ job' = job + 1
  /\ UNCHANGED <<setup, bench_score, pass, buf, printed>>

(* Run, done, validated and printed.  The checksum in the settings is the  *)
(* one of the right answer.                                                *)
Succeeds(r) == \E ans \in {run(r)} : Solves(r, ans)
Finished(succ) ==
  /\ bench_done
  /\ pass' = (pass /\ succ)
  /\ bench_score' = bench_score + IF succ THEN score(elapsed) ELSE 0
  /\ buf' = format_time(buf, elapsed)
  /\ printed' = Append(printed, <<elapsed, Text(buf')>>)
  /\ job' = job + 1
  /\ UNCHANGED setup
JobDone ==
  /\ stage = "done" /\ half # << >>
  /\ \E succ \in {Succeeds(setup.jobs[job].run)} : Finished(succ)

MainEnd ==
  /\ BenchTotal
  /\ bench_score' = bench_score \div Len(setup.jobs)
  /\ buf' = format_time(format_time(buf, score_time), total_time)
  /\ printed' = printed \o <<<<score_time, Text(format_time(buf, score_time))>>,
                             <<total_time, Text(buf')>>>>
  /\ UNCHANGED <<setup, job, pass>>

Reads == ReadFirst \/ __am_timer_init \/ MainStart \/ bench_prepare

BenchNext ==
  \/ (\E d \in setup.ticks : Tick(d)) /\ UNCHANGED main_vars
  \/ Reads /\ UNCHANGED main_vars
  \/ NextJob \/ JobDone \/ MainEnd

------------------------------------------------------------------------------
(* MicroBench passes: every algorithm gives the right answer.              *)
WorkloadsRight == pass

(* The text of a time, before and after the dot.                           *)
Dot(s) == SelectInSeq(s, LAMBDA c : c = CharDot)
Denotes(s, us) ==
  LET frac == Len(s) - Dot(s)
  IN  digits(SubSeq(s, 1, Dot(s) - 1) \o SubSeq(s, Dot(s) + 1, Len(s)), 1) * 1000 = us * 10 ^ frac

(* A time that is printed is the time that was measured (bench.c:148,      *)
(* _benchmark_stability.py:37).  It is not: see format_time.               *)
TimeAsMeasured == \A k \in DOMAIN printed : Denotes(printed[k][2], printed[k][1])
==============================================================================
