-------------------------------- MODULE Uptime --------------------------------
(***************************************************************************)
(* The clock of NEMU, the abstract machine's timer, and what bench.c       *)
(* measures with it.  The clock is read in two halves of 32 bits; each     *)
(* read of either has the device bring both up to date.  Which half is     *)
(* read first is the compiler's choice.  Steps are the reads of a half     *)
(* and, between them, what main does; the host's time goes on before any   *)
(* of them.                                                                *)
(***************************************************************************)
EXTENDS Integers, Sequences

CONSTANTS
  LowMod,      \* 2^32, in microseconds
  MaxTime      \* bound: how long the host's clock is followed

Wrap64 == LowMod * LowMod

(* 2^64 microseconds are more than half a million years.                   *)
ASSUME UptimeAssumption ==
  LowMod \in Nat \ {0} /\ MaxTime \in Nat /\ MaxTime < Wrap64

VARIABLES
  lowFirst,    \* the build: which half __am_timer_uptime reads first
  now,         \* get_time() of NEMU, in microseconds
  rtc,         \* rtc_port_base: the word at offset 0 and at offset 4
  half,        \* <<the half already read, when>>, or << >>
  stage,       \* the reading main waits for, or "bench", or "end"
  boot_time, t0,
  res_usec,    \* the uptime when the benchmark was started
  score_time,
  torn,        \* history: the halves of a reading are of different times
  started,     \* history: when the two halves of res_usec were read
  inner, outer \* history: the time between the readings, without and with
               \*   the time they took

clock_vars    == <<lowFirst, now, rtc, half>>
time_vars     == <<boot_time, t0, res_usec, score_time>>
time_history  == <<torn, started, inner, outer>>
uptime_vars   == <<clock_vars, stage, time_vars, time_history>>

------------------------------------------------------------------------------
(* nemu/src/device/timer.c, called before the word is read.                *)
Halves(t) == [o \in {0, 4} |-> IF o = 0 THEN t % LowMod ELSE t \div LowMod]
rtc_io_handlerHigh(offset) ==    \* variant: the high half alone brings both up to date
  rtc' = IF offset = 4 THEN Halves(now) ELSE rtc

rtc_io_handler(offset) ==
  rtc' = Halves(now)

inl(offset) == rtc_io_handler(offset) /\ now' = now

FirstHalf  == IF lowFirst THEN 0 ELSE 4
SecondHalf == 4 - FirstHalf

Reading == {"boot", "t0", "prepare", "done", "total"}

ReadFirst ==
  /\ stage \in Reading /\ half = << >>
  /\ inl(FirstHalf)
  /\ half' = <<rtc'[FirstHalf], now>>
  /\ UNCHANGED <<lowFirst, stage, time_vars, time_history>>

(* The second half ends the reading of stage s, after the first.           *)
ReadSecond(s) ==
  /\ stage = s /\ half # << >>
  /\ inl(SecondHalf)
  /\ half' = << >>
  /\ torn' = (torn \/ (half[2] \div LowMod) # (now \div LowMod))
  /\ UNCHANGED lowFirst

cur_time == IF lowFirst THEN half[1] + rtc'[4] * LowMod ELSE rtc'[0] + half[1] * LowMod
uptime   == (cur_time - boot_time) % Wrap64

Tick(d) ==
  /\ stage # "end" /\ now + d <= MaxTime
  /\ now' = now + d
  /\ UNCHANGED <<lowFirst, rtc, half, stage, time_vars, time_history>>

------------------------------------------------------------------------------
UptimeInit ==
  /\ lowFirst \in BOOLEAN
  /\ now = 0 /\ rtc = Halves(0) /\ half = << >>
  /\ stage = "boot" /\ boot_time = 0 /\ t0 = 0 /\ res_usec = 0 /\ score_time = 0
  /\ torn = FALSE /\ started = <<0, 0>> /\ inner = 0 /\ outer = 0

(* ioe_init, and the t0 of main.                                           *)
__am_timer_init ==
  /\ ReadSecond("boot")
  /\ boot_time' = cur_time /\ stage' = "t0"
  /\ UNCHANGED <<t0, res_usec, score_time, started, inner, outer>>

MainStart ==
  /\ ReadSecond("t0")
  /\ t0' = uptime /\ stage' = "bench"
  /\ UNCHANGED <<boot_time, res_usec, score_time, started, inner, outer>>

(* Between two benchmarks: one is run, one is ignored, or all are done.    *)
BenchLoop(next) ==
  /\ stage = "bench" /\ stage' = next
  /\ UNCHANGED <<clock_vars, time_vars, time_history>>

bench_prepare ==
  /\ ReadSecond("prepare")
  /\ res_usec' = uptime /\ stage' = "done"
  /\ started' = <<half[2], now>>
  /\ UNCHANGED <<boot_time, t0, score_time, inner, outer>>

elapsed == (uptime - res_usec) % Wrap64
bench_done ==
  /\ ReadSecond("done")
  /\ score_time' = (score_time + elapsed) % Wrap64 /\ stage' = "bench"
  /\ inner' = inner + half[2] - started[2]
  /\ outer' = outer + now - started[1]
  /\ UNCHANGED <<boot_time, t0, res_usec, started>>

total_time == (uptime - t0) % Wrap64
BenchTotal ==
  /\ ReadSecond("total")
  /\ stage' = "end"
  /\ UNCHANGED <<time_vars, started, inner, outer>>

UptimeNext ==
  \/ \E d \in Nat : Tick(d)
  \/ ReadFirst \/ __am_timer_init \/ MainStart
  \/ \E next \in {"bench", "prepare", "total"} : BenchLoop(next)
  \/ bench_prepare \/ bench_done \/ BenchTotal

UptimeSpec == UptimeInit /\ [][UptimeNext]_uptime_vars

------------------------------------------------------------------------------
(* Unless a reading was torn, the time scored is the time the benchmarks   *)
(* took, give or take what the readings themselves took: refreshing both   *)
(* halves at either read is what makes it so, whichever is read first.     *)
ScoredTimeTrue ==
  ~torn => inner <= score_time /\ score_time <= outer
==============================================================================
