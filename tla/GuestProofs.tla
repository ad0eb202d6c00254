------------------------------ MODULE GuestProofs ------------------------------
(***************************************************************************)
(* The abstract machine and the devices it drives: the ring of the audio   *)
(* device, for every size of ring, stream and chunk; the clock, for every  *)
(* width of its halves; and the switches of threads, for any number of     *)
(* threads, registers and stack words.                                     *)
(*                                                                         *)
(* RingInv is what makes the promise of RingIsFifo inductive: until a race *)
(* or a full ring, whichever thread is between its read of the indices and *)
(* its stores holds the exact length in its register, so that the length a *)
(* callback starts from is never above the number of bytes waiting, and    *)
(* the count the driver polls never below it.                              *)
(*                                                                         *)
(* UptimeInv is the same for ScoredTimeTrue: until a reading is torn, each *)
(* is exactly the time of one of its halves, so that what has been         *)
(* measured lies before the reading under way.                             *)
(*                                                                         *)
(* CteInv says, for ContextKept, where every thread's words are: a thread  *)
(* that waits has its context right below its stack pointer, in its own    *)
(* stack; the one in the trap entry has it there once PushContext is done, *)
(* and in its registers and mepc before.  The stacks are disjoint, the     *)
(* handler writes below the context it was called with, so what the        *)
(* running thread does leaves the others' contexts alone.                  *)
(***************************************************************************)
EXTENDS AudioRing, Uptime, Cte, TLAPS

------------------------------------------------------------------------------
(* The audio device.                                                       *)
RingInv ==
  /\ AudioTypeOK
  /\ cpu = "store" => todo > 0
  /\ cb = "copy" <=> copying > 0
  /\ ~raced /\ ~filled =>
       /\ unplayed \in 0 .. SB_SIZE - 1
       /\ unplayed = LenOf(head, tail)
       /\ copying <= unplayed
       /\ CpuUpdating => cpu_len = unplayed
       /\ CbUpdating => cb_len = unplayed
       /\ cb \in {"out", "count"} => audio_len <= unplayed
       /\ cpu \in {"out", "wait", "store"} => unplayed <= reg_count

(* The next index, without the remainder.                                  *)
LEMMA NextIndex ==
  ASSUME NEW i \in 0 .. SB_SIZE - 1
  PROVE  Next1(i) = IF i = SB_SIZE - 1 THEN 0 ELSE i + 1
<1>. SB_SIZE \in Nat /\ SB_SIZE > 0
  BY AudioAssumption
<1>1. CASE i = SB_SIZE - 1
  <2>1. SB_SIZE % SB_SIZE = 0
    BY SMT
  <2>. QED BY <1>1, <2>1 DEF Next1
<1>2. CASE i # SB_SIZE - 1
  <2>1. i + 1 \in 0 .. SB_SIZE - 1
    BY <1>2
  <2>2. ASSUME NEW j \in 0 .. SB_SIZE - 1 PROVE j % SB_SIZE = j
    BY SMT
  <2>. QED BY <1>2, <2>1, <2>2 DEF Next1
<1>. QED BY <1>1, <1>2

(* The length is that of a ring: it grows by one with tail and shrinks by  *)
(* one with head, except at full and empty.                                *)
LEMMA RingLength ==
  ASSUME NEW h \in 0 .. SB_SIZE - 1, NEW t \in 0 .. SB_SIZE - 1
  PROVE  /\ LenOf(h, t) \in 0 .. SB_SIZE - 1
         /\ Next1(h) \in 0 .. SB_SIZE - 1
         /\ LenOf(h, t) + 1 < SB_SIZE => LenOf(h, Next1(t)) = LenOf(h, t) + 1
         /\ LenOf(h, t) > 0 => LenOf(Next1(h), t) = LenOf(h, t) - 1
BY AudioAssumption, NextIndex DEF LenOf

LEMMA MinIs ==
  ASSUME NEW a \in Nat, NEW b \in Nat
  PROVE  Min({a, b}) = IF a <= b THEN a ELSE b
BY DEF Min

------------------------------------------------------------------------------
LEMMA InitInv == AudioInit => RingInv
<1>. SUFFICES ASSUME AudioInit PROVE RingInv
  OBVIOUS
<1>1. 0 \in 0 .. SB_SIZE - 1 /\ LenOf(0, 0) = 0
  BY AudioAssumption DEF LenOf
<1>2. {head, tail, audio_len, reg_count, cpu_len, cb_len} \subseteq 0 .. SB_SIZE - 1
  BY <1>1 DEF AudioInit
<1>3. todo \in Nat /\ copying \in 0 .. StreamLen /\ unplayed \in Int
  BY AudioAssumption DEF AudioInit
<1>4. raced \in BOOLEAN /\ filled \in BOOLEAN
  BY Zenon DEF AudioInit
<1>5. AudioTypeOK
  BY <1>2, <1>3, <1>4 DEF AudioInit, AudioTypeOK
<1>. QED BY <1>1, <1>5 DEF AudioInit, RingInv, CpuUpdating, CbUpdating

(* The steps that leave the ring alone: of the guest outside the ring, and *)
(* the stores of both threads.                                             *)
LEMMA GuestInv ==
  ASSUME RingInv, WriteInit \/ AmAudioCtrl \/ (\E k \in ChunkLens : AmAudioPlay(k)) \/ PlayWait
  PROVE  RingInv'
<1>. USE AudioAssumption
<1>1. CASE WriteInit
  BY <1>1 DEF WriteInit, RingInv, AudioTypeOK, CpuUpdating, CbUpdating, LenOf,
              cpu_vars, cb_vars, len_vars, history
<1>2. CASE AmAudioCtrl
  BY <1>2 DEF AmAudioCtrl, RingInv, AudioTypeOK, CpuUpdating, CbUpdating, LenOf,
              cpu_vars, cb_vars, len_vars, history
<1>3. ASSUME NEW k \in ChunkLens, AmAudioPlay(k) PROVE RingInv'
  BY <1>3 DEF AmAudioPlay, RingInv, AudioTypeOK, CpuUpdating, CbUpdating, LenOf,
              guest_vars, cb_vars, len_vars, history
<1>4. CASE PlayWait
  BY <1>4 DEF PlayWait, RingInv, AudioTypeOK, CpuUpdating, CbUpdating, LenOf,
              guest_vars, cb_vars, len_vars, history
<1>. QED BY <1>1, <1>2, <1>3, <1>4

LEMMA StoreLenInv ==
  ASSUME RingInv, CpuReadHead \/ CpuWriteLen \/ CpuWriteCount
  PROVE  RingInv'
<1>. USE AudioAssumption
<1>0. LenOf(head, tail) \in 0 .. SB_SIZE - 1
  BY RingLength DEF RingInv, AudioTypeOK
<1>1. CASE CpuReadHead
  BY <1>0, <1>1 DEF CpuReadHead, RingInv, AudioTypeOK, CpuUpdating, CbUpdating, LenOf,
              guest_vars, cb_vars, len_vars, history
<1>2. CASE CpuWriteLen
  BY <1>2 DEF CpuWriteLen, RingInv, AudioTypeOK, CpuUpdating, CbUpdating, LenOf,
              guest_vars, cb_vars, history
<1>3. CASE CpuWriteCount
  BY <1>3 DEF CpuWriteCount, RingInv, AudioTypeOK, CpuUpdating, CbUpdating, LenOf,
              guest_vars, cb_vars, history
<1>. QED BY <1>1, <1>2, <1>3

LEMMA PlayLenInv ==
  ASSUME RingInv, AudioCallback \/ CbReadTail \/ CbWriteLen \/ CbWriteCount
  PROVE  RingInv'
<1>. USE AudioAssumption
<1>0. LenOf(head, tail) \in 0 .. SB_SIZE - 1
  BY RingLength DEF RingInv, AudioTypeOK
<1>1. CASE AudioCallback
  <2>1. copying' \in 0 .. StreamLen /\ copying' > 0 /\ copying' <= audio_len
    BY <1>1, MinIs DEF AudioCallback, RingInv, AudioTypeOK
  <2>. QED BY <1>1, <2>1 DEF AudioCallback, RingInv, AudioTypeOK, CpuUpdating, CbUpdating,
              LenOf, guest_vars, cpu_vars, len_vars, history
<1>2. CASE CbReadTail
  BY <1>0, <1>2 DEF CbReadTail, RingInv, AudioTypeOK, CpuUpdating, CbUpdating, LenOf,
              guest_vars, cpu_vars, len_vars, history
<1>3. CASE CbWriteLen
  BY <1>3 DEF CbWriteLen, RingInv, AudioTypeOK, CpuUpdating, CbUpdating, LenOf,
              guest_vars, cpu_vars, history
<1>4. CASE CbWriteCount
  BY <1>4 DEF CbWriteCount, RingInv, AudioTypeOK, CpuUpdating, CbUpdating, LenOf,
              guest_vars, cpu_vars, history
<1>. QED BY <1>1, <1>2, <1>3, <1>4

(* A byte is stored: the ring grows by one, or is full and no FIFO any     *)
(* more; the callback is not between its read of tail and its stores, or   *)
(* that is a race.                                                         *)
LEMMA SbufStoreInv == RingInv /\ SbufStore => RingInv'
<1>. SUFFICES ASSUME RingInv, SbufStore PROVE RingInv'
  OBVIOUS
<1>. USE AudioAssumption
<1>1. /\ LenOf(head, tail) \in 0 .. SB_SIZE - 1
      /\ tail' \in 0 .. SB_SIZE - 1
      /\ LenOf(head, tail) + 1 < SB_SIZE => LenOf(head', tail') = LenOf(head, tail) + 1
  BY RingLength DEF RingInv, AudioTypeOK, SbufStore, cb_vars
<1>2. unplayed' \in Int /\ raced' \in BOOLEAN /\ filled' \in BOOLEAN
  BY DEF RingInv, AudioTypeOK, SbufStore, Count, CbUpdating
<1>3. AudioTypeOK' /\ cpu' = "update" /\ (cb' = "copy" <=> copying' > 0)
  BY <1>1, <1>2 DEF RingInv, AudioTypeOK, SbufStore, guest_vars, cb_vars, len_vars
<1>4. ASSUME ~raced', ~filled'
      PROVE  /\ ~raced /\ ~filled /\ ~CbUpdating
             /\ unplayed' = unplayed + 1 /\ unplayed + 1 # SB_SIZE
  BY <1>4 DEF SbufStore, Count
<1>5. ASSUME ~raced', ~filled'
      PROVE  /\ unplayed' \in 0 .. SB_SIZE - 1
             /\ unplayed' = LenOf(head, tail)'
             /\ copying' <= unplayed'
             /\ ~CbUpdating'
             /\ cb' \in {"out", "count"} => audio_len' <= unplayed'
  BY <1>1, <1>4, <1>5 DEF RingInv, AudioTypeOK, SbufStore, CbUpdating, cb_vars, len_vars
<1>. QED BY <1>3, <1>5 DEF RingInv, CpuUpdating

(* A byte is played: it was there, because the callback's length was.      *)
LEMMA CallbackCopyInv == RingInv /\ CallbackCopy => RingInv'
<1>. SUFFICES ASSUME RingInv, CallbackCopy PROVE RingInv'
  OBVIOUS
<1>. USE AudioAssumption
<1>1. /\ LenOf(head, tail) \in 0 .. SB_SIZE - 1
      /\ head' \in 0 .. SB_SIZE - 1
      /\ LenOf(head, tail) > 0 => LenOf(head', tail') = LenOf(head, tail) - 1
  BY RingLength DEF RingInv, AudioTypeOK, CallbackCopy, cpu_vars
<1>2. unplayed' \in Int /\ raced' \in BOOLEAN /\ filled' \in BOOLEAN
  BY DEF RingInv, AudioTypeOK, CallbackCopy, Count, CpuUpdating
<1>3. /\ AudioTypeOK' /\ (cpu' = "store" => todo' > 0)
      /\ cb' = "copy" <=> copying' > 0
      /\ cb' \in {"copy", "update"}
  BY <1>1, <1>2 DEF RingInv, AudioTypeOK, CallbackCopy, guest_vars, cpu_vars, len_vars
<1>4. ASSUME ~raced', ~filled'
      PROVE  ~raced /\ ~filled /\ ~CpuUpdating /\ unplayed' = unplayed - 1
  BY <1>4 DEF CallbackCopy, Count, RingInv, AudioTypeOK
<1>5. ASSUME ~raced', ~filled'
      PROVE  /\ unplayed' \in 0 .. SB_SIZE - 1
             /\ unplayed' = LenOf(head, tail)'
             /\ copying' <= unplayed'
             /\ ~CpuUpdating'
             /\ cpu' \in {"out", "wait", "store"} => unplayed' <= reg_count'
  BY <1>1, <1>4, <1>5 DEF RingInv, AudioTypeOK, CallbackCopy, CpuUpdating, cpu_vars, len_vars
<1>. QED BY <1>3, <1>5 DEF RingInv, CbUpdating

THEOREM RingInductive == AudioSpec => []RingInv
<1>1. AudioInit => RingInv
  BY InitInv
<1>2. RingInv /\ [AudioNext]_vars => RingInv'
  <2>. SUFFICES ASSUME RingInv, [AudioNext]_vars PROVE RingInv'
    OBVIOUS
  <2>1. CASE WriteInit \/ AmAudioCtrl \/ (\E k \in ChunkLens : AmAudioPlay(k)) \/ PlayWait
    BY <2>1, GuestInv
  <2>2. CASE CpuReadHead \/ CpuWriteLen \/ CpuWriteCount
    BY <2>2, StoreLenInv
  <2>3. CASE AudioCallback \/ CbReadTail \/ CbWriteLen \/ CbWriteCount
    BY <2>3, PlayLenInv
  <2>4. CASE SbufStore
    BY <2>4, SbufStoreInv
  <2>5. CASE CallbackCopy
    BY <2>5, CallbackCopyInv
  <2>6. CASE UNCHANGED vars
    BY <2>6 DEF RingInv, AudioTypeOK, CpuUpdating, CbUpdating, LenOf, vars,
                guest_vars, cpu_vars, cb_vars, len_vars, history
  <2>. QED BY <2>1, <2>2, <2>3, <2>4, <2>5, <2>6 DEF AudioNext, CpuStep, CbStep
<1>. QED BY <1>1, <1>2, PTL DEF AudioSpec

(* Types: the lengths stay below the size of the ring in every             *)
(* interleaving, races and all.                                            *)
THEOREM AudioTypeCorrect == AudioSpec => []AudioTypeOK
<1>1. RingInv => AudioTypeOK
  BY DEF RingInv
<1>. QED BY <1>1, RingInductive, PTL

(* Until a race or a full ring nothing is played that was not stored and   *)
(* nothing is overwritten that was not played.                             *)
THEOREM RingFifoCorrect == AudioSpec => []RingIsFifo
<1>1. RingInv => RingIsFifo
  BY AudioAssumption DEF RingInv, RingIsFifo
<1>. QED BY <1>1, RingInductive, PTL

(* Until then the count the driver polls is never too low.                 *)
THEOREM CountNeverLow == AudioSpec => []CountConservative
<1>1. RingInv => CountConservative
  BY DEF RingInv, CountConservative
<1>. QED BY <1>1, RingInductive, PTL

------------------------------------------------------------------------------
(* The clock.                                                              *)
(* Between its halves a reading holds the one it took, at a time h.        *)
UptimeTypeOK ==
  /\ lowFirst \in BOOLEAN
  /\ now \in 0 .. MaxTime
  /\ \E t \in Nat : rtc = Halves(t)
  /\ half = << >> \/ \E h \in 0 .. now : half = <<Halves(h)[FirstHalf], h>>
  /\ stage \in Reading \union {"bench", "end"}
  /\ boot_time \in Nat /\ t0 \in Nat /\ res_usec \in Nat /\ score_time \in Nat
  /\ torn \in BOOLEAN
  /\ started \in Nat \X Nat /\ inner \in Int /\ outer \in Int

(* The earliest time the reading under way may give.                       *)
Since == IF half = << >> THEN now ELSE half[2]

(* Until a reading is torn: what main did so far lies before the reading   *)
(* under way, and a running benchmark was started between the two halves   *)
(* of its reading.                                                         *)
Ordered ==
  /\ stage = "boot" => outer = 0 /\ score_time = 0 /\ inner = 0
  /\ stage # "boot" => boot_time <= Since
  /\ stage # "done" => outer <= Since
  /\ stage = "done" =>
       /\ outer <= started[1]
       /\ started[1] <= boot_time + res_usec
       /\ boot_time + res_usec <= started[2]
       /\ started[2] <= Since
  /\ inner <= score_time /\ score_time <= outer

UptimeInv == UptimeTypeOK /\ (~ torn => Ordered)

------------------------------------------------------------------------------
LEMMA DivMod ==
  ASSUME NEW t \in Nat
  PROVE  /\ t % LowMod \in Nat /\ t \div LowMod \in Nat
         /\ (t % LowMod) + (t \div LowMod) * LowMod = t
BY UptimeAssumption, SMT

LEMMA Below ==
  ASSUME NEW t \in Nat, t <= MaxTime
  PROVE  t % Wrap64 = t
<1>1. Wrap64 \in Nat /\ t < Wrap64
  BY UptimeAssumption DEF Wrap64
<1> HIDE DEF Wrap64
<1> QED
  BY <1>1, SMT

LEMMA RemainderIsNat ==
  ASSUME NEW t \in Int
  PROVE  t % Wrap64 \in Nat
<1>1. Wrap64 \in Nat /\ Wrap64 > 0
  BY UptimeAssumption, SMT DEF Wrap64
<1> HIDE DEF Wrap64
<1> QED
  BY <1>1, SMT

(* The second half of a reading: a number, which is the time of one of the *)
(* two halves unless the reading is torn.                                  *)
LEMMA ReadingIs ==
  ASSUME UptimeTypeOK, NEW s \in Reading, ReadSecond(s)
  PROVE  /\ half[2] \in 0 .. now /\ Since = half[2]
         /\ cur_time \in Nat
         /\ ~ torn' => ~ torn /\ cur_time \in {half[2], now}
         /\ now' = now /\ half' = << >> /\ torn' \in BOOLEAN
         /\ lowFirst' = lowFirst
         /\ \E t \in Nat : rtc' = Halves(t)
<1>1. PICK h \in 0 .. now : half = <<Halves(h)[FirstHalf], h>>
  BY DEF UptimeTypeOK, ReadSecond
<1>2. now \in Nat /\ h \in Nat /\ h <= now /\ half[1] = Halves(h)[FirstHalf] /\ half[2] = h
  BY <1>1 DEF UptimeTypeOK
<1>3. rtc' = Halves(now) /\ now' = now /\ half' = << >> /\ lowFirst' = lowFirst
  BY DEF ReadSecond, inl, rtc_io_handler
<1>4. torn' = (torn \/ (h \div LowMod) # (now \div LowMod))
  BY <1>2 DEF ReadSecond
<1>5. /\ Halves(h)[0] = h % LowMod /\ Halves(h)[4] = h \div LowMod
      /\ Halves(now)[0] = now % LowMod /\ Halves(now)[4] = now \div LowMod
  BY DEF Halves
<1>6. /\ h % LowMod \in Nat /\ h \div LowMod \in Nat
      /\ (h % LowMod) + (h \div LowMod) * LowMod = h
      /\ now % LowMod \in Nat /\ now \div LowMod \in Nat
      /\ (now % LowMod) + (now \div LowMod) * LowMod = now
  BY <1>2, DivMod
<1>7. CASE lowFirst
  <2>1. cur_time = (h % LowMod) + (now \div LowMod) * LowMod
    BY <1>2, <1>3, <1>5, <1>7 DEF cur_time, FirstHalf
  <2>2. cur_time \in Nat
    BY <2>1, <1>6, UptimeAssumption, SMT
  <2>3. h \div LowMod = now \div LowMod => cur_time = h
    BY <2>1, <1>6
  <2> QED
    BY <2>2, <2>3, <1>2, <1>3, <1>4 DEF Since, ReadSecond, UptimeTypeOK
<1>8. CASE ~ lowFirst
  <2>1. cur_time = (now % LowMod) + (h \div LowMod) * LowMod
    BY <1>2, <1>3, <1>5, <1>8 DEF cur_time, FirstHalf
  <2>2. cur_time \in Nat
    BY <2>1, <1>6, UptimeAssumption, SMT
  <2>3. h \div LowMod = now \div LowMod => cur_time = now
    BY <2>1, <1>6
  <2> QED
    BY <2>2, <2>3, <1>2, <1>3, <1>4 DEF Since, ReadSecond, UptimeTypeOK
<1> QED
  BY <1>7, <1>8

(* The uptime of a reading that is not torn.                               *)
LEMMA UptimeIs ==
  ASSUME UptimeInv, NEW s \in Reading \ {"boot"}, ReadSecond(s)
  PROVE  /\ uptime \in Nat
         /\ ~ torn' => /\ boot_time + uptime \in {half[2], now}
                       /\ uptime <= now
<1>1. /\ half[2] \in 0 .. now /\ Since = half[2] /\ cur_time \in Nat
      /\ ~ torn' => ~ torn /\ cur_time \in {half[2], now}
  BY ReadingIs DEF UptimeInv
<1>2. boot_time \in Nat /\ now \in Nat /\ now <= MaxTime
  BY UptimeAssumption DEF UptimeInv, UptimeTypeOK
<1>3. uptime \in Nat
  BY <1>1, <1>2, RemainderIsNat DEF uptime
<1>4. ASSUME ~ torn'
      PROVE  boot_time + uptime \in {half[2], now} /\ uptime <= now
  <2>1. boot_time <= half[2]
    BY <1>1, <1>4 DEF UptimeInv, Ordered, ReadSecond
  <2>2. cur_time - boot_time \in Nat /\ cur_time - boot_time <= MaxTime
    BY <1>1, <1>2, <1>4, <2>1, UptimeAssumption
  <2>3. uptime = cur_time - boot_time
    BY <2>2, Below DEF uptime
  <2> QED
    BY <1>1, <1>2, <1>4, <2>2, <2>3
<1> QED
  BY <1>3, <1>4

LEMMA UptimeStart == UptimeInit => UptimeInv
<1> SUFFICES ASSUME UptimeInit PROVE UptimeInv
  OBVIOUS
<1>1. 0 \in 0 .. MaxTime /\ 0 \in Nat /\ <<0, 0>> \in Nat \X Nat
  BY UptimeAssumption
<1>2. UptimeTypeOK
  <2>1. \E t \in Nat : rtc = Halves(t)
    BY DEF UptimeInit
  <2>2. half = << >> /\ stage = "boot" /\ started = <<0, 0>>
    BY DEF UptimeInit
  <2>3. /\ lowFirst \in BOOLEAN /\ torn \in BOOLEAN /\ now = 0 /\ boot_time = 0 /\ t0 = 0
        /\ res_usec = 0 /\ score_time = 0 /\ inner = 0 /\ outer = 0
    BY DEF UptimeInit
  <2> QED
    BY <1>1, <2>1, <2>2, <2>3 DEF UptimeTypeOK, Reading
<1>3. Ordered
  BY DEF UptimeInit, Ordered, Since
<1> QED
  BY <1>2, <1>3 DEF UptimeInv

LEMMA TickKeeps ==
  ASSUME UptimeInv, NEW d \in Nat, Tick(d)
  PROVE  UptimeInv'
<1>1. UptimeTypeOK'
  BY UptimeAssumption DEF UptimeInv, UptimeTypeOK, Tick, time_vars, time_history,
     FirstHalf
<1>2. Since <= Since' /\ Since \in Nat /\ Since' \in Nat
  BY UptimeAssumption DEF UptimeInv, UptimeTypeOK, Since, Tick
<1>3. ~ torn' => Ordered'
  BY <1>2 DEF UptimeInv, UptimeTypeOK, Ordered, Tick, time_vars, time_history
<1> QED
  BY <1>1, <1>3 DEF UptimeInv

LEMMA ReadFirstKeeps ==
  ASSUME UptimeInv, ReadFirst
  PROVE  UptimeInv'
<1>1. rtc' = Halves(now) /\ now' = now /\ half' = <<Halves(now)[FirstHalf], now>>
  BY DEF ReadFirst, inl, rtc_io_handler
<1>2. now \in 0 .. now /\ now \in Nat
  BY UptimeAssumption DEF UptimeInv, UptimeTypeOK
<1>3. UptimeTypeOK'
  BY <1>1, <1>2 DEF UptimeInv, UptimeTypeOK, ReadFirst, time_vars, time_history,
     FirstHalf
<1>4. Since' = Since
  BY <1>1 DEF Since, ReadFirst
<1>5. ~ torn' => Ordered'
  BY <1>4 DEF UptimeInv, Ordered, ReadFirst, time_vars, time_history
<1> QED
  BY <1>3, <1>5 DEF UptimeInv

LEMMA InitKeeps ==
  ASSUME UptimeInv, __am_timer_init
  PROVE  UptimeInv'
<1>1. /\ half[2] \in 0 .. now /\ cur_time \in Nat
      /\ ~ torn' => ~ torn /\ cur_time \in {half[2], now}
      /\ now' = now /\ half' = << >> /\ torn' \in BOOLEAN /\ lowFirst' = lowFirst
      /\ \E t \in Nat : rtc' = Halves(t)
  BY ReadingIs DEF UptimeInv, __am_timer_init, Reading
<1>2. now \in Nat
  BY UptimeAssumption DEF UptimeInv, UptimeTypeOK
<1>3. UptimeTypeOK'
  BY <1>1 DEF UptimeInv, UptimeTypeOK, __am_timer_init, Reading
<1>4. ~ torn' => Ordered'
  BY <1>1, <1>2 DEF UptimeInv, UptimeTypeOK, Ordered, Since, __am_timer_init,
     ReadSecond
<1> QED
  BY <1>3, <1>4 DEF UptimeInv

LEMMA MainStartKeeps ==
  ASSUME UptimeInv, MainStart
  PROVE  UptimeInv'
<1>1. /\ half[2] \in 0 .. now /\ Since = half[2]
      /\ ~ torn' => ~ torn
      /\ now' = now /\ half' = << >> /\ torn' \in BOOLEAN /\ lowFirst' = lowFirst
      /\ \E t \in Nat : rtc' = Halves(t)
  BY ReadingIs DEF UptimeInv, MainStart, Reading
<1>2. now \in Nat /\ uptime \in Nat
  BY UptimeIs, UptimeAssumption DEF UptimeInv, UptimeTypeOK, MainStart, Reading
<1>3. UptimeTypeOK'
  BY <1>1, <1>2 DEF UptimeInv, UptimeTypeOK, MainStart
<1>4. ~ torn' => Ordered'
  BY <1>1, <1>2 DEF UptimeInv, UptimeTypeOK, Ordered, Since, MainStart, ReadSecond
<1> QED
  BY <1>3, <1>4 DEF UptimeInv

LEMMA BenchLoopKeeps ==
  ASSUME UptimeInv, NEW next \in {"bench", "prepare", "total"}, BenchLoop(next)
  PROVE  UptimeInv'
<1>1. UptimeTypeOK'
  BY DEF UptimeInv, UptimeTypeOK, BenchLoop, clock_vars, time_vars, time_history,
     Reading, FirstHalf
<1>2. ~ torn' => Ordered'
  BY DEF UptimeInv, Ordered, Since, BenchLoop, clock_vars, time_vars, time_history
<1> QED
  BY <1>1, <1>2 DEF UptimeInv

(* The benchmark is started between the halves of this reading.            *)
LEMMA PrepareKeeps ==
  ASSUME UptimeInv, bench_prepare
  PROVE  UptimeInv'
<1>1. /\ half[2] \in 0 .. now /\ Since = half[2]
      /\ ~ torn' => ~ torn
      /\ now' = now /\ half' = << >> /\ torn' \in BOOLEAN /\ lowFirst' = lowFirst
      /\ \E t \in Nat : rtc' = Halves(t)
  BY ReadingIs DEF UptimeInv, bench_prepare, Reading
<1>2. /\ now \in Nat /\ uptime \in Nat
      /\ ~ torn' => boot_time + uptime \in {half[2], now}
  BY UptimeIs, UptimeAssumption DEF UptimeInv, UptimeTypeOK, bench_prepare, Reading
<1>3. UptimeTypeOK'
  BY <1>1, <1>2 DEF UptimeInv, UptimeTypeOK, bench_prepare, Reading
<1>4. started'[1] = half[2] /\ started'[2] = now
  BY DEF bench_prepare
<1>5. ~ torn' => Ordered'
  BY <1>1, <1>2, <1>4 DEF UptimeInv, UptimeTypeOK, Ordered, Since, bench_prepare,
     ReadSecond
<1> QED
  BY <1>3, <1>5 DEF UptimeInv

(* What is added to the time scored is between what is added to the two    *)
(* bounds, and nothing wraps, as all of it lies before now.                *)
LEMMA DoneKeeps ==
  ASSUME UptimeInv, bench_done
  PROVE  UptimeInv'
<1>1. /\ half[2] \in 0 .. now /\ Since = half[2]
      /\ ~ torn' => ~ torn
      /\ now' = now /\ half' = << >> /\ torn' \in BOOLEAN /\ lowFirst' = lowFirst
      /\ \E t \in Nat : rtc' = Halves(t)
  BY ReadingIs DEF UptimeInv, bench_done, Reading
<1>2. /\ uptime \in Nat
      /\ ~ torn' => boot_time + uptime \in {half[2], now} /\ uptime <= now
  BY UptimeIs DEF UptimeInv, bench_done, Reading
<1>3. /\ now \in Nat /\ now <= MaxTime /\ MaxTime \in Nat
      /\ boot_time \in Nat /\ res_usec \in Nat /\ score_time \in Nat
      /\ started[1] \in Nat /\ started[2] \in Nat /\ inner \in Int /\ outer \in Int
      /\ half[2] \in Nat /\ half[2] <= now
  BY <1>1, UptimeAssumption DEF UptimeInv, UptimeTypeOK
<1>4. /\ score_time' = (score_time + elapsed) % Wrap64
      /\ inner' = inner + half[2] - started[2]
      /\ outer' = outer + now - started[1]
  BY DEF bench_done
<1>5. elapsed \in Nat
  BY <1>2, <1>3, RemainderIsNat DEF elapsed
<1>6. score_time' \in Nat
  BY <1>3, <1>4, <1>5, RemainderIsNat
<1>7. UptimeTypeOK'
  <2>1. inner' \in Int /\ outer' \in Int
    BY <1>3, <1>4
  <2> QED
    BY <1>1, <1>6, <2>1 DEF UptimeInv, UptimeTypeOK, bench_done, Reading
<1>8. ASSUME ~ torn'
      PROVE  Ordered'
  <2>1. /\ outer <= started[1] /\ started[1] <= boot_time + res_usec
        /\ boot_time + res_usec <= started[2] /\ started[2] <= half[2]
        /\ boot_time <= half[2] /\ inner <= score_time /\ score_time <= outer
    BY <1>1, <1>8 DEF UptimeInv, Ordered, bench_done, ReadSecond
  <2>2. uptime - res_usec \in Nat /\ uptime - res_usec <= MaxTime
    BY <1>1, <1>2, <1>3, <1>8, <2>1
  <2>3. elapsed = uptime - res_usec
    BY <2>2, Below DEF elapsed
  <2>4. half[2] - started[2] <= elapsed /\ elapsed <= now - started[1]
    BY <1>1, <1>2, <1>3, <1>8, <2>1, <2>3, SMTT(30)
  <2>5. score_time + elapsed \in Nat /\ score_time + elapsed <= MaxTime
    BY <1>1, <1>3, <1>5, <2>1, <2>4
  <2>6. score_time' = score_time + elapsed
    BY <1>4, <2>5, Below
  <2>7. inner' <= score_time' /\ score_time' <= outer' /\ outer' <= now
    BY <1>3, <1>4, <1>5, <2>1, <2>4, <2>6
  <2> QED
    BY <1>1, <1>3, <2>1, <2>7 DEF Ordered, Since, bench_done
<1> QED
  BY <1>7, <1>8 DEF UptimeInv

LEMMA TotalKeeps ==
  ASSUME UptimeInv, BenchTotal
  PROVE  UptimeInv'
<1>1. /\ half[2] \in 0 .. now /\ Since = half[2]
      /\ ~ torn' => ~ torn
      /\ now' = now /\ half' = << >> /\ torn' \in BOOLEAN /\ lowFirst' = lowFirst
      /\ \E t \in Nat : rtc' = Halves(t)
  BY ReadingIs DEF UptimeInv, BenchTotal, Reading
<1>2. now \in Nat /\ outer \in Int /\ boot_time \in Nat
  BY UptimeAssumption DEF UptimeInv, UptimeTypeOK
<1>3. UptimeTypeOK'
  BY <1>1 DEF UptimeInv, UptimeTypeOK, BenchTotal, time_vars
<1>4. ~ torn' => Ordered'
  BY <1>1, <1>2 DEF UptimeInv, Ordered, Since, BenchTotal, ReadSecond, time_vars
<1> QED
  BY <1>3, <1>4 DEF UptimeInv

LEMMA UptimeStutter == UptimeInv /\ UNCHANGED uptime_vars => UptimeInv'
BY DEF UptimeInv, UptimeTypeOK, Ordered, Since, FirstHalf, uptime_vars,
   clock_vars, time_vars, time_history

(* UptimeInv holds of every state, whatever the width of a half, however   *)
(* long the host's clock runs within 64 bits.                              *)
THEOREM UptimeInvariant == UptimeSpec => []UptimeInv
<1>1. UptimeInit => UptimeInv
  BY UptimeStart
<1>2. UptimeInv /\ [UptimeNext]_uptime_vars => UptimeInv'
  BY TickKeeps, ReadFirstKeeps, InitKeeps, MainStartKeeps, BenchLoopKeeps,
     PrepareKeeps, DoneKeeps, TotalKeeps, UptimeStutter DEF UptimeNext
<1> QED
  BY <1>1, <1>2, PTL DEF UptimeSpec

(* The time microbench scores is the time its benchmarks took, unless a    *)
(* reading of the clock was torn.                                          *)
THEOREM UptimeScoredTimeTrue == UptimeSpec => []ScoredTimeTrue
<1>1. UptimeInv => ScoredTimeTrue
  BY DEF UptimeInv, Ordered, ScoredTimeTrue
<1> QED
  BY <1>1, UptimeInvariant, PTL

------------------------------------------------------------------------------
(* The switches of threads.                                                *)
Turn == [pc    : Int,
         regs  : {<< >>} \cup [{SP, A0} -> Int] \cup [1 .. NR_REGS - 1 -> Int],
         stack : {<< >>} \cup [1 .. 1 -> Int]]

CteType ==
  /\ gpr \in [1 .. NR_REGS - 1 -> Int]
  /\ pc \in Int /\ mstatus \in Int /\ mepc \in Int /\ mcause \in Int /\ mtvec \in Int
  /\ mem \in [0 .. StackEnd(LastThread) - 1 -> Int]
  /\ user_handler \in {"NULL", "schedule"}
  /\ where \in {"user", "push", "handle", "pop"}
  /\ pcb \in [Threads -> Int] /\ cur \in Threads
  /\ kept \in [Threads -> Turn]

(* With the stack pointer sp thread t finds its stack as it left it.       *)
AtStack(t, sp) ==
  /\ sp \in {StackEnd(t) - 1, StackEnd(t)}
  /\ kept[t].stack # << >> =>
       sp = StackEnd(t) - 1 /\ mem[sp] = kept[t].stack[1]

(* The context at c is the one thread t goes on from.                      *)
SavedAt(t, c) ==
  /\ AtStack(t, c + CONTEXT_SIZE)
  /\ mem[c + OFFSET_EPC] + 4 = kept[t].pc
  /\ \A r \in DOMAIN kept[t].regs :
       kept[t].regs[r] = IF r = SP THEN c + CONTEXT_SIZE ELSE mem[c + r]

RunningInv ==
  /\ where \in {"user", "push"} => AtStack(cur, gpr[SP])
  /\ where = "push" => mepc + 4 = kept[cur].pc /\ kept[cur].regs = gpr
  /\ where = "handle" => gpr[SP] = gpr[A0] /\ SavedAt(cur, gpr[A0])
  /\ where = "pop" => SavedAt(cur, gpr[A0])

WaitingInv ==
  \A t \in Threads \ {cur} : pcb[t] # 0 => SavedAt(t, pcb[t])

CteInv == CteType /\ RunningInv /\ WaitingInv /\ ContextKept

------------------------------------------------------------------------------
(* The stacks are ordered like their threads, one after the other.         *)
LEMMA ProductBound ==
  ASSUME NEW a \in Nat, NEW b \in Nat, a >= 1
  PROVE  a * b >= b
<1>1. PICK k \in Nat : a = k + 1
  BY SMT
<1>2. a * b = k * b + b /\ k * b \in Nat
  BY <1>1, SMT
<1> QED
  BY <1>2, SMT

LEMMA StackOrder ==
  ASSUME NEW t \in Nat, NEW u \in Nat, t < u
  PROVE  StackEnd(t) + StackWords <= StackEnd(u)
<1>1. PICK k \in Nat : k >= 1 /\ u = t + k
  <2>1. u - t \in Nat /\ u - t >= 1 /\ u = t + (u - t)
    BY SMT
  <2> QED
    BY <2>1
<1>2. k * StackWords >= StackWords
  BY <1>1, ProductBound, CteAssumption
<1>3. StackWords \in Nat
  BY CteAssumption
<1>4. (u + 1) * StackWords = (t + 1) * StackWords + k * StackWords
  BY <1>1, <1>3, SMT
<1>5. (u + 1) * StackWords \in Int /\ (t + 1) * StackWords \in Int /\ k * StackWords \in Int
  BY <1>1, <1>3, SMT
<1> QED
  BY <1>2, <1>3, <1>4, <1>5, SMT DEF StackEnd

LEMMA Last ==
  LastThread \in Threads /\ \A u \in Threads : u <= LastThread
BY CteAssumption DEF LastThread

(* What the rest needs to know of the stacks.                              *)
LEMMA Stacks ==
  /\ StackWords \in Int /\ NR_REGS \in Int /\ A0 \in 3 .. NR_REGS - 1
  /\ StackWords > NR_REGS + 4 /\ NR_REGS > 3
  /\ LastThread \in Threads /\ 0 \in Threads
  /\ StackEnd(LastThread) \in Int
  /\ \A t \in Threads :
       /\ StackEnd(t) \in Int
       /\ StackWords <= StackEnd(t) /\ StackEnd(t) <= StackEnd(LastThread)
  /\ \A t, u \in Threads :
       t # u => \/ StackEnd(t) + StackWords <= StackEnd(u)
                \/ StackEnd(u) + StackWords <= StackEnd(t)
<1>1. StackWords \in Nat /\ NR_REGS \in Nat /\ A0 \in 3 .. NR_REGS - 1
      /\ StackWords > NR_REGS + 4 /\ 0 \in Threads /\ Threads \subseteq Nat
  BY CteAssumption
<1>2. NR_REGS > 3
  BY <1>1, SMT
<1>3. ASSUME NEW t \in Threads
      PROVE  StackEnd(t) \in Int /\ StackWords <= StackEnd(t)
  <2>1. t + 1 \in Nat /\ t + 1 >= 1
    BY <1>1, SMT
  <2>2. (t + 1) * StackWords >= StackWords
    BY <2>1, <1>1, ProductBound
  <2>3. (t + 1) * StackWords \in Int
    BY <2>1, <1>1, SMT
  <2> QED
    BY <2>2, <2>3 DEF StackEnd
<1>4. ASSUME NEW t \in Threads
      PROVE  StackEnd(t) <= StackEnd(LastThread)
  <2>1. t \in Nat /\ LastThread \in Threads /\ LastThread \in Nat /\ t <= LastThread
    BY <1>1, Last
  <2>2. CASE t = LastThread
    BY <2>2, <2>1, <1>3, SMT
  <2>3. CASE t # LastThread
    <3>1. t < LastThread
      BY <2>1, <2>3, SMT
    <3>2. StackEnd(t) + StackWords <= StackEnd(LastThread)
      BY <3>1, <2>1, StackOrder
    <3> QED
      BY <3>2, <2>1, <1>1, <1>3, SMT
  <2> QED
    BY <2>2, <2>3
<1>5. ASSUME NEW t \in Threads, NEW u \in Threads, t # u
      PROVE  \/ StackEnd(t) + StackWords <= StackEnd(u)
             \/ StackEnd(u) + StackWords <= StackEnd(t)
  <2>1. t \in Nat /\ u \in Nat
    BY <1>1
  <2>2. t < u \/ u < t
    BY <2>1, <1>5, SMT
  <2> QED
    BY <2>1, <2>2, StackOrder
<1> QED
  BY <1>1, <1>2, <1>3, <1>4, <1>5, Last

------------------------------------------------------------------------------
(* What a turn looks like.                                                 *)
LEMMA TurnShape ==
  ASSUME NEW k \in Turn
  PROVE  /\ k.pc \in Int
         /\ DOMAIN k.regs \subseteq 1 .. NR_REGS - 1
         /\ \A r \in DOMAIN k.regs : k.regs[r] \in Int
         /\ k.stack # << >> => k.stack[1] \in Int
<1>1. {SP, A0} \subseteq 1 .. NR_REGS - 1
  BY Stacks, SMT DEF SP
<1>2. /\ k.pc \in Int
      /\ k.regs \in {<< >>} \cup [{SP, A0} -> Int] \cup [1 .. NR_REGS - 1 -> Int]
      /\ k.stack \in {<< >>} \cup [1 .. 1 -> Int]
  BY DEF Turn
<1>3. k.stack # << >> => k.stack[1] \in Int
  BY <1>2, SMT
<1>4. CASE k.regs = << >>
  BY <1>4, <1>2, <1>3, SMT
<1>5. CASE k.regs \in [{SP, A0} -> Int]
  BY <1>5, <1>1, <1>2, <1>3
<1>6. CASE k.regs \in [1 .. NR_REGS - 1 -> Int]
  BY <1>6, <1>2, <1>3
<1> QED
  BY <1>2, <1>4, <1>5, <1>6

LEMMA MakeTurn ==
  ASSUME NEW p \in Int, NEW g \in [1 .. NR_REGS - 1 -> Int],
         NEW s \in {<< >>} \cup [1 .. 1 -> Int]
  PROVE  [pc |-> p, regs |-> g, stack |-> s] \in Turn
BY DEF Turn

OwnStack(t) == StackEnd(t) - StackWords .. StackEnd(t) - 1

(* Thread t keeps its context as long as its stack is left alone, and one  *)
(* word below the context does not count.                                  *)
LEMMA SavedStays ==
  ASSUME CteType, NEW t \in Threads, NEW c \in Int, SavedAt(t, c),
         kept'[t] = kept[t],
         \A a \in c .. StackEnd(t) - 1 : mem'[a] = mem[a]
  PROVE  SavedAt(t, c)'
<1>1. kept[t] \in Turn
  BY DEF CteType
<1>2. DOMAIN kept[t].regs \subseteq 1 .. NR_REGS - 1
  BY <1>1, TurnShape
<1>3. c + CONTEXT_SIZE \in {StackEnd(t) - 1, StackEnd(t)}
  BY DEF SavedAt, AtStack
<1>4. StackEnd(t) \in Int /\ NR_REGS \in Int /\ NR_REGS > 3
  BY Stacks
<1>5. AtStack(t, c + CONTEXT_SIZE)'
  <2>1. ASSUME kept[t].stack # << >>
        PROVE  /\ c + CONTEXT_SIZE = StackEnd(t) - 1
               /\ mem'[c + CONTEXT_SIZE] = kept[t].stack[1]
    <3>1. c + CONTEXT_SIZE = StackEnd(t) - 1 /\ mem[c + CONTEXT_SIZE] = kept[t].stack[1]
      BY <2>1 DEF SavedAt, AtStack
    <3>2. c + CONTEXT_SIZE \in c .. StackEnd(t) - 1
      BY <3>1, <1>4, SMT DEF CONTEXT_SIZE
    <3> QED
      BY <3>1, <3>2
  <2> QED
    BY <1>3, <2>1 DEF AtStack
<1>6. mem'[c + OFFSET_EPC] + 4 = kept[t].pc
  <2>1. c + OFFSET_EPC \in c .. StackEnd(t) - 1
    BY <1>3, <1>4, SMT DEF OFFSET_EPC, CONTEXT_SIZE
  <2> QED
    BY <2>1 DEF SavedAt
<1>7. ASSUME NEW r \in DOMAIN kept[t].regs
      PROVE  kept[t].regs[r] = IF r = SP THEN c + CONTEXT_SIZE ELSE mem'[c + r]
  <2>1. r \in 1 .. NR_REGS - 1
    BY <1>2
  <2>2. c + r \in c .. StackEnd(t) - 1
    BY <2>1, <1>3, <1>4, SMT DEF CONTEXT_SIZE
  <2>3. mem'[c + r] = mem[c + r]
    BY <2>2
  <2> QED
    BY <2>3 DEF SavedAt
<1> QED
  BY <1>5, <1>6, <1>7 DEF SavedAt

(* A saved context lies in its thread's stack, with room below it.         *)
LEMMA SavedPlace ==
  ASSUME NEW t \in Threads, NEW c \in Int, c + CONTEXT_SIZE \in {StackEnd(t) - 1, StackEnd(t)}
  PROVE  /\ c - 1 \in OwnStack(t)
         /\ \A a \in c .. StackEnd(t) - 1 : a \in OwnStack(t)
         /\ \A a \in c .. c + CONTEXT_SIZE - 1 : a \in OwnStack(t)
BY Stacks, SMT DEF OwnStack, CONTEXT_SIZE

LEMMA OwnInMemory ==
  ASSUME NEW t \in Threads
  PROVE  OwnStack(t) \subseteq 0 .. StackEnd(LastThread) - 1
BY Stacks, SMT DEF OwnStack

LEMMA OwnDisjoint ==
  ASSUME NEW t \in Threads, NEW u \in Threads, t # u, NEW a \in OwnStack(t)
  PROVE  a \notin OwnStack(u)
BY Stacks, SMT DEF OwnStack

(* What the running thread does in its own stack leaves the others waiting *)
(* where they were.                                                        *)
LEMMA WaitingStays ==
  ASSUME CteType, WaitingInv, NEW me \in Threads,
         NEW t \in Threads, t # me, t # cur, pcb[t] # 0,
         pcb'[t] = pcb[t], kept'[t] = kept[t],
         \A a \in (DOMAIN mem) \ OwnStack(me) : mem'[a] = mem[a]
  PROVE  SavedAt(t, pcb[t])'
<1>0. PICK c \in Int : c = pcb[t]
  BY DEF CteType
<1>1. SavedAt(t, c)
  BY <1>0 DEF WaitingInv
<1>2. c + CONTEXT_SIZE \in {StackEnd(t) - 1, StackEnd(t)}
  BY <1>1 DEF SavedAt, AtStack
<1>3. ASSUME NEW a \in c .. StackEnd(t) - 1
      PROVE  mem'[a] = mem[a]
  <2>1. a \in OwnStack(t)
    BY <1>2, SavedPlace
  <2>2. a \in DOMAIN mem
    BY <2>1, OwnInMemory DEF CteType
  <2>3. a \notin OwnStack(me)
    BY <2>1, OwnDisjoint
  <2> QED
    BY <2>2, <2>3
<1>4. \A a \in c .. StackEnd(t) - 1 : mem'[a] = mem[a]
  BY <1>3
<1>5. SavedAt(t, c)'
  BY <1>1, <1>4, SavedStays
<1>6. pcb'[t] = c
  BY <1>0
<1> QED
  BY <1>5, <1>6 DEF SavedAt, AtStack

------------------------------------------------------------------------------
LEMMA CteStartInv == CteStart => CteInv
<1> SUFFICES ASSUME CteStart
             PROVE  CteInv
  OBVIOUS
<1>1. 0 \in Threads /\ StackEnd(0) \in Int /\ StackEnd(LastThread) \in Int /\ NR_REGS \in Int
      /\ SP \in 1 .. NR_REGS - 1
  BY Stacks, SMT DEF SP
<1>2. Junk \in Int
  BY CteAssumption
<1>3. CteType
  <2>1. gpr \in [1 .. NR_REGS - 1 -> Int]
    BY <1>1 DEF CteStart
  <2>2. pc \in Int /\ mstatus \in Int /\ mepc \in Int /\ mcause \in Int /\ mtvec \in Int
    BY <1>1, SMT DEF CteStart, Entry
  <2>3. mem \in [0 .. StackEnd(LastThread) - 1 -> Int]
    BY <1>2 DEF CteStart
  <2>4. pcb \in [Threads -> Int] /\ cur \in Threads
    BY <1>1 DEF CteStart
  <2>5. [pc |-> 0, regs |-> << >>, stack |-> << >>] \in Turn
    BY DEF Turn
  <2>6. kept \in [Threads -> Turn]
    BY <2>5 DEF CteStart
  <2> QED
    BY <2>1, <2>2, <2>3, <2>4, <2>6 DEF CteStart, CteType
<1>4. kept[cur].regs = << >> /\ kept[cur].stack = << >> /\ where = "user"
      /\ gpr[SP] = StackEnd(cur) /\ \A t \in Threads : pcb[t] = 0
  BY <1>1 DEF CteStart
<1>5. RunningInv
  BY <1>4 DEF RunningInv, AtStack
<1>6. WaitingInv
  BY <1>4 DEF WaitingInv
<1>7. ContextKept
  BY <1>4 DEF ContextKept
<1> QED
  BY <1>3, <1>5, <1>6, <1>7 DEF CteInv

------------------------------------------------------------------------------
LEMMA CteInitStep == CteInv /\ cte_init => CteInv'
<1> SUFFICES ASSUME CteInv, cte_init
             PROVE  CteInv'
  OBVIOUS
<1>1. CteType'
  BY DEF CteInv, CteType, cte_init, TrapEntry
<1>2. RunningInv' /\ WaitingInv' /\ ContextKept'
  BY DEF CteInv, RunningInv, WaitingInv, ContextKept, cte_init, AtStack, SavedAt
<1> QED
  BY <1>1, <1>2 DEF CteInv

(* The context kcontext makes is one its thread can go on from.            *)
LEMMA KcontextStep ==
  ASSUME CteInv, NEW t \in Threads, NEW arg \in Vals, kcontext(t, arg)
  PROVE  CteInv'
<1> DEFINE c == StackEnd(t) - CONTEXT_SIZE
           turn == [pc |-> Entry(t),
                    regs |-> [r \in {SP, A0} |-> IF r = SP THEN StackEnd(t) ELSE arg],
                    stack |-> << >>]
<1>1. /\ where = "user" /\ t # cur /\ pcb[t] = 0
      /\ mem' = [mem EXCEPT ![c + OFFSET_EPC] = Entry(t) - 4, ![c + A0] = arg]
      /\ pcb' = [pcb EXCEPT ![t] = c]
      /\ kept' = [kept EXCEPT ![t] = turn]
      /\ gpr' = gpr /\ pc' = pc /\ mstatus' = mstatus /\ mepc' = mepc /\ mcause' = mcause
      /\ mtvec' = mtvec /\ user_handler' = user_handler /\ where' = where /\ cur' = cur
  <2>1. KCONTEXT = CONTEXT_SIZE /\ KCONTEXT - 1 = OFFSET_EPC
    BY Stacks, KcontextAssumption, SMT DEF CONTEXT_SIZE, OFFSET_EPC
  <2>2. c + KCONTEXT - 1 = c + OFFSET_EPC
    <3>1. StackEnd(t) \in Int /\ NR_REGS \in Int
      BY Stacks
    <3> QED
      BY <3>1, KcontextAssumption, SMT DEF CONTEXT_SIZE, OFFSET_EPC
  <2> QED
    BY <2>1, <2>2 DEF kcontext, kcontextAt, cpu_state
<1>2. CteType /\ RunningInv /\ WaitingInv /\ ContextKept
  BY DEF CteInv
<1>3. StackEnd(t) \in Int /\ NR_REGS \in Int /\ A0 \in 3 .. NR_REGS - 1 /\ NR_REGS > 3
  BY Stacks
<1>4. c \in Int /\ c + CONTEXT_SIZE = StackEnd(t)
  BY <1>3, SMT DEF CONTEXT_SIZE
<1>5. arg \in Int /\ Entry(t) \in Int /\ Entry(t) - 4 \in Int
  <2>1. Vals \subseteq Nat /\ Threads \subseteq Nat
    BY CteAssumption
  <2> QED
    BY <2>1, SMT DEF Entry
<1> HIDE DEF c
<1>6. /\ c + OFFSET_EPC \in c .. c + CONTEXT_SIZE - 1 /\ c + A0 \in c .. c + CONTEXT_SIZE - 1
      /\ c + OFFSET_EPC # c + A0
  BY <1>3, <1>4, SMT DEF CONTEXT_SIZE, OFFSET_EPC
<1>7. /\ c + OFFSET_EPC \in OwnStack(t) /\ c + A0 \in OwnStack(t)
  BY <1>4, <1>6, SavedPlace
<1>8. /\ c + OFFSET_EPC \in DOMAIN mem /\ c + A0 \in DOMAIN mem
  BY <1>7, <1>2, OwnInMemory DEF CteType
<1>9. /\ mem'[c + OFFSET_EPC] = Entry(t) - 4 /\ mem'[c + A0] = arg
      /\ \A a \in (DOMAIN mem) \ OwnStack(t) : mem'[a] = mem[a]
      /\ mem' \in [0 .. StackEnd(LastThread) - 1 -> Int]
  BY <1>1, <1>2, <1>5, <1>6, <1>7, <1>8 DEF CteType
<1>10. turn \in Turn
  <2>1. [r \in {SP, A0} |-> IF r = SP THEN StackEnd(t) ELSE arg] \in [{SP, A0} -> Int]
    BY <1>3, <1>5
  <2> QED
    BY <2>1, <1>5 DEF Turn
<1>11. /\ turn.pc = Entry(t) /\ turn.stack = << >> /\ DOMAIN turn.regs = {SP, A0}
       /\ turn.regs[SP] = StackEnd(t) /\ turn.regs[A0] = arg
  BY <1>3, SMT DEF SP
<1> HIDE DEF turn
<1>12. /\ kept'[t] = turn /\ \A u \in Threads \ {t} : kept'[u] = kept[u]
       /\ pcb'[t] = c /\ \A u \in Threads \ {t} : pcb'[u] = pcb[u]
  BY <1>1, <1>2 DEF CteType
<1>13. CteType'
  <2>1. kept' \in [Threads -> Turn]
    BY <1>1, <1>2, <1>10 DEF CteType
  <2>2. pcb' \in [Threads -> Int]
    BY <1>1, <1>2, <1>4 DEF CteType
  <2> QED
    BY <1>1, <1>2, <1>9, <2>1, <2>2 DEF CteType
<1>14. SavedAt(t, c)'
  <2>1. AtStack(t, c + CONTEXT_SIZE)'
    BY <1>4, <1>11, <1>12 DEF AtStack
  <2>2. mem'[c + OFFSET_EPC] + 4 = kept'[t].pc
    BY <1>5, <1>9, <1>11, <1>12, SMT
  <2>3. ASSUME NEW r \in DOMAIN kept'[t].regs
        PROVE  kept'[t].regs[r] = IF r = SP THEN c + CONTEXT_SIZE ELSE mem'[c + r]
    <3>1. r \in {SP, A0} /\ A0 # SP
      BY <1>3, <1>11, <1>12, SMT DEF SP
    <3> QED
      BY <3>1, <1>4, <1>9, <1>11, <1>12
  <2> QED
    BY <2>1, <2>2, <2>3, <1>1 DEF SavedAt
<1>15. WaitingInv'
  <2> SUFFICES ASSUME NEW u \in Threads, u # cur, pcb'[u] # 0
               PROVE  SavedAt(u, pcb[u])'
    BY <1>1 DEF WaitingInv
  <2>1. CASE u = t
    BY <2>1, <1>12, <1>14 DEF SavedAt, AtStack
  <2>2. CASE u # t
    BY <2>2, <1>2, <1>9, <1>12, WaitingStays
  <2> QED
    BY <2>1, <2>2
<1>16. kept'[cur] = kept[cur]
  BY <1>1, <1>2, <1>12 DEF CteType
<1>17. ASSUME kept[cur].stack # << >>
       PROVE  mem'[gpr[SP]] = mem[gpr[SP]]
  <2>1. gpr[SP] = StackEnd(cur) - 1 /\ cur \in Threads
    BY <1>1, <1>2, <1>17 DEF CteType, RunningInv, AtStack
  <2>2. gpr[SP] \in OwnStack(cur)
    BY <2>1, Stacks, SMT DEF OwnStack
  <2>3. gpr[SP] \in DOMAIN mem /\ gpr[SP] \notin OwnStack(t)
    BY <2>1, <2>2, <1>1, <1>2, OwnInMemory, OwnDisjoint DEF CteType
  <2> QED
    BY <2>3, <1>9
<1>18. RunningInv'
  BY <1>1, <1>2, <1>16, <1>17 DEF RunningInv, AtStack
<1>19. ContextKept'
  BY <1>1, <1>2, <1>16, <1>17 DEF ContextKept
<1> QED
  BY <1>13, <1>15, <1>18, <1>19 DEF CteInv

(* A step of the thread that runs, in its own stack and registers.         *)
LEMMA OwnStep ==
  ASSUME CteInv, NEW me \in Threads, me = cur, cur' = cur, pcb' = pcb,
         NEW k \in Turn, kept' = [kept EXCEPT ![cur] = k],
         \A a \in (DOMAIN mem) \ OwnStack(me) : mem'[a] = mem[a]
  PROVE  WaitingInv' /\ kept' \in [Threads -> Turn] /\ kept'[cur] = k
<1>1. CteType /\ WaitingInv
  BY DEF CteInv
<1>2. kept' \in [Threads -> Turn] /\ kept'[cur] = k
  BY <1>1 DEF CteType
<1>3. ASSUME NEW t \in Threads, t # cur, pcb'[t] # 0
      PROVE  SavedAt(t, pcb[t])'
  <2>1. kept'[t] = kept[t] /\ pcb'[t] = pcb[t] /\ pcb[t] # 0 /\ t # me
    BY <1>1, <1>3 DEF CteType
  <2> QED
    BY <2>1, <1>1, <1>3, WaitingStays
<1> QED
  BY <1>2, <1>3 DEF WaitingInv

LEMMA ComputeStep == CteInv /\ Compute => CteInv'
<1> SUFFICES ASSUME CteInv, Compute
             PROVE  CteInv'
  OBVIOUS
<1>0. PICK me \in Threads : me = cur
  BY DEF CteInv, CteType
<1>1. /\ where = "user" /\ pc' = pc + 4 /\ where' = where /\ cur' = cur /\ pcb' = pcb
      /\ mstatus' = mstatus /\ mepc' = mepc /\ mcause' = mcause /\ mtvec' = mtvec
      /\ user_handler' = user_handler
  BY DEF Compute
<1>2. CteType /\ RunningInv /\ ContextKept
  BY DEF CteInv
<1>3. AtStack(cur, gpr[SP])
  BY <1>1, <1>2 DEF RunningInv
<1>4. /\ StackEnd(me) \in Int /\ NR_REGS \in Int /\ NR_REGS > 3
      /\ SP \in 1 .. NR_REGS - 1 /\ 1 \in 1 .. NR_REGS - 1 /\ SP # 1 /\ SP \notin Saved
      /\ Saved \subseteq 1 .. NR_REGS - 1 /\ Vals \subseteq Int
  BY Stacks, CteAssumption, SMT DEF SP, Saved
<1>5. gpr \in [1 .. NR_REGS - 1 -> Int] /\ pc' \in Int /\ gpr[SP] \in Int
  BY <1>1, <1>2, <1>4, SMT DEF CteType
<1>6. kept[cur] \in Turn /\ kept[cur].stack \in {<< >>} \cup [1 .. 1 -> Int]
  BY <1>2 DEF CteType, Turn
(* The rest is the same whichever it was.                                  *)
<1>7. ASSUME NEW s \in {<< >>} \cup [1 .. 1 -> Int], Keep(pc', gpr', s),
             gpr' \in [1 .. NR_REGS - 1 -> Int],
             mem' \in [0 .. StackEnd(LastThread) - 1 -> Int],
             \A a \in (DOMAIN mem) \ OwnStack(me) : mem'[a] = mem[a],
             gpr'[SP] \in {StackEnd(cur) - 1, StackEnd(cur)},
             s # << >> => gpr'[SP] = StackEnd(cur) - 1 /\ mem'[gpr'[SP]] = s[1]
      PROVE  CteInv'
  <2>1. PICK k : k = [pc |-> pc', regs |-> gpr', stack |-> s]
    OBVIOUS
  <2>2. k \in Turn /\ k.pc = pc' /\ k.regs = gpr' /\ k.stack = s
    BY <2>1, <1>5, <1>7 DEF Turn
  <2>3. kept' = [kept EXCEPT ![cur] = k]
    BY <2>1, <1>7 DEF Keep
  <2>4. WaitingInv' /\ kept' \in [Threads -> Turn] /\ kept'[cur] = k
    BY <1>0, <1>1, <1>7, <2>2, <2>3, OwnStep
  <2>5. CteType'
    BY <1>1, <1>2, <1>5, <1>7, <2>4 DEF CteType
  <2>6. RunningInv'
    BY <1>1, <1>7, <2>2, <2>4 DEF RunningInv, AtStack
  <2>7. ContextKept'
    BY <1>1, <1>7, <2>2, <2>4 DEF ContextKept
  <2> QED
    BY <2>4, <2>5, <2>6, <2>7 DEF CteInv
<1>8. ASSUME NEW r \in Saved, NEW v \in Vals, gpr' = [gpr EXCEPT ![r] = v],
             mem' = mem, Keep(pc', gpr', kept[cur].stack)
      PROVE  CteInv'
  <2>1. r # SP /\ gpr' \in [1 .. NR_REGS - 1 -> Int] /\ gpr'[SP] = gpr[SP]
    BY <1>4, <1>5, <1>8
  <2>2. mem' \in [0 .. StackEnd(LastThread) - 1 -> Int]
    BY <1>2, <1>8 DEF CteType
  <2>3. PICK s \in {<< >>} \cup [1 .. 1 -> Int] : s = kept[cur].stack
    BY <1>6
  <2> QED
    BY <1>3, <1>7, <1>8, <2>1, <2>2, <2>3 DEF AtStack
<1>9. ASSUME gpr[SP] = StackEnd(cur), gpr' = [gpr EXCEPT ![SP] = @ - 1],
             mem' = [mem EXCEPT ![gpr[SP] - 1] = gpr[1]],
             Keep(pc', gpr', <<gpr[1]>>)
      PROVE  CteInv'
  <2>1. gpr' \in [1 .. NR_REGS - 1 -> Int] /\ gpr'[SP] = StackEnd(cur) - 1
    BY <1>4, <1>5, <1>9
  <2>2. StackEnd(me) - 1 \in OwnStack(me)
    BY <1>0, Stacks, SMT DEF OwnStack
  <2>3. StackEnd(me) - 1 \in DOMAIN mem
    BY <2>2, <1>2, OwnInMemory DEF CteType
  <2>4. gpr[1] \in Int
    BY <1>4, <1>5
  <2>5. /\ mem' \in [0 .. StackEnd(LastThread) - 1 -> Int]
        /\ mem'[StackEnd(me) - 1] = gpr[1]
        /\ \A a \in (DOMAIN mem) \ OwnStack(me) : mem'[a] = mem[a]
    BY <1>0, <1>2, <1>9, <2>2, <2>3, <2>4 DEF CteType
  <2>6. PICK s : s = <<gpr[1]>>
    OBVIOUS
  <2>7. s \in {<< >>} \cup [1 .. 1 -> Int] /\ s[1] = gpr[1]
    BY <2>4, <2>6, SMT
  <2>8. Keep(pc', gpr', s)
    BY <1>9, <2>6
  <2> QED
    BY <1>0, <1>7, <2>1, <2>5, <2>7, <2>8
<1>10. ASSUME gpr[SP] < StackEnd(cur), gpr' = [gpr EXCEPT ![SP] = @ + 1, ![1] = mem[gpr[SP]]],
              mem' = mem, Keep(pc', gpr', << >>)
       PROVE  CteInv'
  <2>1. gpr[SP] = StackEnd(me) - 1
    BY <1>0, <1>3, <1>4, <1>10, SMT DEF AtStack
  <2>2. gpr[SP] \in OwnStack(me)
    BY <2>1, Stacks, SMT DEF OwnStack
  <2>3. mem[gpr[SP]] \in Int
    BY <2>2, <1>2, OwnInMemory DEF CteType
  <2>4. gpr[SP] + 1 \in Int /\ gpr[SP] + 1 = StackEnd(me)
    BY <2>1, <1>4, SMT
  <2>5. gpr' \in [1 .. NR_REGS - 1 -> Int] /\ gpr'[SP] = StackEnd(cur)
    BY <1>0, <1>4, <1>5, <1>10, <2>3, <2>4
  <2>6. mem' \in [0 .. StackEnd(LastThread) - 1 -> Int]
    BY <1>2, <1>10 DEF CteType
  <2> QED
    BY <1>7, <1>10, <2>5, <2>6
<1> QED
  BY <1>8, <1>9, <1>10 DEF Compute

LEMMA LoopStep == CteInv /\ Loop => CteInv'
<1> SUFFICES ASSUME CteInv, Loop
             PROVE  CteInv'
  OBVIOUS
<1>0. PICK me \in Threads : me = cur
  BY DEF CteInv, CteType
<1>1. CteType /\ RunningInv /\ ContextKept
  BY DEF CteInv
<1>2. PICK k : k = [pc |-> pc', regs |-> gpr, stack |-> kept[cur].stack]
  OBVIOUS
<1>3. pc' \in Int
  <2>1. Entry(me) \in Int
    BY CteAssumption, SMT DEF Entry
  <2> QED
    BY <1>0, <2>1 DEF Loop
<1>4. k \in Turn /\ k.pc = pc' /\ k.regs = gpr /\ k.stack = kept[cur].stack
  <2>1. kept[cur].stack \in {<< >>} \cup [1 .. 1 -> Int] /\ gpr \in [1 .. NR_REGS - 1 -> Int]
    BY <1>1 DEF CteType, Turn
  <2> QED
    BY <2>1, <1>2, <1>3 DEF Turn
<1>5. kept' = [kept EXCEPT ![cur] = k] /\ mem' = mem /\ cur' = cur /\ pcb' = pcb
      /\ gpr' = gpr /\ where' = where /\ where = "user"
  BY <1>2 DEF Loop, Keep
<1>6. WaitingInv' /\ kept' \in [Threads -> Turn] /\ kept'[cur] = k
  BY <1>0, <1>4, <1>5, OwnStep
<1>7. CteType'
  BY <1>1, <1>3, <1>6 DEF CteType, Loop
<1>8. RunningInv'
  BY <1>1, <1>4, <1>5, <1>6 DEF RunningInv, AtStack
<1>9. ContextKept'
  BY <1>1, <1>4, <1>5, <1>6, <1>8 DEF ContextKept, RunningInv, AtStack
<1> QED
  BY <1>6, <1>7, <1>8, <1>9 DEF CteInv

LEMMA YieldStep == CteInv /\ yield => CteInv'
<1> SUFFICES ASSUME CteInv, yield
             PROVE  CteInv'
  OBVIOUS
<1>0. PICK me \in Threads : me = cur
  BY DEF CteInv, CteType
<1>1. CteType /\ RunningInv
  BY DEF CteInv
<1>2. PICK k : k = [pc |-> pc + 4, regs |-> gpr, stack |-> kept[cur].stack]
  OBVIOUS
<1>3. k \in Turn /\ k.pc = pc + 4 /\ k.regs = gpr /\ k.stack = kept[cur].stack
  <2>1. kept[cur].stack \in {<< >>} \cup [1 .. 1 -> Int] /\ gpr \in [1 .. NR_REGS - 1 -> Int]
        /\ pc + 4 \in Int
    BY <1>1 DEF CteType, Turn
  <2> QED
    BY <2>1, <1>2 DEF Turn
<1>4. kept' = [kept EXCEPT ![cur] = k] /\ mem' = mem /\ cur' = cur /\ pcb' = pcb
      /\ gpr' = gpr /\ where' = "push" /\ where = "user" /\ mepc' = pc
  BY <1>2 DEF yield, Keep
<1>5. WaitingInv' /\ kept' \in [Threads -> Turn] /\ kept'[cur] = k
  BY <1>0, <1>3, <1>4, OwnStep
<1>6. CteType'
  BY <1>1, <1>4, <1>5 DEF CteType, yield
<1>7. RunningInv'
  BY <1>1, <1>3, <1>4, <1>5 DEF RunningInv, AtStack
<1>8. ContextKept'
  BY <1>4 DEF ContextKept
<1> QED
  BY <1>5, <1>6, <1>7, <1>8 DEF CteInv

(* What PushContext puts in memory.                                        *)
LEMMA ContextWords ==
  ASSUME CteType, NEW c \in Int
  PROVE  /\ DOMAIN Context(c) = c .. c + CONTEXT_SIZE - 1
         /\ \A r \in 1 .. NR_REGS - 1 : r # SP => Context(c)[c + r] = gpr[r]
         /\ Context(c)[c + OFFSET_EPC] = mepc
         /\ \A a \in c .. c + CONTEXT_SIZE - 1 : mem[a] \in Int => Context(c)[a] \in Int
<1>1. NR_REGS \in Int /\ NR_REGS > 3 /\ SP \in Int
  BY Stacks DEF SP
<1>2. DOMAIN Context(c) = c .. c + CONTEXT_SIZE - 1
  BY DEF Context
<1>3. ASSUME NEW r \in 1 .. NR_REGS - 1, r # SP
      PROVE  Context(c)[c + r] = gpr[r]
  <2>1. r \in Saved /\ (c + r) - c = r /\ c + r \in c .. c + CONTEXT_SIZE - 1
    BY <1>1, <1>3, SMT DEF Saved, CONTEXT_SIZE
  <2> QED
    BY <2>1, <1>1, SMT DEF Context, OFFSET_CAUSE, OFFSET_STATUS, OFFSET_EPC, Saved
<1>4. Context(c)[c + OFFSET_EPC] = mepc
  <2>1. /\ (c + OFFSET_EPC) - c = OFFSET_EPC /\ c + OFFSET_EPC \in c .. c + CONTEXT_SIZE - 1
        /\ OFFSET_EPC \notin Saved /\ OFFSET_EPC # OFFSET_CAUSE /\ OFFSET_EPC # OFFSET_STATUS
    BY <1>1, SMT DEF Saved, CONTEXT_SIZE, OFFSET_CAUSE, OFFSET_STATUS, OFFSET_EPC
  <2> QED
    BY <2>1 DEF Context
<1>5. ASSUME NEW a \in c .. c + CONTEXT_SIZE - 1, mem[a] \in Int
      PROVE  Context(c)[a] \in Int
  <2>1. mcause \in Int /\ mstatus \in Int /\ mepc \in Int
        /\ \A r \in Saved : gpr[r] \in Int
    BY DEF CteType, Saved
  <2>2. PICK r : r = a - c
    OBVIOUS
  <2>3. CASE r \in Saved
    BY <2>1, <2>2, <2>3 DEF Context
  <2>4. CASE r \notin Saved
    BY <1>5, <2>1, <2>2, <2>4 DEF Context
  <2> QED
    BY <2>3, <2>4
<1> QED
  BY <1>2, <1>3, <1>4, <1>5

LEMMA PushContextStep == CteInv /\ PushContext => CteInv'
<1> SUFFICES ASSUME CteInv, PushContext
             PROVE  CteInv'
  OBVIOUS
<1>0. PICK me \in Threads : me = cur
  BY DEF CteInv, CteType
<1>1. CteType /\ RunningInv /\ WaitingInv
  BY DEF CteInv
<1>2. /\ StackEnd(me) \in Int /\ NR_REGS \in Int /\ NR_REGS > 3 /\ SP # A0
      /\ SP \in 1 .. NR_REGS - 1 /\ A0 \in 1 .. NR_REGS - 1
  BY Stacks, SMT DEF SP
<1>3. AtStack(cur, gpr[SP]) /\ mepc + 4 = kept[cur].pc /\ kept[cur].regs = gpr
  BY <1>1 DEF RunningInv, PushContext
<1>4. PICK c \in Int : c = gpr[SP] - CONTEXT_SIZE /\ c + CONTEXT_SIZE = gpr[SP]
  <2>1. gpr[SP] \in Int /\ CONTEXT_SIZE \in Int
    BY <1>1, <1>2, SMT DEF CteType, CONTEXT_SIZE
  <2>2. gpr[SP] - CONTEXT_SIZE \in Int /\ (gpr[SP] - CONTEXT_SIZE) + CONTEXT_SIZE = gpr[SP]
    BY <2>1, SMT
  <2> QED
    BY <2>2
<1>5. /\ mem' = [a \in DOMAIN mem |-> IF a \in DOMAIN Context(c) THEN Context(c)[a] ELSE mem[a]]
      /\ gpr' = [gpr EXCEPT ![SP] = c, ![A0] = c]
      /\ mstatus' = 1 /\ where' = "handle" /\ pc' = pc /\ mepc' = mepc /\ mcause' = mcause
      /\ mtvec' = mtvec /\ user_handler' = user_handler /\ pcb' = pcb /\ cur' = cur
      /\ kept' = kept
  BY <1>4 DEF PushContext
<1>6. c + CONTEXT_SIZE \in {StackEnd(me) - 1, StackEnd(me)}
  BY <1>0, <1>3, <1>4 DEF AtStack
<1>7. \A a \in c .. c + CONTEXT_SIZE - 1 : a \in OwnStack(me)
  BY <1>6, SavedPlace
<1>8. \A a \in c .. c + CONTEXT_SIZE - 1 : a \in DOMAIN mem /\ mem[a] \in Int
  BY <1>1, <1>7, OwnInMemory DEF CteType
<1>9. /\ DOMAIN Context(c) = c .. c + CONTEXT_SIZE - 1
      /\ \A r \in 1 .. NR_REGS - 1 : r # SP => Context(c)[c + r] = gpr[r]
      /\ Context(c)[c + OFFSET_EPC] = mepc
      /\ \A a \in c .. c + CONTEXT_SIZE - 1 : Context(c)[a] \in Int
  BY <1>1, <1>8, ContextWords
<1>10. /\ \A a \in c .. c + CONTEXT_SIZE - 1 : mem'[a] = Context(c)[a]
       /\ \A a \in (DOMAIN mem) \ (c .. c + CONTEXT_SIZE - 1) : mem'[a] = mem[a]
  BY <1>5, <1>8, <1>9
<1>11. mem' \in [0 .. StackEnd(LastThread) - 1 -> Int]
  BY <1>1, <1>5, <1>9 DEF CteType
<1>12. gpr' \in [1 .. NR_REGS - 1 -> Int] /\ gpr'[SP] = c /\ gpr'[A0] = c
  BY <1>1, <1>2, <1>5 DEF CteType
<1>13. CteType'
  BY <1>1, <1>5, <1>11, <1>12 DEF CteType
<1>14. SavedAt(me, c)'
  <2>1. AtStack(me, c + CONTEXT_SIZE)'
    <3>1. ASSUME kept[me].stack # << >>
          PROVE  /\ c + CONTEXT_SIZE = StackEnd(me) - 1
                 /\ mem'[c + CONTEXT_SIZE] = kept[me].stack[1]
      <4>1. c + CONTEXT_SIZE = StackEnd(me) - 1 /\ mem[c + CONTEXT_SIZE] = kept[me].stack[1]
        BY <1>0, <1>3, <1>4, <3>1 DEF AtStack
      <4>2. c + CONTEXT_SIZE \in OwnStack(me) /\ c + CONTEXT_SIZE \notin c .. c + CONTEXT_SIZE - 1
        BY <4>1, <1>2, Stacks, SMT DEF OwnStack, CONTEXT_SIZE
      <4>3. c + CONTEXT_SIZE \in DOMAIN mem
        BY <4>2, <1>1, OwnInMemory DEF CteType
      <4> QED
        BY <4>1, <4>2, <4>3, <1>10
    <3> QED
      BY <1>5, <1>6, <3>1 DEF AtStack
  <2>2. mem'[c + OFFSET_EPC] + 4 = kept'[me].pc
    <3>1. c + OFFSET_EPC \in c .. c + CONTEXT_SIZE - 1
      BY <1>2, SMT DEF OFFSET_EPC, CONTEXT_SIZE
    <3> QED
      BY <3>1, <1>0, <1>3, <1>5, <1>9, <1>10
  <2>3. ASSUME NEW r \in DOMAIN kept'[me].regs
        PROVE  kept'[me].regs[r] = IF r = SP THEN c + CONTEXT_SIZE ELSE mem'[c + r]
    <3>1. r \in 1 .. NR_REGS - 1 /\ kept'[me].regs = gpr
      BY <1>0, <1>1, <1>3, <1>5, <2>3 DEF CteType
    <3>2. c + r \in c .. c + CONTEXT_SIZE - 1
      BY <3>1, <1>2, SMT DEF CONTEXT_SIZE
    <3> QED
      BY <3>1, <3>2, <1>4, <1>9, <1>10
  <2> QED
    BY <2>1, <2>2, <2>3 DEF SavedAt
<1>15. RunningInv'
  BY <1>0, <1>5, <1>12, <1>14 DEF RunningInv, SavedAt, AtStack
<1>16. WaitingInv'
  <2>1. \A a \in (DOMAIN mem) \ OwnStack(me) : mem'[a] = mem[a]
    BY <1>7, <1>10
  <2> SUFFICES ASSUME NEW t \in Threads, t # cur, pcb'[t] # 0
               PROVE  SavedAt(t, pcb[t])'
    BY <1>5 DEF WaitingInv
  <2>2. kept'[t] = kept[t] /\ pcb'[t] = pcb[t] /\ pcb[t] # 0 /\ t # me
    BY <1>0, <1>5
  <2> QED
    BY <2>1, <2>2, <1>1, WaitingStays
<1>17. ContextKept'
  BY <1>5 DEF ContextKept
<1> QED
  BY <1>13, <1>15, <1>16, <1>17 DEF CteInv

(* The handler writes below the context of the thread that yields; the     *)
(* thread it hands the context of to PopContext had one to go on from.     *)
LEMMA HandleStep == CteInv /\ __am_irq_handle => CteInv'
<1> SUFFICES ASSUME CteInv, __am_irq_handle
             PROVE  CteInv'
  OBVIOUS
<1>0. PICK me \in Threads : me = cur
  BY DEF CteInv, CteType
<1>1. CteType /\ RunningInv /\ WaitingInv
  BY DEF CteInv
<1>2. PICK c \in Int : c = gpr[A0] /\ c = gpr[SP] /\ SavedAt(me, c)
  <2>1. gpr[A0] \in Int
    BY <1>1, Stacks, SMT DEF CteType
  <2>2. gpr[SP] = gpr[A0] /\ SavedAt(cur, gpr[A0])
    BY <1>1 DEF RunningInv, __am_irq_handle
  <2> QED
    BY <2>1, <2>2, <1>0
<1>3. /\ mem' = [mem EXCEPT ![c - 1] = Junk + 1] /\ where' = "pop"
      /\ pc' = pc /\ mstatus' = mstatus /\ mepc' = mepc /\ mcause' = mcause
      /\ mtvec' = mtvec /\ user_handler' = user_handler /\ kept' = kept
  BY <1>2 DEF __am_irq_handle
<1>4. c + CONTEXT_SIZE \in {StackEnd(me) - 1, StackEnd(me)}
  BY <1>2 DEF SavedAt, AtStack
<1>5. c - 1 \in OwnStack(me) /\ c - 1 \in DOMAIN mem
  BY <1>1, <1>4, SavedPlace, OwnInMemory DEF CteType
<1>6. /\ mem' \in [0 .. StackEnd(LastThread) - 1 -> Int]
      /\ \A a \in c .. StackEnd(me) - 1 : mem'[a] = mem[a]
      /\ \A a \in (DOMAIN mem) \ OwnStack(me) : mem'[a] = mem[a]
  <2>1. Junk + 1 \in Int
    BY CteAssumption, SMT
  <2>2. ASSUME NEW a \in c .. StackEnd(me) - 1
        PROVE  mem'[a] = mem[a]
    <3>1. a # c - 1 /\ a \in OwnStack(me)
      BY <1>4, SavedPlace, SMT
    <3>2. a \in DOMAIN mem
      BY <3>1, <1>1, OwnInMemory DEF CteType
    <3> QED
      BY <3>1, <3>2, <1>3
  <2> QED
    BY <2>1, <2>2, <1>1, <1>3, <1>5 DEF CteType
<1>7. SavedAt(me, c)'
  BY <1>1, <1>2, <1>3, <1>6, SavedStays
<1>8. ASSUME NEW t \in Threads, t # me, pcb'[t] = pcb[t], pcb[t] # 0
      PROVE  SavedAt(t, pcb[t])'
  BY <1>0, <1>1, <1>3, <1>6, <1>8, WaitingStays
<1>9. CASE user_handler = "NULL" /\ UNCHANGED <<gpr, pcb, cur>>
  <2>1. CteType'
    BY <1>1, <1>3, <1>6, <1>9 DEF CteType
  <2>2. RunningInv'
    BY <1>0, <1>2, <1>3, <1>7, <1>9 DEF RunningInv, SavedAt, AtStack
  <2>3. WaitingInv'
    BY <1>0, <1>8, <1>9 DEF WaitingInv
  <2>4. ContextKept'
    BY <1>3 DEF ContextKept
  <2> QED
    BY <2>1, <2>2, <2>3, <2>4 DEF CteInv
<1>10. CASE user_handler = "schedule" /\ \E t \in Threads :
              /\ pcb' = [pcb EXCEPT ![cur] = gpr[A0]]
              /\ pcb'[t] # 0
              /\ cur' = t
              /\ gpr' = [gpr EXCEPT ![A0] = pcb'[t]]
  <2>1. PICK t \in Threads : /\ pcb' = [pcb EXCEPT ![cur] = gpr[A0]]
                             /\ pcb'[t] # 0
                             /\ cur' = t
                             /\ gpr' = [gpr EXCEPT ![A0] = pcb'[t]]
    BY <1>10
  <2>2. /\ pcb' \in [Threads -> Int] /\ pcb'[me] = c
        /\ \A u \in Threads \ {me} : pcb'[u] = pcb[u]
    BY <1>0, <1>1, <1>2, <2>1 DEF CteType
  <2>3. \A u \in Threads : pcb'[u] # 0 => SavedAt(u, pcb[u])'
    <3> SUFFICES ASSUME NEW u \in Threads, pcb'[u] # 0
                 PROVE  SavedAt(u, pcb[u])'
      OBVIOUS
    <3>1. CASE u = me
      BY <3>1, <1>7, <2>2 DEF SavedAt, AtStack
    <3>2. CASE u # me
      BY <3>2, <1>8, <2>2
    <3> QED
      BY <3>1, <3>2
  <2>4. gpr' \in [1 .. NR_REGS - 1 -> Int] /\ gpr'[A0] = pcb'[t]
    <3>1. A0 \in 1 .. NR_REGS - 1 /\ pcb'[t] \in Int
      BY <2>2, Stacks, SMT
    <3> QED
      BY <3>1, <1>1, <2>1 DEF CteType
  <2>5. CteType'
    BY <1>1, <1>3, <1>6, <2>1, <2>2, <2>4 DEF CteType
  <2>6. RunningInv'
    BY <1>3, <2>1, <2>3, <2>4 DEF RunningInv, SavedAt, AtStack
  <2>7. WaitingInv'
    BY <2>1, <2>3 DEF WaitingInv
  <2>8. ContextKept'
    BY <1>3 DEF ContextKept
  <2> QED
    BY <2>5, <2>6, <2>7, <2>8 DEF CteInv
<1> QED
  BY <1>9, <1>10 DEF __am_irq_handle

LEMMA PopContextStep == CteInv /\ PopContext => CteInv'
<1> SUFFICES ASSUME CteInv, PopContext
             PROVE  CteInv'
  OBVIOUS
<1>0. PICK me \in Threads : me = cur
  BY DEF CteInv, CteType
<1>1. CteType /\ RunningInv /\ WaitingInv
  BY DEF CteInv
<1>2. PICK c \in Int : c = gpr[A0] /\ SavedAt(me, c)
  <2>1. gpr[A0] \in Int
    BY <1>1, Stacks, SMT DEF CteType
  <2>2. SavedAt(cur, gpr[A0])
    BY <1>1 DEF RunningInv, PopContext
  <2> QED
    BY <2>1, <2>2, <1>0
<1>3. /\ gpr' = [r \in DOMAIN gpr |-> IF r = SP THEN c + CONTEXT_SIZE ELSE mem[c + r]]
      /\ mstatus' = mem[c + OFFSET_STATUS] /\ mepc' = mem[c + OFFSET_EPC] + 4
      /\ pc' = mem[c + OFFSET_EPC] + 4 /\ where' = "user" /\ mcause' = mcause
      /\ mtvec' = mtvec /\ mem' = mem /\ user_handler' = user_handler /\ pcb' = pcb
      /\ cur' = cur /\ kept' = kept
  BY <1>2 DEF PopContext
<1>4. c + CONTEXT_SIZE \in {StackEnd(me) - 1, StackEnd(me)}
  BY <1>2 DEF SavedAt, AtStack
<1>5. \A a \in c .. c + CONTEXT_SIZE - 1 : mem[a] \in Int
  <2>1. \A a \in c .. c + CONTEXT_SIZE - 1 : a \in OwnStack(me)
    BY <1>4, SavedPlace
  <2> QED
    BY <2>1, <1>1, OwnInMemory DEF CteType
<1>6. /\ NR_REGS \in Int /\ NR_REGS > 3 /\ SP \in 1 .. NR_REGS - 1 /\ CONTEXT_SIZE \in Int
  BY Stacks, SMT DEF SP, CONTEXT_SIZE
<1>7. mem[c + OFFSET_STATUS] \in Int /\ mem[c + OFFSET_EPC] \in Int
  <2>1. /\ c + OFFSET_STATUS \in c .. c + CONTEXT_SIZE - 1
        /\ c + OFFSET_EPC \in c .. c + CONTEXT_SIZE - 1
    BY <1>6, SMT DEF OFFSET_STATUS, OFFSET_EPC, CONTEXT_SIZE
  <2> QED
    BY <2>1, <1>5
<1>8. \A r \in 1 .. NR_REGS - 1 : mem[c + r] \in Int
  <2> SUFFICES ASSUME NEW r \in 1 .. NR_REGS - 1
               PROVE  mem[c + r] \in Int
    OBVIOUS
  <2>1. c + r \in c .. c + CONTEXT_SIZE - 1
    BY <1>6, SMT DEF CONTEXT_SIZE
  <2> QED
    BY <2>1, <1>5
<1>9. gpr' \in [1 .. NR_REGS - 1 -> Int] /\ gpr'[SP] = c + CONTEXT_SIZE
  <2>1. DOMAIN gpr = 1 .. NR_REGS - 1 /\ c + CONTEXT_SIZE \in Int
    BY <1>1, <1>6, SMT DEF CteType
  <2> QED
    BY <2>1, <1>3, <1>6, <1>8
<1>10. CteType'
  BY <1>1, <1>3, <1>7, <1>9 DEF CteType
<1>11. RunningInv'
  BY <1>0, <1>2, <1>3, <1>9 DEF RunningInv, SavedAt, AtStack
<1>12. WaitingInv'
  BY <1>1, <1>3 DEF WaitingInv, SavedAt, AtStack
<1>13. ContextKept'
  <2>1. pc' = kept'[cur'].pc
    BY <1>0, <1>2, <1>3 DEF SavedAt
  <2>2. ASSUME NEW r \in DOMAIN kept[me].regs
        PROVE  gpr'[r] = kept[me].regs[r]
    <3>1. kept[me] \in Turn
      BY <1>1 DEF CteType
    <3>2. r \in DOMAIN gpr
      BY <3>1, <1>1, TurnShape DEF CteType
    <3> QED
      BY <3>2, <1>2, <1>3 DEF SavedAt
  <2>3. kept[me].stack # << >> => mem[gpr'[SP]] = kept[me].stack[1]
    BY <1>2, <1>9 DEF SavedAt, AtStack
  <2> QED
    BY <2>1, <2>2, <2>3, <1>0, <1>3 DEF ContextKept
<1> QED
  BY <1>10, <1>11, <1>12, <1>13 DEF CteInv

------------------------------------------------------------------------------
(* Every step of the machine keeps every thread's words where they are     *)
(* looked for.                                                             *)
THEOREM CteInvariant == CteSpec => []CteInv
<1>1. CteStart => CteInv
  BY CteStartInv
<1>2. CteInv /\ [CteNext]_cte_vars => CteInv'
  <2> SUFFICES ASSUME CteInv, [CteNext]_cte_vars
               PROVE  CteInv'
    OBVIOUS
  <2>1. CASE cte_init
    BY <2>1, CteInitStep
  <2>2. CASE \E t \in Threads \ {0}, arg \in Vals : kcontext(t, arg)
    BY <2>2, KcontextStep
  <2>3. CASE Compute
    BY <2>3, ComputeStep
  <2>4. CASE Loop
    BY <2>4, LoopStep
  <2>5. CASE yield
    BY <2>5, YieldStep
  <2>6. CASE PushContext
    BY <2>6, PushContextStep
  <2>7. CASE __am_irq_handle
    BY <2>7, HandleStep
  <2>8. CASE PopContext
    BY <2>8, PopContextStep
  <2>9. CASE UNCHANGED cte_vars
    BY <2>9 DEF CteInv, CteType, RunningInv, WaitingInv, ContextKept, SavedAt, AtStack,
       cte_vars, cpu_state
  <2> QED
    BY <2>1, <2>2, <2>3, <2>4, <2>5, <2>6, <2>7, <2>8, <2>9 DEF CteNext
<1> QED
  BY <1>1, <1>2, PTL DEF CteSpec

(* Whatever the threads compute and whoever the guest's scheduler picks, a *)
(* thread that has its turn is at the instruction after its yield with its *)
(* registers and its stack as they were (PushContext and PopContext of     *)
(* trap.S, the + 4 of mret, kcontext's - 4).                               *)
THEOREM CteContextKept == CteSpec => []ContextKept
<1>1. CteInv => ContextKept
  BY DEF CteInv
<1> QED
  BY <1>1, CteInvariant, PTL
================================================================================
