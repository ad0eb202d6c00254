------------------------------ MODULE AudioRing -------------------------------
(***************************************************************************)
(* The audio device, nemu/src/device/audio.c, between its two users:       *)
(*   - the CPU thread: the guest's driver (am/.../nemu/ioe/audio.c) waits  *)
(*     for room and stores a chunk byte by byte, each store running        *)
(*     audio_sbuf_handler;                                                 *)
(*   - SDL's audio thread, which calls audio_callback for StreamLen bytes. *)
(* Nothing locks ring_sbuf, head, tail and audio_len.  A step is one       *)
(* access to a variable the other thread writes (with the accesses to      *)
(* variables of its own that go before it), in program order; each thread  *)
(* loads head, tail and audio_len once in a call, as an optimised build    *)
(* does.                                                                   *)
(*                                                                         *)
(* The bytes themselves are left out: which bytes of the ring are still to *)
(* be played follows from how many were stored and played, and the history *)
(* variable unplayed counts them, until an update of the length has used   *)
(* an index the other thread moved (raced) or the ring has held SB_SIZE    *)
(* bytes (filled).                                                         *)
(***************************************************************************)
EXTENDS Integers, FiniteSetsExt

CONSTANTS
  SB_SIZE,     \* CONFIG_SB_SIZE
  StreamLen,   \* the len SDL passes: set by freq, channels and samples
  ChunkLens    \* the lengths the guest plays, longer than the ring or not

ASSUME AudioAssumption ==
  /\ SB_SIZE \in Nat \ {0}
  /\ StreamLen \in Nat \ {0}
  /\ ChunkLens \subseteq Nat

VARIABLES
  callback,    \* s.callback
  opened,      \* the callback SDL_OpenAudio was given, or "closed"
  head, tail,
  audio_len,
  reg_count,   \* audio_base[reg_count]
  cpu,         \* the CPU thread is: out of the driver, waiting for room,
               \*   about to store, or in audio_len_update
  todo,        \* len - i of __am_audio_play
  cpu_len,     \* its value of audio_len, in a register
  cb,          \* SDL's thread, likewise
  copying,     \* len - i of audio_callback
  cb_len,
  unplayed, raced, filled

guest_vars  == <<callback, opened>>
cpu_vars    == <<tail, cpu, todo, cpu_len>>
cb_vars     == <<head, cb, copying, cb_len>>
len_vars    == <<audio_len, reg_count>>
history     == <<unplayed, raced, filled>>
vars == <<guest_vars, cpu_vars, cb_vars, len_vars, history>>

Next1(i) == (i + 1) % SB_SIZE

(* What audio_len_update computes.  head = tail is read as empty, also     *)
(* when SB_SIZE bytes are waiting.                                         *)
LenOf(h, t) ==
  IF h <= t THEN t - h ELSE SB_SIZE - (h - t)

(* Which thread is between its read of the indices and its last store.     *)
CpuUpdating == cpu \in {"len", "count"}
CbUpdating  == cb \in {"len", "count"}

(* d bytes more (or less) are waiting; racing says that the other thread   *)
(* has read the index that moves.                                          *)
Count(d, racing) ==
  LET u == unplayed + d
  IN  /\ raced' = (raced \/ racing)
      /\ filled' = (filled \/ (~raced /\ u = SB_SIZE))
      /\ unplayed' = IF raced' \/ filled' THEN 0 ELSE u

------------------------------------------------------------------------------
AudioInit ==
  /\ callback = "NULL" /\ opened = "closed"
  /\ head = 0 /\ tail = 0 /\ audio_len = 0 /\ reg_count = 0
  /\ cpu = "out" /\ todo = 0 /\ cpu_len = 0
  /\ cb = "out" /\ copying = 0 /\ cb_len = 0
  /\ unplayed = 0 /\ raced = FALSE /\ filled = FALSE

(* A write to reg_init.  The driver under am/ has no such write: this is a *)
(* guest with a driver of its own.                                         *)
WriteInit ==
  /\ cpu = "out"
  /\ callback' = "audio_callback"
  /\ UNCHANGED <<opened, cpu_vars, cb_vars, len_vars, history>>

(* __am_audio_ctrl: freq, channels, then samples, which opens the device   *)
(* with what s holds.  SDL refuses to open it again.                       *)
AmAudioCtrl ==
  /\ cpu = "out"
  /\ opened' = IF opened = "closed" THEN callback ELSE opened
  /\ UNCHANGED <<callback, cpu_vars, cb_vars, len_vars, history>>

------------------------------------------------------------------------------
(* The CPU thread.  __am_audio_play: the call, and its loop on the count.  *)
AmAudioPlay(k) ==
  /\ cpu = "out"
  /\ cpu' = "wait" /\ todo' = k
  /\ UNCHANGED <<guest_vars, tail, cpu_len, cb_vars, len_vars, history>>

PlayWait ==
  /\ cpu = "wait"
  /\ IF todo > SB_SIZE - reg_count
       THEN UNCHANGED cpu
       ELSE cpu' = IF todo = 0 THEN "out" ELSE "store"
  /\ UNCHANGED <<guest_vars, tail, todo, cpu_len, cb_vars, len_vars, history>>

(* audio_sbuf_handler for one byte, up to the read of head.                *)
SbufStore ==
  /\ cpu = "store"
  /\ tail' = Next1(tail) /\ todo' = todo - 1
  /\ cpu' = "update"
  /\ Count(1, CbUpdating)
  /\ UNCHANGED <<guest_vars, cpu_len, cb_vars, len_vars>>

CpuReadHeadEarly ==              \* variant: the length is taken before the store
  /\ cpu = "update"
  /\ cpu_len' = LenOf(head, (tail - 1) % SB_SIZE)
  /\ cpu' = "len"
  /\ UNCHANGED <<guest_vars, tail, todo, cb_vars, len_vars, history>>

CpuReadHead ==
  /\ cpu = "update"
  /\ cpu_len' = LenOf(head, tail)
  /\ cpu' = "len"
  /\ UNCHANGED <<guest_vars, tail, todo, cb_vars, len_vars, history>>

CpuWriteLen ==
  /\ cpu = "len"
  /\ audio_len' = cpu_len
  /\ cpu' = "count"
  /\ UNCHANGED <<guest_vars, tail, todo, cpu_len, cb_vars, reg_count, history>>

CpuWriteCount ==
  /\ cpu = "count"
  /\ reg_count' = cpu_len
  /\ cpu' = IF todo = 0 THEN "out" ELSE "store"
  /\ cpu_len' = 0
  /\ UNCHANGED <<guest_vars, tail, todo, cb_vars, audio_len, history>>

------------------------------------------------------------------------------
(* SDL's thread.  audio_callback, to the length it will copy; with nothing *)
(* to play it has returned.                                                *)
CallbackUnclamped ==             \* variant: len is not cut to audio_len
  /\ opened = "audio_callback" /\ cb = "out" /\ audio_len # 0
  /\ cb' = "copy" /\ copying' = StreamLen
  /\ UNCHANGED <<guest_vars, cpu_vars, head, cb_len, len_vars, history>>

AudioCallback ==
  /\ opened = "audio_callback" /\ cb = "out" /\ audio_len # 0
  /\ cb' = "copy" /\ copying' = Min({StreamLen, audio_len})
  /\ UNCHANGED <<guest_vars, cpu_vars, head, cb_len, len_vars, history>>

CallbackCopyNoWrap ==            \* variant: head runs off the ring
  /\ cb = "copy"
  /\ head' = head + 1 /\ copying' = copying - 1
  /\ cb' = IF copying' = 0 THEN "update" ELSE "copy"
  /\ Count(-1, CpuUpdating)
  /\ UNCHANGED <<guest_vars, cpu_vars, cb_len, len_vars>>

CallbackCopy ==
  /\ cb = "copy"
  /\ head' = Next1(head) /\ copying' = copying - 1
  /\ cb' = IF copying' = 0 THEN "update" ELSE "copy"
  /\ Count(-1, CpuUpdating)
  /\ UNCHANGED <<guest_vars, cpu_vars, cb_len, len_vars>>

CbReadTail ==
  /\ cb = "update"
  /\ cb_len' = LenOf(head, tail)
  /\ cb' = "len"
  /\ UNCHANGED <<guest_vars, cpu_vars, head, copying, len_vars, history>>

CbWriteLen ==
  /\ cb = "len"
  /\ audio_len' = cb_len
  /\ cb' = "count"
  /\ UNCHANGED <<guest_vars, cpu_vars, head, copying, cb_len, reg_count, history>>

CbWriteNoCount ==                \* variant: audio_base is not written
  /\ cb = "count"
  /\ cb' = "out" /\ cb_len' = 0
  /\ UNCHANGED <<guest_vars, cpu_vars, head, copying, len_vars, history>>

CbWriteCount ==
  /\ cb = "count"
  /\ reg_count' = cb_len
  /\ cb' = "out" /\ cb_len' = 0
  /\ UNCHANGED <<guest_vars, cpu_vars, head, copying, audio_len, history>>

------------------------------------------------------------------------------
CpuStep == PlayWait \/ SbufStore \/ CpuReadHead \/ CpuWriteLen \/ CpuWriteCount
CbStep  == \/ AudioCallback \/ CallbackCopy
           \/ CbReadTail \/ CbWriteLen \/ CbWriteCount

AudioNext ==
  \/ WriteInit
  \/ AmAudioCtrl
  \/ \E k \in ChunkLens : AmAudioPlay(k)
  \/ CpuStep
  \/ CbStep

(* Both threads run, and SDL keeps calling while the device plays.         *)
AudioFairness == WF_vars(CpuStep) /\ WF_vars(CbStep)

AudioSpec == AudioInit /\ [][AudioNext]_vars /\ AudioFairness

------------------------------------------------------------------------------
(* Types.  The lengths stay below SB_SIZE in every interleaving, so the    *)
(* driver's unsigned SB_SIZE - count never wraps and is never 0, and both  *)
(* indices stay in ring_sbuf.                                              *)
AudioTypeOK ==
  /\ callback \in {"NULL", "audio_callback"}
  /\ opened \in {"closed", "NULL", "audio_callback"}
  /\ {head, tail, audio_len, reg_count, cpu_len, cb_len} \subseteq 0 .. SB_SIZE - 1
  /\ cpu \in {"out", "wait", "store", "update", "len", "count"}
  /\ cb \in {"out", "copy", "update", "len", "count"}
  /\ todo \in Nat /\ copying \in 0 .. StreamLen
  /\ unplayed \in Int /\ raced \in BOOLEAN /\ filled \in BOOLEAN

(* Before a race and before the ring is filled it is a FIFO: SDL plays no  *)
(* byte the guest has not stored, the guest overwrites none SDL has not    *)
(* played, and the bytes a callback has still to copy are all there, while *)
(* the guest goes on storing.                                              *)
RingIsFifo ==
  ~raced /\ ~filled =>
    /\ unplayed < SB_SIZE
    /\ copying <= unplayed
    /\ unplayed = LenOf(head, tail)

(* Until then the count the driver compares its chunk with is never below  *)
(* the number of bytes waiting, though the callback moves head before it   *)
(* writes the count: the driver may wait too long, never store too early.  *)
CountConservative ==
  ~raced /\ ~filled /\ cpu \in {"out", "wait"} => unplayed <= reg_count

(* A chunk the ring can hold is let in, however full the ring is: with the *)
(* callback installed and no race, playing brings the count down.          *)
WaitEnds ==
  (cpu = "wait" /\ todo <= SB_SIZE /\ opened = "audio_callback")
    ~> (cpu # "wait" \/ raced)
==============================================================================
