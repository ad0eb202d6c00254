------------------------------- MODULE Monitor --------------------------------
(***************************************************************************)
(* The monitor around the interpreter: nemu/src/nemu-main.c,               *)
(* nemu/src/monitor/sdb/sdb.c and nemu/src/cpu/cpu-exec.c.                 *)
(*                                                                         *)
(* sdb_mainloop reads commands (or, in batch mode, runs one "c"); c and si *)
(* call cpu_exec(n), which marks the machine RUNNING and calls             *)
(* isa_exec_once at most n times.  The interpreter is BlockCache, whose    *)
(* actions are steps of this module.  mon says where the monitor is:       *)
(*   "prompt"   in sdb_mainloop, about to read a command                   *)
(*   "execute"  at the head of the loop of execute(), n iterations to go   *)
(*   "inside"   in isa_exec_once                                           *)
(*   "exited"   main has returned is_exit_status_bad()                     *)
(***************************************************************************)
EXTENDS BlockCache

CONSTANTS
  ULongMax,   \* 2^64 - 1: the largest n
  SiArgs,     \* what strtol may return for the argument of si
  StepCap     \* bound of the history variable steps

ASSUME MonitorAssumption ==
  /\ ULongMax \in Nat \ {0}
  /\ SiArgs \subseteq Int
  /\ StepCap \in Nat

VARIABLES
  mon,
  n,          \* the argument of execute, counting down
  batch,      \* is_batch_mode
  asked,      \* history: the n of the last cpu_exec that ran
  steps       \* history: the instructions executed since, up to StepCap

sdb_vars == <<mon, n, batch, asked, steps>>
machine_vars == vars
all_vars == <<vars, sdb_vars>>

(* A long assigned to cpu_exec's uint64_t.                                 *)
ToULong(i) == i % (ULongMax + 1)

Ended == {"END", "ABORT", "QUIT"}

(* is_exit_status_bad.                                                     *)
IsExitStatusBadNoRet ==          \* variant: halt_ret is not looked at
  ~ (nemu_state.state \in {"END", "QUIT"})

IsExitStatusBad ==
  ~ \/ nemu_state.state = "END" /\ nemu_state.halt_ret = 0
    \/ nemu_state.state = "QUIT"

------------------------------------------------------------------------------
(* cpu_exec, up to the call of execute.  mstatus is written before         *)
(* anything is looked at, also when the program has ended.                 *)
CpuExecAfterAbort(k) ==          \* variant: ABORT falls to the default case
  /\ csr' = [csr EXCEPT !["mstatus"] = MSTATUS]
  /\ IF nemu_state.state \in {"END", "QUIT"}
       THEN UNCHANGED <<nemu_state, mon, n, asked, steps>>
       ELSE /\ nemu_state' = [nemu_state EXCEPT !.state = "RUNNING"]
            /\ mon' = "execute" /\ n' = k
            /\ asked' = k /\ steps' = 0

CpuExec(k) ==
  /\ csr' = [csr EXCEPT !["mstatus"] = MSTATUS]
  /\ IF nemu_state.state \in Ended
       THEN UNCHANGED <<nemu_state, mon, n, asked, steps>>
       ELSE /\ nemu_state' = [nemu_state EXCEPT !.state = "RUNNING"]
            /\ mon' = "execute" /\ n' = k
            /\ asked' = k /\ steps' = 0

(* The commands.  After one that does not run the guest, the loop reads    *)
(* the next; x reads guest memory, and the process dies if it is not there.*)
Prompt == mon = "prompt" /\ host = "ok"

CpuUntouched ==
  UNCHANGED <<gpr, cpu_pc, mem_vars, block_vars, p, next_pc, label>>

CmdC ==
  /\ Prompt
  /\ CpuExec(ULongMax)
  /\ CpuUntouched /\ UNCHANGED <<host, batch>>

CmdSiUnwrapped ==                \* variant: the long is not converted
  /\ Prompt /\ ~ batch
  /\ \E i \in SiArgs : CpuExec(i)
  /\ CpuUntouched /\ UNCHANGED <<host, batch>>

CmdSi ==
  /\ Prompt /\ ~ batch
  /\ \E i \in SiArgs : CpuExec(ToULong(i))
  /\ CpuUntouched /\ UNCHANGED <<host, batch>>

CmdX ==
  /\ Prompt /\ ~ batch
  /\ \E a \in Word : host' = IF a \in PMem THEN "ok" ELSE "panic"
  /\ CpuUntouched /\ UNCHANGED <<csr, nemu_state, sdb_vars>>

(* q returns -1, which leaves the loop; so does the end of the input.      *)
CmdQ ==
  /\ Prompt /\ ~ batch
  /\ nemu_state' = [nemu_state EXCEPT !.state = "QUIT"]
  /\ mon' = "exited"
  /\ CpuUntouched /\ UNCHANGED <<csr, host, n, batch, asked, steps>>

EndOfInput ==
  /\ Prompt /\ ~ batch
  /\ mon' = "exited"
  /\ CpuUntouched
  /\ UNCHANGED <<csr, nemu_state, host, n, batch, asked, steps>>

------------------------------------------------------------------------------
(* execute(n).                                                             *)
ExecuteCall ==
  /\ mon = "execute" /\ n > 0
  /\ ExecOnce
  /\ mon' = "inside"
  /\ UNCHANGED <<n, batch, asked, steps>>

Interpret ==
  /\ mon = "inside"
  /\ \/ (BlockDispatch \/ OpEnd) /\ UNCHANGED steps
     \/ /\ \/ OpAlu \/ OpLoad \/ OpStore \/ OpJal \/ OpJalr \/ OpBranch
           \/ OpCsr \/ OpEcall \/ OpMret \/ OpEbreak \/ OpInvalid
        /\ steps' = IF steps < StepCap THEN steps + 1 ELSE steps
  /\ UNCHANGED <<mon, n, batch, asked>>

ExecuteReturn ==
  /\ mon = "inside" /\ label = "idle" /\ host = "ok"
  /\ mon' = "execute"
  /\ n' = IF nemu_state.state = "RUNNING" THEN n - 1 ELSE n
  /\ UNCHANGED <<vars, batch, asked, steps>>

(* The end of cpu_exec, and of main in batch mode.                         *)
CpuExecEndNoStop ==              \* variant: RUNNING is left as it is
  /\ mon = "execute" /\ host = "ok"
  /\ n = 0 \/ nemu_state.state # "RUNNING"
  /\ mon' = IF batch THEN "exited" ELSE "prompt"
  /\ UNCHANGED <<vars, n, batch, asked, steps>>

CpuExecEnd ==
  /\ mon = "execute" /\ host = "ok"
  /\ n = 0 \/ nemu_state.state # "RUNNING"
  /\ nemu_state' = IF nemu_state.state = "RUNNING"
                     THEN [nemu_state EXCEPT !.state = "STOP"] ELSE nemu_state
  /\ mon' = IF batch THEN "exited" ELSE "prompt"
  /\ CpuUntouched /\ UNCHANGED <<csr, host, n, batch, asked, steps>>

------------------------------------------------------------------------------
SdbInit ==
  /\ Restart
  /\ nemu_state = Halt("STOP", 0, 0)
  /\ mon = "prompt" /\ n = 0
  /\ batch \in BOOLEAN
  /\ asked = 0 /\ steps = 0

Run == ExecuteCall \/ Interpret \/ ExecuteReturn \/ CpuExecEnd
Command == CmdC \/ CmdSi \/ CmdX \/ CmdQ \/ EndOfInput

SdbNext == Run \/ Command
SdbSpec == SdbInit /\ [][SdbNext]_all_vars

(* Once called, cpu_exec runs on the host's one thread; nothing obliges    *)
(* the user to type.                                                       *)
FairSdbSpec == SdbSpec /\ WF_all_vars(Run)

------------------------------------------------------------------------------
SdbTypeOK ==
  /\ TypeOK
  /\ mon \in {"prompt", "execute", "inside", "exited"}
  /\ n \in 0 .. ULongMax /\ asked \in 0 .. ULongMax
  /\ batch \in BOOLEAN
  /\ steps \in 0 .. StepCap

(* At the prompt the machine is not RUNNING, whatever made cpu_exec        *)
(* return, and the instruction counter shows what was executed.            *)
PromptStopped ==
  (mon \in {"prompt", "exited"} /\ host = "ok") =>
     nemu_state.state # "RUNNING" /\ label = "idle" /\ ahead = 0

(* STOP, the state a debugger would leave a half-run guest in, is only     *)
(* ever the state before the first instruction: isa_exec_once comes back   *)
(* when the guest has ended, never in the middle of it.                    *)
StopIsFresh ==
  nemu_state.state = "STOP" =>
    /\ cpu_pc = RESET_VECTOR
    /\ gpr = [r \in 0 .. Sink |-> 0]
    /\ csr = ResetCsr
    /\ basicblock_cache = [i \in 0 .. NSets - 1 |-> ZeroBlock]

(* cpu_exec overwrites mstatus on every call.  The guest never sees it:    *)
(* a call that lets the guest run leaves the CSRs as they were.            *)
ResumeKeepsCsr ==
  [][nemu_state.state # "RUNNING" /\ nemu_state'.state = "RUNNING"
       => UNCHANGED csr]_all_vars

(* A program that has ended stays ended: no command changes its registers, *)
(* pc, memory or exit code, or lets it run again.                          *)
EndedIsFinal ==
  [][nemu_state.state \in Ended /\ mon = "prompt"
       => /\ UNCHANGED <<gpr, cpu_pc, mem>>
          /\ nemu_state'.state \in {nemu_state.state, "QUIT"}
          /\ nemu_state'.halt_pc = nemu_state.halt_pc
          /\ nemu_state'.halt_ret = nemu_state.halt_ret]_all_vars

(* In batch mode exit status 0 means that the guest hit a good trap: its   *)
(* last instruction was ebreak, with 0 in a0.                              *)
GoodExit ==
  (mon = "exited" /\ batch /\ ~ IsExitStatusBad) =>
     /\ nemu_state.state = "END"
     /\ gpr[A0] = 0
     /\ cpu_pc = Plus(nemu_state.halt_pc, 1)

(* Once the guest has stopped itself, the command that ran it comes back   *)
(* to the prompt, or ends the batch run, or the process dies.              *)
CommandReturns ==
  (mon \in {"execute", "inside"} /\ nemu_state.state # "RUNNING")
     ~> (mon \in {"prompt", "exited"} \/ host # "ok")

(* si N executes at most N instructions: "Step [N], default one".          *)
StepBounded == mon \in {"execute", "inside"} => steps <= asked
==============================================================================
