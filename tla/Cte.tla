--------------------------------- MODULE Cte ---------------------------------
(***************************************************************************)
(* The context extension of the abstract machine on NEMU: cte_init,        *)
(* kcontext, yield, the trap entry __am_asm_trap and __am_irq_handle,      *)
(* around the ecall and mret of the interpreter.  A step is one of them, or *)
(* one instruction of a thread.                                            *)
(*                                                                         *)
(* A thread is a loop of three instructions, the second of which is the    *)
(* ecall of yield; what it computes is any value in any register, and what *)
(* it calls moves its stack pointer.  The scheduler is the guest's: it is  *)
(* given the context of the thread that yields and returns any context it  *)
(* was given before or that kcontext made.  Memory is an array of words,   *)
(* one stack per thread; code is not in it.                                *)
(***************************************************************************)
EXTENDS Integers

CONSTANTS
  NR_REGS,     \* 32; 16 with RVE
  KCONTEXT,    \* 35, the words of a context as kcontext has them
  A0,          \* 10
  Threads,     \* 0 is main, which has no context until it yields
  StackWords,  \* the size of a stack
  Vals,        \* what a thread computes
  Junk         \* what a word of memory holds before it is written

(* cte.c hard-codes the number, trap.S derives its own from NR_REGS: they  *)
(* agree with 32 registers, and with RVE (35 against 19) they do not.      *)
ASSUME KcontextAssumption == KCONTEXT = NR_REGS + 3

ASSUME CteAssumption ==
  /\ NR_REGS \in Nat /\ A0 \in 3 .. NR_REGS - 1
  /\ 0 \in Threads /\ Threads \subseteq Nat
  /\ \E last \in Threads : \A t \in Threads : t <= last
  /\ StackWords \in Nat /\ StackWords > NR_REGS + 4
  /\ Vals \subseteq Nat /\ Junk \in Nat

VARIABLES
  gpr, pc, mstatus, mepc, mcause, mtvec,
  mem,
  user_handler, \* NULL, or the guest's scheduler
  where,        \* "user", or the part of the trap entry that is next
  pcb,          \* the scheduler's context pointers, 0 for none
  cur,          \* history: the thread whose turn it is
  kept          \* history: what each thread must find when it has its turn

cpu_state == <<gpr, pc, mstatus, mepc, mcause, mtvec>>
cte_vars  == <<cpu_state, mem, user_handler, where, pcb, cur, kept>>

SP        == 2
Saved     == 1 .. NR_REGS - 1 \ {SP}                     \* REGS(f)
CONTEXT_SIZE  == NR_REGS + 3
OFFSET_CAUSE  == NR_REGS
OFFSET_STATUS == NR_REGS + 1
OFFSET_EPC    == NR_REGS + 2

TrapEntry == 4                                           \* &__am_asm_trap
Entry(t)  == 100 * (t + 1)
StackEnd(t) == (t + 1) * StackWords
LastThread == CHOOSE t \in Threads : \A u \in Threads : u <= t

------------------------------------------------------------------------------
CteStart ==
  /\ gpr = [r \in 1 .. NR_REGS - 1 |-> IF r = SP THEN StackEnd(0) ELSE 0]
  /\ pc = Entry(0) /\ mstatus = 0 /\ mepc = 0 /\ mcause = 0 /\ mtvec = 0
  /\ mem = [a \in 0 .. StackEnd(LastThread) - 1 |-> Junk]
  /\ user_handler = "NULL" /\ where = "user"
  /\ pcb = [t \in Threads |-> 0] /\ cur = 0
  /\ kept = [t \in Threads |-> [pc |-> 0, regs |-> << >>, stack |-> << >>]]

(* The thread that runs goes on: kept follows what it does itself.         *)
Keep(p, g, s) == kept' = [kept EXCEPT ![cur] = [pc |-> p, regs |-> g, stack |-> s]]

cte_init ==
  /\ where = "user" /\ cur = 0 /\ mtvec = 0
  /\ mtvec' = TrapEntry
  /\ \E h \in {"NULL", "schedule"} : user_handler' = h
  /\ UNCHANGED <<gpr, pc, mstatus, mepc, mcause, mem, where, pcb, cur, kept>>

(* kcontext: the last word of the context is its mepc.                     *)
kcontextAt(t, arg, entry) ==
  LET c == StackEnd(t) - KCONTEXT
  IN  /\ where = "user" /\ t # cur /\ pcb[t] = 0
      /\ mem' = [mem EXCEPT ![c + KCONTEXT - 1] = entry, ![c + A0] = arg]
      /\ pcb' = [pcb EXCEPT ![t] = c]
      /\ kept' = [kept EXCEPT ![t] = [pc   |-> Entry(t),
                                      regs |-> [r \in {SP, A0} |->
                                         IF r = SP THEN StackEnd(t) ELSE arg],
                                      stack |-> << >>]]
      /\ UNCHANGED <<cpu_state, user_handler, where, cur>>

kcontextPlain(t, arg) ==         \* variant: without the - 4
  kcontextAt(t, arg, Entry(t))

kcontext(t, arg) == kcontextAt(t, arg, Entry(t) - 4)

(* An instruction of the thread: a value, a push or a pop, or its jump.    *)
Compute ==
  /\ where = "user" /\ pc = Entry(cur)
  /\ pc' = pc + 4
  /\ \/ /\ \E r \in Saved, v \in Vals : gpr' = [gpr EXCEPT ![r] = v]
        /\ mem' = mem
        /\ Keep(pc', gpr', kept[cur].stack)
     \/ /\ gpr[SP] = StackEnd(cur)
        /\ gpr' = [gpr EXCEPT ![SP] = @ - 1]
        /\ mem' = [mem EXCEPT ![gpr[SP] - 1] = gpr[1]]
        /\ Keep(pc', gpr', <<gpr[1]>>)
     \/ /\ gpr[SP] < StackEnd(cur)
        /\ gpr' = [gpr EXCEPT ![SP] = @ + 1, ![1] = mem[gpr[SP]]]
        /\ mem' = mem
        /\ Keep(pc', gpr', << >>)
  /\ UNCHANGED <<mstatus, mepc, mcause, mtvec, user_handler, where, pcb, cur>>

Loop ==
  /\ where = "user" /\ pc = Entry(cur) + 8
  /\ pc' = Entry(cur)
  /\ Keep(pc', gpr, kept[cur].stack)
  /\ UNCHANGED <<gpr, mstatus, mepc, mcause, mtvec, mem, user_handler, where, pcb, cur>>

(* yield: without cte_init mtvec is 0 and NEMU stops there.                *)
yield ==
  /\ where = "user" /\ pc = Entry(cur) + 4 /\ mtvec = TrapEntry
  /\ mepc' = pc /\ mcause' = 11
  /\ pc' = mtvec /\ where' = "push"
  /\ Keep(pc + 4, gpr, kept[cur].stack)           \* where it goes on
  /\ UNCHANGED <<gpr, mstatus, mtvec, mem, user_handler, pcb, cur>>

(* The saved words go below the thread's stack pointer.                    *)
Context(c) ==
  [a \in c .. c + CONTEXT_SIZE - 1 |->
     CASE a - c \in Saved         -> gpr[a - c]
       [] a - c = OFFSET_CAUSE  -> mcause
       [] a - c = OFFSET_STATUS -> mstatus
       [] a - c = OFFSET_EPC    -> mepc
       [] OTHER                 -> mem[a]]

PushContext ==
  LET c == gpr[SP] - CONTEXT_SIZE
  IN  /\ where = "push"
      /\ mem' = [a \in DOMAIN mem |-> IF a \in DOMAIN Context(c) THEN Context(c)[a] ELSE mem[a]]
      /\ gpr' = [gpr EXCEPT ![SP] = c, ![A0] = c]
      /\ mstatus' = 1                                    \* MPRV
      /\ where' = "handle"
      /\ UNCHANGED <<pc, mepc, mcause, mtvec, user_handler, pcb, cur, kept>>

(* The handler runs below the context and leaves what it likes there.      *)
(* Without a user_handler the thread goes on itself; mcause is always 11.  *)
__am_irq_handle ==
  /\ where = "handle"
  /\ mem' = [mem EXCEPT ![gpr[SP] - 1] = Junk + 1]
  /\ \/ /\ user_handler = "NULL"
        /\ UNCHANGED <<gpr, pcb, cur>>
     \/ /\ user_handler = "schedule"                     \* EVENT_YIELD
        /\ \E t \in Threads :
             /\ pcb' = [pcb EXCEPT ![cur] = gpr[A0]]
             /\ pcb'[t] # 0
             /\ cur' = t
             /\ gpr' = [gpr EXCEPT ![A0] = pcb'[t]]
  /\ where' = "pop"
  /\ UNCHANGED <<pc, mstatus, mepc, mcause, mtvec, user_handler, kept>>

PopContext ==
  LET c == gpr[A0]
  IN  /\ where = "pop"
      /\ gpr' = [r \in DOMAIN gpr |-> IF r = SP THEN c + CONTEXT_SIZE ELSE mem[c + r]]
      /\ mstatus' = mem[c + OFFSET_STATUS]
      /\ mepc' = mem[c + OFFSET_EPC] + 4
      /\ pc' = mepc'                                     \* mret
      /\ where' = "user"
      /\ UNCHANGED <<mcause, mtvec, mem, user_handler, pcb, cur, kept>>

CteNext ==
  \/ cte_init
  \/ \E t \in Threads \ {0}, arg \in Vals : kcontext(t, arg)
  \/ Compute \/ Loop
  \/ yield \/ PushContext \/ __am_irq_handle \/ PopContext

CteSpec == CteStart /\ [][CteNext]_cte_vars

------------------------------------------------------------------------------
(* A thread never notices the others: whenever it has its turn it is at    *)
(* the instruction after its yield, with its registers and its stack as    *)
(* they were, and the first time at its entry with its argument *)
(* and an empty stack, whichever of the two its context came from.         *)
ContextKept ==
  where = "user" /\ kept[cur].regs # << >> =>
    /\ pc = kept[cur].pc
    /\ \A r \in DOMAIN kept[cur].regs : gpr[r] = kept[cur].regs[r]
    /\ kept[cur].stack # << >> => mem[gpr[SP]] = kept[cur].stack[1]
==============================================================================
