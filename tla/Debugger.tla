-------------------------------- MODULE Debugger --------------------------------
(***************************************************************************)
(* nemu/src/monitor/sdb: the commands of the prompt that evaluate          *)
(* expressions and keep watchpoints (watchpoint.c, and cmd_w, cmd_d,       *)
(* cmd_p and cmd_t of sdb.c).                                              *)
(*                                                                         *)
(* The pool is an array of nodes linked into two lists, head and free_;    *)
(* NULL ends a list.  The guest changes the registers between commands.    *)
(* Nothing compares a watched expression with its old value: WP_checking   *)
(* is called from a function cpu-exec.c has commented out.                 *)
(***************************************************************************)
EXTENDS SdbExpr

CONSTANTS
  NR_WP,          \* 32
  Watched, Texts, \* what the user types after w, and after w or p
  GuestRegs,      \* the registers the guest may leave
  GenNumbers, GenOperators,       \* bounds of gen-expr: what it prints,
  MaxTokens, MaxIntTokens,        \* and how long a line of it gets
  TestReg,        \* the registers when an expression of gen-expr is tested
  None

ASSUME DebuggerAssumption ==
  NR_WP \in Nat \ {0} /\ GuestRegs \subseteq [Registers -> 0..(Word - 1)]

ASSUME WatchedAssumption ==
  Watched \subseteq Seq(Token) /\ None \notin Watched

NULL == -1
Nodes == 0..(NR_WP - 1)

VARIABLES
  wp_pool,        \* wp_pool[i]: next, expr, old_value
  head, free_,
  reg,            \* the registers of the guest
  alive,          \* the debugger has not crashed
  said,           \* what the last w or d answered, or None
  line,           \* the line of the test file, or None
  result          \* what t computed for it

pool == <<wp_pool, head, free_>>
vars == <<pool, reg, alive, said, line, result>>

Leaves == {Number(n) : n \in GenNumbers}
            \union {Register(r, TestReg) : r \in DOMAIN TestReg}

Values == 0..(Word - 1)

(* gen-expr prints numbers and the operators expr.c knows; the registers   *)
(* it is tested with hold words.                                           *)
ASSUME GenAssumption ==
  /\ GenNumbers \subseteq Int /\ GenOperators \subseteq Operators
  /\ Registers \subseteq STRING /\ TestReg \in [Registers -> Values]

------------------------------------------------------------------------------
Init ==
  /\ wp_pool = [i \in Nodes |->
       [next |-> IF i = NR_WP - 1 THEN NULL ELSE i + 1,
        expr |-> None, old_value |-> 0]]
  /\ head = NULL /\ free_ = 0
  /\ reg \in GuestRegs
  /\ alive = TRUE /\ said = None
  /\ line \in Leaves \union {None}
  /\ line # None => reg = TestReg
  /\ result = None

(* cmd_w, set_wp, new_wp: the node is on the list before the expression is *)
(* evaluated; 0 is what an expression that is not one is worth.            *)
cmd_w(text) ==
  LET value == expr(text, reg)
  IN /\ line = None
     /\ free_ # NULL
     /\ IF value = Crash
          THEN /\ alive' = FALSE /\ UNCHANGED pool
               /\ said' = [w |-> text, died |-> TRUE]
          ELSE /\ wp_pool' = [wp_pool EXCEPT ![free_] =
                    [next |-> head, expr |-> text, old_value |-> value]]
               /\ head' = free_ /\ free_' = wp_pool[free_].next
               /\ said' = [w |-> text, NO |-> free_]
               /\ UNCHANGED alive
     /\ UNCHANGED <<reg, line, result>>

(* "No More Free Watchpoints."                                             *)
cmd_wFull(text) ==
  /\ line = None
  /\ free_ = NULL
  /\ said' = [w |-> text, failed |-> TRUE]
  /\ UNCHANGED <<pool, reg, alive, line, result>>

(* The nodes of a list of the pool wps, from the node start.               *)
Chain(wps, start) ==
  LET node[k \in 1..(NR_WP + 1)] ==
        IF k = 1 THEN start
        ELSE IF node[k - 1] = NULL THEN NULL ELSE wps[node[k - 1]].next
      length == Cardinality({k \in 1..(NR_WP + 1) : node[k] # NULL})
  IN [k \in 1..length |-> node[k]]

Watching == Chain(wp_pool, head)
Free == Chain(wp_pool, free_)

(* delete_watchpoint: the first node, a later one, or none.  It reads      *)
(* head->NO without looking whether there is a head.                       *)
DeleteHeadFreed(NO) ==           \* variant: freed before head moves on
  /\ head = NO
  /\ head' = free_
  /\ free_' = NO
  /\ wp_pool' = [wp_pool EXCEPT ![NO].next = free_]
  /\ said' = [d |-> NO, success |-> TRUE]
  /\ UNCHANGED alive

DeleteHead(NO) ==
  /\ head = NO
  /\ head' = wp_pool[NO].next
  /\ free_' = NO
  /\ wp_pool' = [wp_pool EXCEPT ![NO].next = free_]
  /\ said' = [d |-> NO, success |-> TRUE]
  /\ UNCHANGED alive

DeleteLaterFreed(NO) ==          \* variant: t is read after free_wp
  /\ head # NO
  /\ \E k \in 2..Len(Watching) :
       /\ Watching[k] = NO
       /\ free_' = NO
       /\ wp_pool' = [wp_pool EXCEPT ![NO].next = free_,
                                     ![Watching[k - 1]].next = free_]
  /\ said' = [d |-> NO, success |-> TRUE]
  /\ UNCHANGED <<head, alive>>

DeleteLater(NO) ==
  /\ head # NO
  /\ \E k \in 2..Len(Watching) :
       /\ Watching[k] = NO
       /\ free_' = NO
       /\ wp_pool' = [wp_pool EXCEPT ![NO].next = free_,
                         ![Watching[k - 1]].next = wp_pool[NO].next]
  /\ said' = [d |-> NO, success |-> TRUE]
  /\ UNCHANGED <<head, alive>>

DeleteNone(NO) ==
  /\ \A k \in DOMAIN Watching : Watching[k] # NO
  /\ alive' = (head # NULL)
  /\ said' = IF head = NULL THEN [d |-> NO, died |-> TRUE]
                            ELSE [d |-> NO, success |-> FALSE]
  /\ UNCHANGED pool

Asked == 0..NR_WP                \* the numbers typed after d

cmd_d(NO) ==
  /\ line = None
  /\ DeleteHead(NO) \/ DeleteLater(NO) \/ DeleteNone(NO)
  /\ UNCHANGED <<reg, line, result>>

cmd_p(text) ==
  /\ line = None
  /\ alive' = (expr(text, reg) # Crash)
  /\ UNCHANGED <<pool, reg, said, line, result>>

(* gen_rand_expr of tools/gen-expr: the line grows, before it is tested.   *)
Operands ==
  Leaves \union {Join(op, a, b) : op \in GenOperators, a, b \in Leaves}

(* The bound: arithmetic on comparisons is longer than the rest.           *)
Fits(phrase) ==
  Len(phrase.text) <= IF phrase.int /\ phrase.rank \in {1, 2}
                        THEN MaxIntTokens ELSE MaxTokens

gen_rand_expr ==
  /\ line # None /\ result = None
  /\ \/ line' = Group(line)
     \/ \E op \in GenOperators, b \in Operands :
          line' \in {Join(op, line, b), Join(op, b, line)}
  /\ Fits(line')
  /\ UNCHANGED <<pool, reg, alive, said, result>>

(* t goes on to the next line if the value is the one of the line, and     *)
(* ends otherwise; the model looks at one line.                            *)
cmd_t ==
  LET value == expr(line.text, reg)
  IN /\ line # None /\ result = None
     /\ result' = value
     /\ alive' = (value # Crash)
     /\ UNCHANGED <<pool, reg, said, line>>

(* c, si: the guest runs.                                                  *)
cpu_exec ==
  /\ line = None
  /\ reg' \in GuestRegs
  /\ UNCHANGED <<pool, alive, said, line, result>>

Next ==
  /\ alive
  /\ \/ \E text \in Watched : cmd_w(text) \/ cmd_wFull(text)
     \/ \E text \in Texts : cmd_p(text)
     \/ \E NO \in Asked : cmd_d(NO)
     \/ gen_rand_expr
     \/ cmd_t
     \/ cpu_exec

Spec == Init /\ [][Next]_vars

------------------------------------------------------------------------------
(* Every node of the pool is on exactly one of the two lists, once, after  *)
(* any sequence of w and d, and a watched node has its expression.         *)
PoolPartition ==
  LET all == Watching \o Free
  IN /\ \A i \in Nodes :
          Cardinality({k \in DOMAIN all : all[k] = i}) = 1
     /\ \A k \in DOMAIN Watching : wp_pool[Watching[k]].expr # None

(* To its user the pool is the list of WatchList: w sets a watchpoint with *)
(* an unused number, the text and its value now, in front, and is refused  *)
(* only when NR_WP are set; d removes the one with the number it is given, *)
(* whatever its place, leaves the others in order with their numbers and   *)
(* values, fails only for a number that is not set, and kills the debugger *)
(* only when none is; nothing else changes the list, and every answer      *)
(* names what was done.                                                    *)
Watches ==
  LET watching == Watching
  IN [k \in DOMAIN watching |->
        [NO |-> watching[k], expr |-> wp_pool[watching[k]].expr,
         old_value |-> wp_pool[watching[k]].old_value]]

List == INSTANCE WatchList
          WITH watches <- Watches, Exprs <- Watched,
               worth <- [text \in Watched |-> expr(text, reg)]

WatchesAreAList == List!Spec

(* eval gives an expression the value the C compiler gives it: precedence, *)
(* associativity, parentheses, negative numbers, wrap-around, the short    *)
(* circuit of && and the death by division by zero, and the arithmetic of  *)
(* int on what comparisons give.  Excluded is what the code is wrong       *)
(* about: for preprocessing a "-" between a register and a number, for     *)
(* eval the quotient of two ints of which one is negative.  An int that    *)
(* overflows has no value in C.                                            *)
RegMinusNum(text) ==
  \E i \in DOMAIN text :
    /\ i + 2 <= Len(text) /\ text[i].type = "reg"
    /\ text[i + 1].type = "-" /\ text[i + 2].type = "num"

ExprIsC ==
  /\ result # None
  /\ ~ RegMinusNum(line.text) /\ ~ line.signed
  /\ line.value # Undefined
  => result = line.value
================================================================================
