------------------------------ MODULE Brainfuck ------------------------------
(***************************************************************************)
(* microbench/src/bf/bf.c: a program is compiled, its brackets linked, and *)
(* executed.  An instruction is its character with an operand; program     *)
(* counters and pointers count from 0 as in C.                             *)
(***************************************************************************)
EXTENDS Integers, SequencesExt

PROGRAM_SIZE == 4096
STACK_SIZE   == 512

(* The program the benchmark runs.                                         *)
CODE == <<
  ">",">","+",">",">",">",">",">",",","[",">","+",">",">",",","]",">","+","[",
  "-","-","[","+","<","<","<","-","]","<","[","<","+",">","-","]","<","[","<",
  "[","-",">","[","<","<","<","+",">",">",">",">","+","<","-","]","<","<","[",
  ">",">","+",">","[","-",">","]","<","<","[","<","]","<","-","]",">","]",">",
  ">",">","+","<","[","[","-","]","<","[",">","+","<","-","]","<","]",">","[",
  "[",">",">",">","]","+","<","<","<","-","<","[","<","<","[","<","<","<","]",
  ">",">","+",">","[",">",">",">","]","<","-","]","<","<","[","<","<","<","]",
  ">","[",">",">","[",">",">",">","]","<","+","<","<","[","<","<","<","]",">",
  "-","]","]","+","<","<","<","]","+","[","-",">",">",">","]",">",">","]",">",
  ">","[",".",">",">",">","]">>

(* compile_bf, one character: the jump forward waits on the stack for the  *)
(* bracket that closes it.                                                 *)
Emit(s, c, operand) ==
  [s EXCEPT !.program = Append(@, [operator |-> c, operand |-> operand])]

Compile(s, c) ==
  LET pc == Len(s.program)
  IN  CASE pc >= PROGRAM_SIZE \/ c \notin ToSet(CODE) -> s
        [] c = "[" /\ Len(s.stack) = STACK_SIZE -> [s EXCEPT !.failure = TRUE]
        [] c = "[" /\ Len(s.stack) < STACK_SIZE ->
             [Emit(s, c, 0) EXCEPT !.stack = Append(@, pc)]
        [] c = "]" /\ s.stack = << >> -> [s EXCEPT !.failure = TRUE]
        [] c = "]" /\ s.stack # << >> ->
             [Emit(s, c, Last(s.stack)) EXCEPT !.stack = Front(@),
                                               !.program[Last(s.stack) + 1].operand = pc]
        [] OTHER -> Emit(s, c, 0)

(* The characters from l to r - 1, by halves.                              *)
RECURSIVE CompileAll(_, _, _, _)
CompileAll(s, code, l, r) ==
  IF s.failure THEN s
  ELSE IF r - l = 1 THEN Compile(s, code[l])
  ELSE LET m == (l + r) \div 2
       IN  CompileAll(CompileAll(s, code, l, m), code, m, r)

compile_bf(code) ==
  CompileAll([program |-> << >>, stack |-> << >>, failure |-> FALSE],
             code, 1, Len(code) + 1)

(* execute_bf: data holds unsigned shorts, output chars.  input is what    *)
(* has not been read yet; after it there is a 0.                           *)
Jump(s, c, operand) ==
  IF (c = "[") = (s.data[s.ptr] = 0) THEN operand + 1 ELSE s.pc + 1

Perform(s, i) ==
  LET t == [s EXCEPT !.pc = @ + 1]
  IN  CASE i.operator = ">" -> [t EXCEPT !.ptr = @ + 1]
        [] i.operator = "<" -> [t EXCEPT !.ptr = @ - 1]
        [] i.operator = "+" -> [t EXCEPT !.data[s.ptr] = (@ + 1) % 2 ^ 16]
        [] i.operator = "-" -> [t EXCEPT !.data[s.ptr] = (@ - 1) % 2 ^ 16]
        [] i.operator = "." -> [t EXCEPT !.output = Append(@, s.data[s.ptr] % 2 ^ 8)]
        [] i.operator = "," -> [t EXCEPT !.data[s.ptr] = (s.input \o <<0>>)[1],
                                         !.input = SubSeq(@, 2, Len(@))]
        [] i.operator \in {"[", "]"} -> [s EXCEPT !.pc = Jump(s, i.operator, i.operand)]

Ended(s) == s.pc = Len(s.program) \/ s.ptr \notin DOMAIN s.data

(* At most n instructions, by halves; then as many more as it takes.       *)
RECURSIVE Steps(_, _), execute_bf(_)
Steps(s, n) ==
  IF Ended(s) THEN s
  ELSE IF n = 1 THEN Perform(s, s.program[s.pc + 1])
  ELSE Steps(Steps(s, n \div 2), n - n \div 2)
execute_bf(s) == IF Ended(s) THEN s.output ELSE execute_bf(Steps(s, 256))

bench_bf_run(input, DATA_SIZE) ==
  execute_bf([program |-> compile_bf(CODE).program, pc |-> 0, ptr |-> 0,
              data |-> [i \in 0 .. DATA_SIZE - 1 |-> 0],
              input |-> input, output |-> << >>])
==============================================================================
