------------------------------- MODULE MCKconfig -------------------------------
(* A Kconfig of NEMU's shape in small: a bool, one that may depend on it,  *)
(* one with any condition of a few forms on the two, a choice and a string *)
(* that follows it, an integer, below a bool without a prompt, that is     *)
(* typed as are a hexadecimal number and a string; and files whose bools   *)
(* refer to each other in many ways.                                       *)
EXTENDS Kconfig

MCType == [s \in {"TRACE", "ITRACE", "DIFFTEST", "REF", "QEMU", "SPIKE",
                  "REF_NAME", "ISA64", "TRACE_END", "MBASE", "IMG_PATH", "y", "m", "n"} |->
  CASE s \in Constant -> "S_UNKNOWN" [] s \in {"REF_NAME", "IMG_PATH"} -> "S_STRING"
    [] s = "TRACE_END" -> "S_INT" [] s = "MBASE" -> "S_HEX" [] OTHER -> "S_BOOLEAN"]

MCMenu == <<"TRACE", "ITRACE", "DIFFTEST", "REF", "REF_NAME", "ISA64", "TRACE_END",
            "MBASE", "IMG_PATH">>
MCMembers == <<"QEMU", "SPIKE">>
MCPrompted == DOMAIN MCType \ (Constant \cup {"REF_NAME", "ISA64"})

(* What is typed: a number, one that C would take for another, a number    *)
(* without the prefix, and a path of characters that are hard to write.    *)
MCTyped == [s \in {"TRACE_END", "MBASE", "IMG_PATH"} |->
  CASE s = "TRACE_END" -> {<<"-", "9">>, <<"0", "1", "0">>} [] s = "MBASE" -> {<<"0", "9">>}
    [] s = "IMG_PATH" -> {<<"a", "\\", "\"">>}]

T == Sym("TRACE")
I == Sym("ITRACE")
D == Sym("DIFFTEST")
S == Sym("SPIKE")
Never == Sym("n")
(* File: the conditions of ITRACE, DIFFTEST, TRACE_END, MBASE, IMG_PATH;   *)
(* with those of TRACE and SPIKE, and a default of DIFFTEST, it is any.    *)
Shape(trace, itrace, difftest, spike, default, end, base, path) ==
  [depends |-> [s \in DOMAIN MCType \ Constant |->
     CASE s = "TRACE" -> trace [] s = "ITRACE" -> itrace [] s = "DIFFTEST" -> difftest
       [] s = "REF" -> D [] s = "SPIKE" -> spike
       [] s = "TRACE_END" -> end [] s = "MBASE" -> base [] s = "IMG_PATH" -> path
       [] OTHER -> NULL],
   default |-> [s \in DOMAIN MCType \ Constant |->
     CASE s = "ITRACE" -> <<<<Sym("y"), NULL>>>> [] s = "DIFFTEST" -> default
       [] s = "REF" -> <<<<"SPIKE", T>>, <<"QEMU", NULL>>>>
       [] s = "REF_NAME" -> <<<< <<"q">>, Sym("QEMU")>>, << <<"s">>, S>>, << <<"0">>, NULL>>>>
       [] s = "ISA64" -> <<<<Sym("y"), T>>>> [] s = "TRACE_END" -> <<<< <<"0">>, NULL>>>>
       [] s = "MBASE" -> <<<< <<"0", "x", "0">>, I>>, << <<"1", "0">>, NULL>>>>
       [] s = "IMG_PATH" -> <<<< <<>>, NULL>>>> [] OTHER -> <<>>]]
File(itrace, difftest, end, base, path) ==
  Shape(NULL, itrace, difftest, I, <<>>, end, base, path)

Leaves == {T, I, <<"=", "TRACE", "y">>, <<"!=", "ITRACE", "n">>,
           <<"=", "ITRACE", "TRACE">>}
Some == Leaves \cup {Not(e) : e \in Leaves}
Pair == {<<o, e, f>> : o \in {"and", "or"}, e \in Leaves, f \in Some}
Three == {<<"and", <<"or", e, f>>, g>> : e \in Leaves, f \in {I, Not(T)}, g \in {T, Not(I)}}
           \cup {Not(<<"or", e, <<"and", f, T>>>>) : e \in Leaves, f \in {I, Not(T)}}
MCSaved == {File(T, NULL, Never, Never, Never), File(T, Never, Sym("ISA64"), Never, Never),
            File(Never, Never, Never, T, NULL)}
Loops == {Shape(t, i, d, s, default, Never, Never, Never) :
            t \in {NULL, D, Not(S)}, i \in {NULL, T, <<"or", T, D>>}, d \in {NULL, I, Sym("QEMU")},
            s \in {NULL, Sym("QEMU"), <<"and", I, T>>}, default \in {<<>>, <<<<T, I>>>>}}
MCFiles == MCSaved \cup Loops \cup
  {File(i, e, Never, Never, Never) : i \in {NULL, T}, e \in Pair \cup Three}

MCNames == DOMAIN MCType \ (Constant \cup {"REF"})
MCBools == {s \in MCNames : MCType[s] = "S_BOOLEAN"}
MCIncludes == [o \in {"dut", "trace"} |->
  IF o = "dut" THEN {"dut.c", "difftest.h", "autoconf.h"} ELSE {"trace.c", "autoconf.h"}]
MCWords == [f \in {"dut.c", "difftest.h", "trace.c", "autoconf.h"} |->
  CASE f = "dut.c" -> {"SPIKE"} [] f = "difftest.h" -> {"REF_NAME"}
    [] f = "trace.c" -> {"TRACE_END", "MBASE"} [] OTHER -> DOMAIN MCType \ Constant]
================================================================================
