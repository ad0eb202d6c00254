------------------------------- MODULE MCDebugger -------------------------------
(* Three-bit words, one register, and a pool of three.  The lines of the   *)
(* test file are the expressions of up to seven tokens over two numbers    *)
(* and the register, with an operator of every rank and a division, and    *)
(* the sums, products and quotients of comparisons of up to twelve: ints   *)
(* in C, the negative ones among them.  What the user types also has no    *)
(* token, a bad one, a missing operand, a division by a register, an       *)
(* unknown register, and parentheses that do not match.                    *)
EXTENDS Debugger

MCNumbers == {3, -2}
MCGuestRegs == [Registers -> {0, 5}]
MCTestReg == [r \in Registers |-> 5]

A0 == [type |-> "reg", val |-> "a0"]
Num(n) == [type |-> "num", val |-> n]

MCWatched ==
  {<<A0>>, <<>>, <<Num(6), Tok("/"), A0>>,
   <<[type |-> "reg", val |-> "zero"]>>}

MCTexts ==
  MCWatched \union
  {<<Tok("none")>>, <<A0, Tok("*")>>,
   <<Tok("("), A0, Tok(")"), Tok(")"), Tok("+"), Tok("("), A0, Tok(")")>>,
   <<Tok("("), Tok("("), A0, Tok("-"), Num(1), Tok(")")>>}
================================================================================
