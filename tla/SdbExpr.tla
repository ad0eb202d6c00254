-------------------------------- MODULE SdbExpr --------------------------------
(***************************************************************************)
(* nemu/src/monitor/sdb/expr.c: the expressions of the debugger, from the  *)
(* lexemes make_token recognises to the value eval computes.               *)
(*                                                                         *)
(* A token is [type, val]; val is the value strtol reads from the text of  *)
(* a number, and the name of a register.  Words are taken modulo Word.     *)
(***************************************************************************)
EXTENDS Integers, Sequences, FiniteSets

CONSTANTS
  Word,           \* 2^32
  Registers       \* the names isa_reg_str2val knows

ASSUME SdbExprAssumption == Word \in Nat /\ Word > 1

Operators == {"*", "/", "+", "-", "!=", "==", "&&"}

(* What make_token makes of a lexeme: one no rule matches is a "none".     *)
Token ==
       [type : {"num"}, val : Int]
  \union [type : {"reg"}, val : STRING]
  \union [type : {"none", "(", ")"} \union Operators, val : {0}]

(* What an evaluation may end in besides a word: *warning set, or the end  *)
(* of the debugger (SIGFPE, SIGSEGV).                                      *)
Warning == -1
Crash == -2
IsWord(v) == v >= 0

(* The classes get_op_position compares by the order of the enumeration.   *)
Rank(type) == CASE type \in {"*", "/"} -> 1
                [] type \in {"+", "-"} -> 2
                [] type \in {"!=", "=="} -> 3
                [] type = "&&" -> 4

------------------------------------------------------------------------------
(* make_token fails on a lexeme no rule matches.                           *)
make_token(text) == \A i \in DOMAIN text : text[i].type # "none"

(* preprocessing: a "-" before a number, first or after anything but a     *)
(* number or a ")", becomes part of the number.                            *)
Negates(tokens, i) ==
  /\ tokens[i].type = "-"
  /\ i < Len(tokens) /\ tokens[i + 1].type = "num"
  /\ i = 1 \/ tokens[i - 1].type \notin {"num", ")"}

Kept(tokens) == {i \in DOMAIN tokens : i = 1 \/ ~ Negates(tokens, i - 1)}

(* The k-th of a set of positions.                                         *)
Nth(S, k) == CHOOSE i \in S : Cardinality({j \in S : j <= i}) = k

preprocessing(tokens) ==
  [k \in 1..Cardinality(Kept(tokens)) |->
     LET i == Nth(Kept(tokens), k)
     IN IF Negates(tokens, i)
          THEN [type |-> "num", val |-> - tokens[i + 1].val]
          ELSE tokens[i]]

(* The "(" of i is closed at the first place where the balance is 0.       *)
Balance(tokens, i, j) ==
  Cardinality({k \in i..j : tokens[k].type = "("})
    - Cardinality({k \in i..j : tokens[k].type = ")"})

Closes(tokens, i, j) ==
  /\ Balance(tokens, i, j) = 0
  /\ \A k \in i..(j - 1) : Balance(tokens, i, k) # 0

(* get_op_position: of the operators outside parentheses, the last of the  *)
(* weakest; none if there is none, or if a "(" is not closed.  skip is     *)
(* where the positions outside are from a later one on.                    *)
OutsideFrom(skip, tokens, i, right) ==
  IF i > right THEN {}
  ELSE IF tokens[i].type # "(" THEN {i} \union skip[i + 1]
  ELSE IF \E j \in i..right : Closes(tokens, i, j)
    THEN skip[1 + CHOOSE j \in i..right : Closes(tokens, i, j)]
    ELSE {0}

Outside(tokens, left, right) ==
  LET skip[i \in left..(right + 1)] == OutsideFrom(skip, tokens, i, right)
  IN skip[left]

NoPosition == 0

get_op_positionFirst(tokens, left, right) ==   \* variant: the first of them
  LET outside == Outside(tokens, left, right)
      ops == {i \in outside \ {0} : tokens[i].type \in Operators}
      weakest == {i \in ops : \A j \in ops :
                    Rank(tokens[j].type) <= Rank(tokens[i].type)}
  IN IF 0 \in outside \/ ops = {} THEN NoPosition
     ELSE CHOOSE i \in weakest : \A j \in weakest : i <= j

get_op_position(tokens, left, right) ==
  LET outside == Outside(tokens, left, right)
      ops == {i \in outside \ {0} : tokens[i].type \in Operators}
      weakest == {i \in ops : \A j \in ops :
                    Rank(tokens[j].type) <= Rank(tokens[i].type)}
  IN IF 0 \in outside \/ ops = {} THEN NoPosition
     ELSE CHOOSE i \in weakest : \A j \in weakest : j <= i

(* check_parenthesis: "both" if one pair encloses it all, "bad" if it      *)
(* starts and ends with parentheses that do not balance.                   *)
check_parenthesis(tokens, left, right) ==
  IF tokens[left].type # "(" \/ tokens[right].type # ")" THEN "no"
  ELSE IF \/ Balance(tokens, left, right) # 0
          \/ \E k \in left..right : Balance(tokens, left, k) < 0 THEN "bad"
  ELSE IF Closes(tokens, left, right) THEN "both" ELSE "no"

(* get_value: any other single token is 0, without a warning; for a name   *)
(* isa_reg_str2val does not know it writes through a null pointer.         *)
get_value(token, reg) ==
  CASE token.type = "num" -> token.val % Word
    [] token.type = "reg" ->
         IF token.val \in Registers THEN reg[token.val] ELSE Crash
    [] OTHER -> 0

Bit(b) == IF b THEN 1 ELSE 0

Apply(op, a, b) ==
  CASE op = "+" -> (a + b) % Word
    [] op = "-" -> (a - b) % Word
    [] op = "*" -> (a * b) % Word
    [] op = "/" -> IF b = 0 THEN Crash ELSE a \div b
    [] op = "==" -> Bit(a = b)
    [] op = "!=" -> Bit(a # b)
    [] op = "&&" -> Bit(a # 0 /\ b # 0)

(* eval of the tokens left..right, ev being what the spans inside them are *)
(* worth.                                                                  *)
evalSpan(ev, tokens, reg, left, right) ==
  IF left > right THEN Warning
  ELSE IF left = right THEN get_value(tokens[left], reg)
  ELSE IF check_parenthesis(tokens, left, right) = "both"
    THEN ev[<<left + 1, right - 1>>]
  ELSE IF check_parenthesis(tokens, left, right) = "bad" THEN Warning
  ELSE LET op == get_op_position(tokens, left, right)
           val1 == ev[<<left, op - 1>>]
           val2 == ev[<<op + 1, right>>]
       IN IF op = NoPosition THEN Warning
          ELSE IF ~ IsWord(val1) THEN val1
          ELSE IF val1 = 0 /\ tokens[op].type = "&&" THEN 0
          ELSE IF IsWord(val2) THEN Apply(tokens[op].type, val1, val2)
          ELSE val2

eval(tokens, reg) ==
  LET n == Len(tokens)
      ev[span \in (1..(n + 1)) \X (0..n)] ==
        evalSpan(ev, tokens, reg, span[1], span[2])
  IN ev[<<1, n>>]

(* expr: 0 for text that is not an expression.                             *)
expr(text, reg) ==
  IF ~ make_token(text) THEN 0
  ELSE LET value == eval(preprocessing(text), reg)
       IN IF value = Warning THEN 0 ELSE value

------------------------------------------------------------------------------
(* tools/gen-expr: the random expressions the t command is tested with,    *)
(* each with the value the C compiler gave it.  A phrase is a text, the    *)
(* rank of its weakest operator, whether its type in C is int, its value   *)
(* in C as a word, and whether it divides two ints of which one is         *)
(* negative; operands get the parentheses C needs, and any phrase may be   *)
(* put in a pair of its own.                                               *)
Tok(type) == [type |-> type, val |-> 0]

Parens(text) == <<Tok("(")>> \o text \o <<Tok(")")>>

Enclosed(text, needed) == IF needed THEN Parens(text) ELSE text

gen_num(n) ==
  IF n < 0 THEN <<Tok("-"), [type |-> "num", val |-> - n]>>
           ELSE <<[type |-> "num", val |-> n]>>

(* In C the numbers are unsigned: each is printed with a U.  The registers *)
(* are variables, also unsigned: gen-expr prints none.  A comparison and   *)
(* && give an int, and an operation on two ints is one of int, whose       *)
(* overflow is undefined, and warned about: gen-expr writes another line.  *)
Undefined == -3

Negative(word) == 2 * word >= Word
AsInt(word) == IF Negative(word) THEN word - Word ELSE word

(* Division of ints rounds towards 0.                                      *)
Quotient(a, b) ==
  CASE a >= 0 /\ b > 0 -> a \div b
    [] a >= 0 /\ b < 0 -> - (a \div (- b))
    [] a < 0 /\ b > 0 -> - ((- a) \div b)
    [] a < 0 /\ b < 0 -> (- a) \div (- b)

InInts(op, a, b) ==
  LET n == CASE op = "+" -> a + b
             [] op = "-" -> a - b
             [] op = "*" -> a * b
             [] op = "/" -> Quotient(a, b)
  IN IF op = "/" /\ b = 0 THEN Crash
     ELSE IF - Word <= 2 * n /\ 2 * n < Word THEN n % Word ELSE Undefined

(* The value of a op b; two words are equal, or 0, as ints if they are as  *)
(* unsigned ones.                                                          *)
InC(op, ints, a, b) ==
  IF ~ IsWord(a) THEN a
  ELSE IF op = "&&" /\ a = 0 THEN 0
  ELSE IF ~ IsWord(b) THEN b
  ELSE IF ints /\ Rank(op) <= 2 THEN InInts(op, AsInt(a), AsInt(b))
  ELSE Apply(op, a, b)

Number(n) ==
  [text |-> gen_num(n), rank |-> 0, int |-> FALSE, value |-> n % Word,
   signed |-> FALSE]

Register(r, reg) ==
  [text |-> <<[type |-> "reg", val |-> r]>>, rank |-> 0, int |-> FALSE,
   value |-> reg[r], signed |-> FALSE]

Join(op, a, b) ==
  LET ints == a.int /\ b.int
  IN [text |-> Enclosed(a.text, a.rank > Rank(op)) \o <<Tok(op)>>
                 \o Enclosed(b.text, b.rank >= Rank(op)),
      rank |-> Rank(op),
      int |-> Rank(op) > 2 \/ ints,
      value |-> InC(op, ints, a.value, b.value),
      signed |-> \/ a.signed \/ b.signed
                 \/ /\ op = "/" /\ ints
                    /\ Negative(a.value) \/ Negative(b.value)]

Group(a) == [a EXCEPT !.text = Parens(a.text), !.rank = 0]
================================================================================
