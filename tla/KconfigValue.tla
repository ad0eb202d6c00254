----------------------------- MODULE KconfigValue -----------------------------
(***************************************************************************)
(* The values that are texts (nemu/tools/kconfig: symbol.c, confdata.c):   *)
(* what may be typed for a string, an integer or a hexadecimal number, how *)
(* it is written to .config and to autoconf.h, and how it is read back.  A *)
(* text is a sequence of characters; NEMU's files give no ranges.          *)
(***************************************************************************)
EXTENDS KconfigExpr

Digits == <<{"0"}, {"1"}, {"2"}, {"3"}, {"4"}, {"5"}, {"6"}, {"7"}, {"8"}, {"9"}>>
Xdigits == Digits \o <<{"a", "A"}, {"b", "B"}, {"c", "C"}, {"d", "D"}, {"e", "E"},
                       {"f", "F"}>>
Digit == UNION Range(Digits)
Xdigit == UNION Range(Xdigits)
Quote == "\""
Backslash == "\\"

After(n, str) == SubSeq(str, n + 1, Len(str))
Hex(str) == Len(str) > 1 /\ str[1] = "0" /\ str[2] \in {"x", "X"}
Negative(str) == str # <<>> /\ str[1] = "-"
Unsigned(str) == IF Negative(str) THEN Tail(str) ELSE str
MadeOf(str, chars) == str # <<>> /\ Range(str) \subseteq chars

(* Leading zeros, which C would read as octal, are not valid.              *)
LeadingZero(str) == Len(str) > 1 /\ str[1] = "0"
Decimal(str) == MadeOf(str, Digit) /\ ~ LeadingZero(str)

sym_string_valid(s, str) ==
  CASE Type[s] = "S_STRING" -> TRUE
    [] Type[s] = "S_INT" -> Decimal(Unsigned(str))
    [] Type[s] = "S_HEX" -> MadeOf(IF Hex(str) THEN After(2, str) ELSE str, Xdigit)

sym_string_within_range(s, str) == sym_string_valid(s, str)

(* What is kept of a text that was typed.                                  *)
Prefixed(s, str) ==
  IF Type[s] = "S_HEX" /\ ~ Hex(str) THEN <<"0", "x">> \o str ELSE str

------------------------------------------------------------------------------
(* sym_escape_string_value, and the line written for a value.              *)
Escaped(c) == IF c \in {Quote, Backslash} THEN <<Backslash, c>> ELSE <<c>>
sym_escape_string_value(str) ==
  <<Quote>> \o FlattenSeq([i \in DOMAIN str |-> Escaped(str[i])]) \o <<Quote>>

conf_write_symbol(s, val) ==
  IF Type[s] = "S_STRING" THEN sym_escape_string_value(val) ELSE val

(* The macro of autoconf.h; a bool that is y is 1.                         *)
header_print_symbol(s, val) == Prefixed(s, conf_write_symbol(s, val))

(* conf_set_sym_val: the value read from a line, <<val>>, or <<>> if the   *)
(* line is not valid.  A string ends at its first quote.                   *)
ReadChar(r, c) ==
  IF r.closed THEN r
  ELSE IF r.escaped THEN [r EXCEPT !.val = Append(@, c), !.escaped = FALSE]
  ELSE IF c = Quote THEN [r EXCEPT !.closed = TRUE]
  ELSE IF c = Backslash THEN [r EXCEPT !.escaped = TRUE]
  ELSE [r EXCEPT !.val = Append(@, c)]

Unquoted(p) ==
  FoldLeft(ReadChar, [val |-> <<>>, escaped |-> FALSE, closed |-> FALSE], p)

conf_set_sym_val(s, p) ==
  CASE Type[s] = "S_BOOLEAN" -> <<p>>
    [] Type[s] = "S_STRING" ->
         IF p # <<>> /\ p[1] = Quote /\ Unquoted(Tail(p)).closed
           THEN <<Unquoted(Tail(p)).val>> ELSE <<>>
    [] Type[s] \in {"S_INT", "S_HEX"} ->
         IF sym_string_valid(s, p) THEN <<p>> ELSE <<>>

------------------------------------------------------------------------------
(* What the C compiler makes of a macro: a number, octal if it begins with *)
(* 0, or the characters of a literal, its closing quote among them.        *)
Natural(base, str) ==
  FoldLeft(LAMBDA n, c : base * n + (CHOOSE d \in 0..15 : c \in Xdigits[d + 1]), 0, str)

Number(str) ==
  IF Hex(str) THEN Natural(16, After(2, str))
              ELSE Natural(IF LeadingZero(str) THEN 8 ELSE 10, str)

RECURSIVE Literal(_)
Literal(p) ==
  IF p = <<>> \/ Head(p) = Quote THEN p
  ELSE IF Len(p) > 1 /\ p[1] = Backslash THEN <<p[2]>> \o Literal(After(2, p))
  ELSE <<p[1]>> \o Literal(Tail(p))

(* The macro is worth what the symbol is: val in the base of its type.     *)
MeansInC(s, val, macro) ==
  CASE Type[s] = "S_STRING" ->
         macro[1] = Quote /\ Literal(Tail(macro)) = Append(val, Quote)
    [] Type[s] = "S_INT" ->
         /\ Negative(macro) = Negative(val)
         /\ Number(Unsigned(macro)) = Natural(10, Unsigned(val))
    [] Type[s] = "S_HEX" ->
         Number(macro) = Natural(16, IF Hex(val) THEN After(2, val) ELSE val)
    [] OTHER -> macro = val
================================================================================
