----------------------------- MODULE KconfigPrint -----------------------------
(***************************************************************************)
(* How nemu/tools/kconfig shows a condition to the user (expr_print of     *)
(* expr.c), and how its grammar (parser.y) reads one.                      *)
(***************************************************************************)
EXTENDS KconfigExpr

(* expr_compare_type, of the operator around an expression and its own: a  *)
(* positive result puts it in parentheses.  "none" is around the whole.    *)
Tightness(type) ==
  CASE type \in {"<", "<=", ">", ">="} -> 6 [] type \in {"=", "!="} -> 5
    [] type = "not" -> 4 [] type = "and" -> 3 [] type = "or" -> 2
    [] type \in {"sym", "none"} -> 0
expr_compare_type(outer, type) ==
  Tightness(type) > 0 /\ Tightness(outer) > Tightness(type)

Parenthesized(outer, e, tokens) ==
  IF expr_compare_type(outer, e[1]) THEN <<"(">> \o tokens \o <<")">> ELSE tokens

(* The tokens of an expression.                                            *)
RECURSIVE expr_print(_, _)
expr_print(e, outer) ==
  IF e = NULL THEN <<"y">>
  ELSE Parenthesized(outer, e,
    CASE e[1] = "sym" -> <<e[2]>>
      [] e[1] = "not" -> <<"!">> \o expr_print(e[2], "not")
      [] e[1] \in Relations -> <<e[2], e[1], e[3]>>
      [] e[1] = "and" -> expr_print(e[2], "and") \o <<"&&">> \o expr_print(e[3], "and")
      [] e[1] = "or" -> expr_print(e[2], "or") \o <<"||">> \o expr_print(e[3], "or"))

expr_gstr_print(e) == expr_print(e, "none")

------------------------------------------------------------------------------
(* The grammar, "||" loosest and "!" tightest but for the comparisons,     *)
(* which take symbols: [e, rest], of what begins a sequence of tokens.     *)
Is(tokens, token) == tokens # <<>> /\ Head(tokens) = token
Drop(n, tokens) == SubSeq(tokens, n + 1, Len(tokens))

RECURSIVE Unary(_), More(_, _), Expr(_, _)
Unary(tokens) ==
  IF Is(tokens, "!")
    THEN LET r == Unary(Tail(tokens)) IN [e |-> Not(r.e), rest |-> r.rest]
  ELSE IF Is(tokens, "(")
    THEN LET r == Expr("or", Tail(tokens)) IN [e |-> r.e, rest |-> Tail(r.rest)]
  ELSE IF Len(tokens) > 2 /\ tokens[2] \in Relations
    THEN [e |-> <<tokens[2], tokens[1], tokens[3]>>, rest |-> Drop(3, tokens)]
  ELSE [e |-> Sym(Head(tokens)), rest |-> Tail(tokens)]

Operand(type, tokens) == IF type = "or" THEN Expr("and", tokens) ELSE Unary(tokens)
More(type, r) ==
  IF ~ Is(r.rest, IF type = "or" THEN "||" ELSE "&&") THEN r
  ELSE LET next == Operand(type, Tail(r.rest))
       IN More(type, [e |-> <<type, r.e, next.e>>, rest |-> next.rest])
Expr(type, tokens) == More(type, Operand(type, tokens))

ReadAgain(tokens) == Expr("or", tokens).e
================================================================================
