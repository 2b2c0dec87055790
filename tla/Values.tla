------------------------------- MODULE Values -------------------------------
(***************************************************************************)
(* The values a program computes with: <<kind, contents>>.  A string is    *)
(* the sequence of its bytes and a character a byte.  Reals are left out.  *)
(* A record or an array has one form where it is only described, as the    *)
(* code generator's templates and the meaning of a program do, and another *)
(* one in the cells of the machine.                                        *)
(***************************************************************************)
EXTENDS Tokens, Integers

IntVal(n) == <<"int", n>>
BoolVal(b) == <<"bool", b>>
StrVal(s) == <<"str", s>>
CharVal(c) == <<"char", c>>
MoneyVal(n) == <<"currency", n>>
NilValue == <<"nil", 0>>
Undefined == <<"undefined", 0>>

\* A Currency counts in ten-thousandths; here in halves.
CurrencyScale == 2

\* The values of the literals there are.
LiteralValue == [t \in Numbers \cup Literals |->
  CASE t = "0" -> IntVal(0) [] t = "1" -> IntVal(1) [] t = "2" -> IntVal(2) [] t = "3" -> IntVal(3)
    [] t = "'s'" -> StrVal(<<115>>) [] OTHER -> StrVal(<<116>>)]

CompareOps == {"=", "<>", "<", "<=", ">", ">="}
BinaryOps == {"+", "-", "*", "div", "mod", "and", "or", "xor", "shl", "shr"}

\* Two numbers compared.
Compares(op, x, y) ==
  CASE op = "=" -> x = y [] op = "<>" -> x # y [] op = "<" -> x < y
    [] op = "<=" -> x <= y [] op = ">" -> x > y [] OTHER -> x >= y

\* Bits of non-negative numbers, two's complement left aside.
BitWidth == 4
BitOf(n, k) == (n \div 2 ^ k) % 2
Bits(op, x, y) ==
  LET bit(k) == CASE op = "and" -> BitOf(x, k) * BitOf(y, k)
                  [] op = "or" -> IF BitOf(x, k) + BitOf(y, k) > 0 THEN 1 ELSE 0
                  [] OTHER -> (BitOf(x, k) + BitOf(y, k)) % 2
      sum[k \in 0..BitWidth] == IF k = 0 THEN 0 ELSE sum[k - 1] + bit(k - 1) * 2 ^ (k - 1)
  IN  sum[BitWidth]

\* Division that rounds towards zero, and the remainder with the sign of x.
Abs(n) == IF n < 0 THEN -n ELSE n
Quotient(x, y) == LET q == Abs(x) \div Abs(y) IN IF (x < 0) # (y < 0) THEN -q ELSE q
Remainder(x, y) == x - y * Quotient(x, y)
=============================================================================
