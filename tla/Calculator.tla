------------------------------ MODULE Calculator ------------------------------
(***************************************************************************)
(* The calculate tool (agent/tool.go): a recursive descent parser that     *)
(* evaluates while it reads.  Errors do not stop it: they are noted in     *)
(* p.err and reading goes on, so what it accepts, and with which value, is *)
(* checked against a grammar for every input up to a length.               *)
(*                                                                         *)
(* An input is a sequence of tokens (blanks are skipped between them, "**" *)
(* is "^").  Numbers are fractions <<numerator, denominator>>, left as the *)
(* operations made them.                                                   *)
(***************************************************************************)
EXTENDS Integers, Sequences, SequencesExt

CONSTANT MaxTokens     \* bound: length of the input

ASSUME CalculatorAssumption == MaxTokens \in Nat

VARIABLE expression    \* the tokens typed so far

Digits == 0..2
Tokens == {ToString(d) : d \in Digits} \cup {"+", "-", "*", "/", "^", "(", ")", "abs"}

-----------------------------------------------------------------------------
(* Arithmetic on fractions.                                                 *)

Num(tok) == <<CHOOSE d \in Digits : ToString(d) = tok, 1>>
Neg(x) == <<-x[1], x[2]>>
Abs(x) == <<IF x[1] < 0 THEN -x[1] ELSE x[1], x[2]>>
IsZero(x) == x[1] = 0 /\ x[2] # 0

\* math.Pow for whole exponents; n/0 stands for an infinity, and 0/0 for every number that
\* is not a fraction or not a number.
Pow(x, y) ==
    LET whole == {e \in -16..16 : y[2] # 0 /\ e * y[2] = y[1]}
        e == CHOOSE e \in whole : TRUE
        p == [i \in 1..2 |-> IF e = 0 THEN 1 ELSE x[i] ^ (IF e < 0 THEN -e ELSE e)]
    IN  IF whole = {} THEN <<0, 0>> ELSE IF e < 0 THEN <<p[2], p[1]>> ELSE <<p[1], p[2]>>

Apply(op, x, y) ==
    CASE op = "+" -> <<x[1] * y[2] + y[1] * x[2], x[2] * y[2]>>
      [] op = "-" -> <<x[1] * y[2] - y[1] * x[2], x[2] * y[2]>>
      [] op = "*" -> <<x[1] * y[1], x[2] * y[2]>>
      [] op = "/" -> <<x[1] * y[2], x[2] * y[1]>>
      [] op = "^" -> Pow(x, y)

-----------------------------------------------------------------------------
(* The parser: each operator returns the value, the position after it, and  *)
(* whether an error has been noted.  Only parenthesised expressions call    *)
(* back: expr is the function that tells what parseExpr makes of them.      *)

At(s, i) == IF i <= Len(s) THEN s[i] ELSE "end"
Positions(s) == 1..Len(s) + 1
Got(v, i, err) == [v |-> v, i |-> i, err |-> err]
Zero == <<0, 1>>

\* What an operation makes of what was read, errors included.
Negated(p) == Got(Neg(p.v), p.i, p.err)
Combined(op, left, right) == Got(Apply(op, left.v, right.v), right.i, left.err \/ right.err)

\* A number, a parenthesis or abs(...); only the closing parenthesis of "(" is insisted on.
parsePrimary(s, i, expr) ==
    LET inner == expr[i + 1]
        arg   == expr[i + 2]
    IN  CASE At(s, i) \in Tokens \ {"+", "-", "*", "/", "^", "(", ")", "abs"}
                -> Got(Num(s[i]), i + 1, FALSE)
          [] At(s, i) = "("
                -> IF At(s, inner.i) = ")" THEN Got(inner.v, inner.i + 1, inner.err)
                   ELSE Got(inner.v, inner.i, TRUE)
          [] At(s, i) = "abs" /\ At(s, i + 1) = "("
                -> Got(Abs(arg.v), arg.i + IF At(s, arg.i) = ")" THEN 1 ELSE 0, arg.err)
          [] At(s, i) = "abs" /\ At(s, i + 1) # "(" -> Got(Zero, i + 1, TRUE)
          [] OTHER -> Got(Zero, i, TRUE)

\* Mutant: any number of minus signs is accepted, the later ones ignored.
parseUnary_Lenient(s, i, expr) ==
    IF At(s, i) = "-"
    THEN Negated(parsePrimary(s, IF At(s, i + 1) = "-" THEN i + 2 ELSE i + 1, expr))
    ELSE parsePrimary(s, i, expr)

\* One minus at most, and it binds tighter than "^".
parseUnary(s, i, expr) ==
    IF At(s, i) = "-"
    THEN Negated(parsePrimary(s, i + 1, expr))
    ELSE parsePrimary(s, i, expr)

parsePower(s, i, expr) ==
    LET power[j \in Positions(s)] ==
            LET base == parseUnary(s, j, expr)
            IN  IF At(s, base.i) # "^" THEN base
                ELSE Combined("^", base, power[base.i + 1])
    IN  power[i]

\* The loops of parseTerm and parseExpr: left is what has been read.  A zero divisor is an
\* error and ends the term.
Loop(s, i, ops, operand) ==
    LET more[left \in [v : Int \X Int, i : Nat, err : BOOLEAN]] ==
            IF At(s, left.i) \notin ops THEN left
            ELSE LET right == operand[left.i + 1]
                 IN  IF At(s, left.i) = "/" /\ IsZero(right.v) THEN Got(Zero, right.i, TRUE)
                     ELSE more[Combined(s[left.i], left, right)]
    IN  more[operand[i]]

parseTerm(s, i, expr) ==
    Loop(s, i, {"*", "/"}, [j \in Positions(s) |-> parsePower(s, j, expr)])

parseExpr(s, i, expr) ==
    Loop(s, i, {"+", "-"}, [j \in Positions(s) |-> parseTerm(s, j, expr)])

\* evalExpr: the value, if there is no error, which trailing input also is.
evalExpr(s) ==
    LET expr[i \in Positions(s)] == parseExpr(s, i, expr)
    IN  {r.v : r \in {x \in {expr[1]} : ~x.err /\ x.i > Len(s)}}

-----------------------------------------------------------------------------

CalculatorInit == expression = <<>>

Type(tok) == Len(expression) < MaxTokens /\ expression' = Append(expression, tok)

CalculatorNext == \E tok \in Tokens : Type(tok)

-----------------------------------------------------------------------------
(* The reference: the expressions of n tokens with their values, by         *)
(* precedence, each level given those with fewer tokens.                    *)

Joined(left, op, right, Fits(_, _)) ==
    {<<l[1] \o <<op>> \o r[1], Apply(op, l[2], r[2])>> :
        <<l, r>> \in {p \in left \X right : Fits(op, p[2][2])}}

AlwaysFits(op, y) == TRUE
Dividable(op, y) == op = "/" => ~IsZero(y)

Grammar[n \in 0..MaxTokens] ==
    IF n = 0 THEN [atom |-> {}, unary |-> {}, power |-> {}, term |-> {}, expr |-> {}]
    ELSE LET G(k) == Grammar[k]
             splits == {p \in (1..n) \X (1..n) : p[1] + p[2] + 1 = n}
             atom  == (IF n = 1 THEN {<<<<ToString(d)>>, <<d, 1>>>> : d \in Digits} ELSE {})
                      \cup (IF n > 2 THEN {<<<<"(">> \o e[1] \o <<")">>, e[2]>>
                                             : e \in G(n - 2).expr} ELSE {})
                      \cup (IF n > 3 THEN {<<<<"abs", "(">> \o e[1] \o <<")">>, Abs(e[2])>>
                                             : e \in G(n - 3).expr} ELSE {})
             unary == atom \cup {<<<<"-">> \o a[1], Neg(a[2])>> : a \in G(n - 1).atom}
             power == unary \cup UNION {Joined(G(p[1]).unary, "^", G(p[2]).power, AlwaysFits)
                                          : p \in splits}
             term  == power \cup UNION {Joined(G(p[1]).term, op, G(p[2]).power, Dividable)
                                          : p \in splits, op \in {"*", "/"}}
         IN  [atom |-> atom, unary |-> unary, power |-> power, term |-> term,
              expr |-> term \cup UNION {Joined(G(p[1]).expr, op, G(p[2]).term, AlwaysFits)
                                          : p \in splits, op \in {"+", "-"}}]

Expressions == [n \in 0..MaxTokens |-> Grammar[n].expr]
Sentences == [n \in 0..MaxTokens |-> {e[1] : e \in Expressions[n]}]

\* The tool gives a value exactly to the expressions of the grammar, the right one, and to
\* nothing else, however the tokens are mixed (an error noted in the middle of the input is
\* never lost and never invented), with one leniency: a call at the end of the input may
\* lack its ")" and has the value it would have with it.
CalculatorFollowsGrammar ==
    LET n == Len(expression)
        Count(tok) == Len(SelectSeq(expression, LAMBDA t : t = tok))
        Lenient == /\ "abs" \in Range(expression) /\ Count("(") > Count(")")
                   /\ evalExpr(expression) = evalExpr(Append(expression, ")"))
    IN  /\ expression \in Sentences[n] <=> evalExpr(expression) # {} /\ ~Lenient
        /\ \A v \in evalExpr(expression) : Lenient \/ <<expression, v>> \in Expressions[n]
=============================================================================
