----------------------------- MODULE Expressions -----------------------------
(***************************************************************************)
(* Scalar values and the physical expressions: columns, literals, CAST,    *)
(* comparisons, AND and OR, arithmetic, and dates plus or minus days.      *)
(*                                                                         *)
(* A scalar is a record of its type, a numerator and a denominator.  A     *)
(* double is an exact fraction in lowest terms: rounding and NaN are not   *)
(* modelled.  A string is the number it spells, or, with denominator 0, a  *)
(* word that spells none (words 0 and 1 are "false" and "true"); numbers   *)
(* in strings have one digit, so that they sort as they count.  Integers   *)
(* wrap at Half.  A date is its number of days.                            *)
(*                                                                         *)
(* An expression is evaluated on a whole batch and yields a vector: a type *)
(* and one scalar per row, or PanicVector where Rust panics.               *)
(***************************************************************************)
EXTENDS Integers, Sequences, FiniteSets, SequencesExt

CONSTANTS
    Half,           \* an Int64 is in -Half..(Half - 1)
    MaxExprDepth    \* bound on how deep expressions are nested

ASSUME WidthAssumption == Half \in Nat \ {0}
ASSUME ExprDepthAssumption == MaxExprDepth \in Nat

Scalar(t, n) == [type |-> t, n |-> n, d |-> 1]
Word(n) == [type |-> "utf8", n |-> n, d |-> 0]
Null == Scalar("null", 0)
Panic == Scalar("panic", 0)
is_null(v) == v.type = "null"

\* The fraction n / d in lowest terms, for d other than 0.
Double(n, d) ==
    LET s == IF d < 0 THEN -1 ELSE 1
        common == {k \in 1..(s * d) : d % k = 0 /\ n % k = 0}
        g == CHOOSE k \in common : \A j \in common : j <= k
    IN  [type |-> "f64", n |-> (s * n) \div g, d |-> (s * d) \div g]

Wrap(n) == ((n + Half) % (2 * Half)) - Half

\* Division that rounds towards zero.
Truncated(n, d) ==
    LET abs(k) == IF k < 0 THEN -k ELSE k
        q == abs(n) \div abs(d)
    IN  IF (n < 0) = (d < 0) THEN q ELSE -q

\* The order of two values of one type.
Less(l, r) ==
    IF l.d = 0 \/ r.d = 0 THEN r.d = 0 /\ (l.d # 0 \/ l.n < r.n)
    ELSE l.n * r.d < r.n * l.d

-------------------------------------------------------------------------------
(* Expressions. *)

Column(i) == [kind |-> "column", index |-> i]
Literal(v) == [kind |-> "literal", value |-> v]
Interval(days) == [kind |-> "interval", value |-> Scalar("i64", days)]
CastTo(expr, type) == [kind |-> "cast", expr |-> expr, type |-> type]
Binary(op, l, r) == [kind |-> "binary", op |-> op, l |-> l, r |-> r]

Comparisons == {"eq", "neq", "lt", "lteq", "gt", "gteq"}
Connectives == {"and", "or"}
Maths == {"add", "subtract", "mult", "div"}
Dates == {"date_add", "date_subtract"}

Integral == {"i32", "i64", "u32"}
Numeric == Integral \cup {"f64"}

Vector(type, values) == [type |-> type, values |-> values]
PanicVector == Vector("panic", <<>>)

\* A cell that panics takes the batch with it.
Built(type, values) ==
    IF \E i \in DOMAIN values : values[i] = Panic THEN PanicVector ELSE Vector(type, values)

-------------------------------------------------------------------------------
(* Comparisons, AND, OR: SQL's three-valued logic, with NULL for UNKNOWN. *)

Bool(b) == Scalar("bool", IF b THEN 1 ELSE 0)

\* An integer is true if it is 1.
as_opt_bool(v) ==
    IF is_null(v) THEN Null
    ELSE IF v.type \in Integral \cup {"bool"} THEN Bool(v.n = 1) ELSE Panic

and3(l, r) ==
    IF Bool(FALSE) \in {l, r} THEN Bool(FALSE)
    ELSE IF {l, r} = {Bool(TRUE)} THEN Bool(TRUE) ELSE Null

or3(l, r) ==
    IF Bool(TRUE) \in {l, r} THEN Bool(TRUE)
    ELSE IF {l, r} = {Bool(FALSE)} THEN Bool(FALSE) ELSE Null

compare_typed(op, l, r) ==
    CASE op = "eq" -> l = r
      [] op = "neq" -> l # r
      [] op = "lt" -> Less(l, r)
      [] op = "lteq" -> ~Less(r, l)
      [] op = "gt" -> Less(r, l)
      [] op = "gteq" -> ~Less(l, r)

compare_value(op, l, r, type) ==
    CASE op \in Connectives ->
           LET a == as_opt_bool(l)
               b == as_opt_bool(r)
           IN  IF Panic \in {a, b} THEN Panic ELSE IF op = "and" THEN and3(a, b) ELSE or3(a, b)
      [] op \in Comparisons ->
           IF type \notin {"i32", "i64", "f64", "utf8", "date32"} THEN Panic
           ELSE IF is_null(l) \/ is_null(r) THEN Null
           ELSE Bool(compare_typed(op, l, r))

-------------------------------------------------------------------------------
(* Arithmetic.  Integers wrap, but for division, which panics instead. *)

integer_math(op, type, l, r) ==
    CASE op = "add" -> Scalar(type, Wrap(l + r))
      [] op = "subtract" -> Scalar(type, Wrap(l - r))
      [] op = "mult" -> Scalar(type, Wrap(l * r))
      [] op = "div" -> IF r = 0 \/ (l = -Half /\ r = -1) THEN Panic
                       ELSE Scalar(type, Truncated(l, r))

\* Dividing a double by zero gives no number; no instance does it.
double_math(op, l, r) ==
    Double(CASE op = "add" -> l.n * r.d + r.n * l.d
             [] op = "subtract" -> l.n * r.d - r.n * l.d
             [] op = "mult" -> l.n * r.n
             [] op = "div" -> l.n * r.d,
           l.d * IF op = "div" THEN r.n ELSE r.d)

\* MathExpression::evaluate_cell.
math_cell(op, l, r, type) ==
    CASE is_null(l) \/ is_null(r) -> Null
      [] ~is_null(l) /\ ~is_null(r) /\ type \in {"i32", "i64"} -> integer_math(op, type, l.n, r.n)
      [] ~is_null(l) /\ ~is_null(r) /\ type = "f64" -> double_math(op, l, r)
      [] ~is_null(l) /\ ~is_null(r) /\ type \notin {"i32", "i64", "f64"} -> Panic

coerce_to_double(v) ==
    Vector("f64", [i \in DOMAIN v.values |->
                     IF is_null(v.values[i]) THEN Null ELSE Double(v.values[i].n, v.values[i].d)])

math_evaluate_pair(op, l, r) ==
    Built(l.type, [i \in DOMAIN l.values |-> math_cell(op, l.values[i], r.values[i], l.type)])

\* BinaryExpression::evaluate_binary: operands of different numeric types are doubles.
evaluate_math(op, l, r) ==
    LET coerced(v) == IF l.type = r.type THEN v ELSE coerce_to_double(v)
    IN  IF l.type = r.type \/ {l.type, r.type} \subseteq Numeric
        THEN math_evaluate_pair(op, coerced(l), coerced(r)) ELSE PanicVector

-------------------------------------------------------------------------------
(* Casts and dates. *)

to_i64(v) ==
    CASE v.type \in Integral -> v.n
      [] v.type = "f64" -> Truncated(v.n, v.d)
      [] v.type \in {"utf8", "date32"} -> v.n

to_f64(v) == Double(v.n, v.d)

\* A date is rendered as its number of days.
scalar_to_string(v) ==
    IF v.type = "bool" THEN Word(v.n) ELSE [type |-> "utf8", n |-> v.n, d |-> v.d]

\* CastExpression, for one value.  A string must parse as the target.
cast_value(v, target) ==
    LET number == v.type \in Numeric
    IN  CASE is_null(v) -> Null
          [] ~is_null(v) /\ target \in {"i32", "i64"} ->
               IF number \/ (v.type = "utf8" /\ v.d = 1) THEN Scalar(target, Wrap(to_i64(v))) ELSE Panic
          [] ~is_null(v) /\ target = "f64" ->
               IF number \/ (v.type = "utf8" /\ v.d # 0) THEN to_f64(v) ELSE Panic
          [] ~is_null(v) /\ target = "utf8" -> scalar_to_string(v)
          [] ~is_null(v) /\ target \notin {"i32", "i64", "f64", "utf8"} -> Panic

\* One row of DateAddIntervalExpression or DateSubtractIntervalExpression.
date_interval(op, date, days) ==
    IF is_null(date) \/ is_null(days) THEN Null
    ELSE IF ~({date.type, days.type} \subseteq Numeric \cup {"date32"}) THEN Panic
    ELSE Scalar("date32", IF op = "date_add" THEN to_i64(date) + to_i64(days)
                          ELSE to_i64(date) - to_i64(days))

-------------------------------------------------------------------------------
(* Expression::evaluate. *)

\* Both sides have been evaluated.  Comparisons do not coerce.
evaluate_boolean(op, l, r) ==
    IF l.type # r.type THEN PanicVector
    ELSE Built("bool", [i \in DOMAIN l.values |->
                          compare_value(op, l.values[i], r.values[i], l.type)])

\* The expressions that an expression is built from, itself included.

Operands(e) ==
    CASE e.kind = "binary" -> {e.l, e.r}
      [] e.kind = "cast" -> {e.expr}
      [] e.kind \notin {"binary", "cast"} -> {}

Terms(e) ==
    LET within[n \in 0..MaxExprDepth] ==
            IF n = 0 THEN {e}
            ELSE LET outer == within[n - 1]
                 IN  outer \cup UNION {Operands(x) : x \in outer}
    IN  within[MaxExprDepth]

evaluate(e, types, rows) ==
    LET vector[x \in Terms(e)] ==
          CASE x.kind = "cast" ->
                 LET v == vector[x.expr]
                 IN  IF v = PanicVector THEN v
                     ELSE Built(x.type, [i \in DOMAIN rows |-> cast_value(v.values[i], x.type)])
            [] x.kind = "column" ->
                 IF x.index \notin DOMAIN types THEN PanicVector
                 ELSE Vector(types[x.index], [i \in DOMAIN rows |-> rows[i][x.index]])
            [] x.kind \in {"literal", "interval"} ->
                 Vector(x.value.type, [i \in DOMAIN rows |-> x.value])
            [] OTHER ->
                 LET l == vector[x.l]
                     r == vector[x.r]
                 IN  CASE PanicVector \in {l, r} -> PanicVector
                       [] PanicVector \notin {l, r} /\ x.op \in Comparisons \cup Connectives ->
                            evaluate_boolean(x.op, l, r)
                       [] PanicVector \notin {l, r} /\ x.op \in Maths -> evaluate_math(x.op, l, r)
                       [] PanicVector \notin {l, r} /\ x.op \in Dates ->
                            Built("date32", [i \in DOMAIN rows |->
                                               date_interval(x.op, l.values[i], r.values[i])])
    IN  vector[e]
===============================================================================
