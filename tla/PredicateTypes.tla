---------------------------- MODULE PredicateTypes ----------------------------
(***************************************************************************)
(* The type rules of a filter predicate (engine/src/predicate.rs): which   *)
(* pairs of operands a comparison or + - * admits, the type of the result, *)
(* and the reason a refused pair is given.                                 *)
(*                                                                         *)
(* An EngineType is <<name, n, m>>: an integer's width and whether it is   *)
(* signed, a decimal's width and scale.  Integer literals go up to 2^128,  *)
(* so one is kept as its sign, the bits of its magnitude and its decimal   *)
(* digits; -2^(n-1) counts as one bit wider than it is.                    *)
(***************************************************************************)
EXTENDS Integers

CONSTANTS MaxIntegerDigits,  \* MAX_INTEGER_LITERAL_DIGITS
          MaxDecimalScale    \* MAX_DECIMAL_LITERAL_SCALE

IntTy(bits, signed) == <<"Int", bits, signed>>
Decimal(width, scale) == <<"Decimal", width, scale>>
Varchar == <<"Varchar", 0, 0>>
Boolean == <<"Boolean", 0, 0>>
Real == <<"Real", 24, 0>>       \* with the bits of its significand
Double == <<"Double", 53, 0>>
Null == <<"Null", 0, 0>>

NoValue == [neg |-> FALSE, bits |-> -1, digits |-> 0]

Column(ty) == [ty |-> ty, kind |-> "Column", within |-> TRUE, value |-> NoValue, countsAsDecimal |-> FALSE]
Expression(ty) == [Column(ty) EXCEPT !.kind = "Expression"]

\* literal_typed.  DuckDB gives an integer the smallest of its four literal types.
IntegerLiteral(v) ==
    [Column(CASE v.bits <= 31 -> IntTy(32, 1)
              [] v.bits \in 32..63 -> IntTy(64, 1)
              [] v.bits \in 64..127 -> IntTy(128, 1)
              [] v.bits >= 128 -> IntTy(128, 0))
        EXCEPT !.kind = "Literal", !.value = v, !.within = v.digits <= MaxIntegerDigits]

DecimalLiteral(width, scale) ==
    [Column(Decimal(width, scale))
        EXCEPT !.kind = "Literal",
               !.within = scale <= MaxDecimalScale /\ width - scale <= MaxIntegerDigits]

OtherLiteral(ty) == [Column(ty) EXCEPT !.kind = "Literal"]

-----------------------------------------------------------------------------
IsInt(t) == t.ty[1] = "Int"
IsDecimal(t) == t.ty[1] = "Decimal"
IsFloat(t) == t.ty[1] \in {"Real", "Double"}
IsNumeric(t) == IsInt(t) \/ IsDecimal(t) \/ IsFloat(t)
Literal(t) == t.kind = "Literal"
Either(P(_, _), l, r) == P(l, r) \/ P(r, l)

FitsIntType(v, ty) == IF ty[3] = 1 THEN ty[2] = 128 \/ v.bits < ty[2]
                                   ELSE ~v.neg /\ (ty[2] = 128 \/ v.bits <= ty[2])

IntPromote(a, b) ==
    LET max == IF a[2] > b[2] THEN a[2] ELSE b[2]
        s == IF a[3] = 1 THEN a[2] ELSE b[2]
        u == IF a[3] = 1 THEN b[2] ELSE a[2]
    IN IF a[3] = b[3] THEN IntTy(max, a[3])
       ELSE IF s > u THEN IntTy(s, 1) ELSE IF u >= 64 THEN IntTy(128, 1) ELSE IntTy(64, 1)

\* A literal that fits the other operand's type takes it.
FoldOrPromoteInteger(l, r) ==
    LET taken(t, o) == Literal(t) /\ ~Literal(o) /\ FitsIntType(t.value, o.ty)
    IN IF taken(l, r) THEN r.ty ELSE IF taken(r, l) THEN l.ty ELSE IntPromote(l.ty, r.ty)

\* The operand classes the rules of both tables are stated in.
BoundInt(t) == IsInt(t) /\ t.within
NarrowInt(t, bits) == ~Literal(t) /\ BoundInt(t) /\ t.ty[2] <= bits
FloatColumn(t) == IsFloat(t) /\ ~Literal(t)
DoubleLiteral(t) == t.ty = Double /\ Literal(t)
NumericLiteral(t) == Literal(t) /\ t.within /\ (IsInt(t) \/ IsDecimal(t) \/ t.ty = Double)

None == <<"None", 0, 0>>

\* admitted_arithmetic_result: the rules in their order, the first that matches.
ArithmeticResult(l, r) ==
    LET float(a, b) == FloatColumn(a) /\ NumericLiteral(b)
        withFloat(a, b) == IF DoubleLiteral(b) THEN Double ELSE a.ty
        widens(a, b) == \/ a.ty = Real /\ FloatColumn(a) /\ NarrowInt(b, 16)
                        \/ a.ty = Double /\ FloatColumn(a) /\ NarrowInt(b, 32)
        toDouble(a, b) == \/ a.ty = Real /\ FloatColumn(a) /\ b.ty = Double /\ FloatColumn(b)
                          \/ DoubleLiteral(a) /\ NarrowInt(b, 32)
                          \/ DoubleLiteral(a) /\ NumericLiteral(b)
    IN IF l.ty = r.ty /\ IsFloat(l) THEN l.ty
       ELSE IF l.ty = Null /\ r.ty = Null THEN IntTy(64, 1)
       ELSE IF l.ty = Null /\ IsNumeric(r) THEN r.ty
       ELSE IF r.ty = Null /\ IsNumeric(l) THEN l.ty
       ELSE IF BoundInt(l) /\ BoundInt(r) THEN FoldOrPromoteInteger(l, r)
       ELSE IF float(l, r) THEN withFloat(l, r)
       ELSE IF float(r, l) THEN withFloat(r, l)
       ELSE IF widens(l, r) THEN l.ty
       ELSE IF widens(r, l) THEN r.ty
       ELSE IF Either(toDouble, l, r) THEN Double
       ELSE None

BoundDecimal(t) == IsDecimal(t) /\ (Literal(t) \/ t.countsAsDecimal) /\ t.within

\* A bug: a decimal literal is compared with an integer of any width.
AdmittedComparisonAnyWidth(l, r) ==
    \/ l.ty = r.ty \/ Null \in {l.ty, r.ty}
    \/ BoundInt(l) /\ BoundInt(r)
    \/ BoundDecimal(l) /\ BoundInt(r)
    \/ BoundDecimal(r) /\ BoundInt(l)

\* is_admitted_comparison, rules 1 to 7.
AdmittedComparison(l, r) ==
    LET rule4(a, b) == BoundDecimal(b) /\ BoundInt(a) /\ (Literal(a) \/ a.ty[2] <= 64)
        rule5(a, b) == DoubleLiteral(a) /\ NarrowInt(b, 32)
        rule6(a, b) == FloatColumn(a) /\ (NumericLiteral(b) \/ (BoundDecimal(b) /\ b.countsAsDecimal))
        rule6b(a, b) == DoubleLiteral(a) /\ ((BoundInt(b) /\ Literal(b)) \/ BoundDecimal(b))
        rule7(a, b) == /\ FloatColumn(a)
                       /\ \/ a.ty = Real /\ NarrowInt(b, 16)
                          \/ a.ty = Double /\ NarrowInt(b, 32)
                          \/ a.ty = Real /\ FloatColumn(b) /\ b.ty = Double
    IN \/ l.ty = r.ty
       \/ l.ty = Null \/ r.ty = Null
       \/ BoundInt(l) /\ BoundInt(r)
       \/ BoundDecimal(l) /\ BoundDecimal(r)
       \/ Either(rule4, l, r) \/ Either(rule5, l, r) \/ Either(rule6, l, r)
       \/ Either(rule6b, l, r) \/ Either(rule7, l, r)

DecimalArithmeticPair(l, r) ==
    LET pair(a, b) == IsDecimal(a) /\ (IsInt(b) \/ IsDecimal(b)) IN Either(pair, l, r)

\* determine_reason.
DetermineReason(l, r, arithmetic) ==
    LET mixes(ty) == LET one(a, b) == a.ty = ty /\ b.ty # ty /\ b.ty # Null IN Either(one, l, r)
        wide(a, b) == /\ IsDecimal(a) /\ (Literal(a) \/ a.countsAsDecimal)
                      /\ IsInt(b) /\ ~Literal(b) /\ b.ty[2] > 64
    IN IF mixes(Varchar) THEN "TextWithNonText"
       ELSE IF mixes(Boolean) THEN "BooleanConversion"
       ELSE IF ~l.within \/ ~r.within THEN "LiteralOutOfBounds"
       ELSE IF Either(wide, l, r) \/ (arithmetic /\ DecimalArithmeticPair(l, r)) THEN "ConversionCanFail"
       ELSE "ConversionRounds"

-----------------------------------------------------------------------------
\* type_of_arithmetic over + - *, of one operand or of two, and type_of_division: the
\* type of the result, or the reason of the refusal.
Admitted(t) == [ok |-> TRUE, t |-> t, reason |-> "none"]
Refused(reason) == [ok |-> FALSE, t |-> Expression(None), reason |-> reason]

TypeOfUnary(t) ==
    IF t.ty = Null THEN Admitted(Expression(IntTy(64, 1)))
    ELSE IF IsNumeric(t) THEN Admitted([t EXCEPT !.kind = "Expression"])
    ELSE Refused(DetermineReason(t, Column(Double), FALSE))

TypeOfArithmetic(l, r) ==
    LET ty == ArithmeticResult(l, r)
        decimal(a, b) == a.ty = Null /\ IsDecimal(b) /\ ((Literal(b) /\ b.within) \/ b.countsAsDecimal)
    IN IF ty = None THEN Refused(DetermineReason(l, r, DecimalArithmeticPair(l, r)))
       ELSE Admitted([Expression(ty) EXCEPT !.within = l.within /\ r.within,
                                            !.countsAsDecimal = Either(decimal, l, r)])

TypeOfDivision(l, r) ==
    IF {l.ty, r.ty} \cap {Varchar, Boolean} # {} THEN Refused(DetermineReason(l, r, FALSE))
    ELSE Admitted(Expression(IF Real \in {l.ty, r.ty} /\ Double \notin {l.ty, r.ty} THEN Real ELSE Double))

\* check_pair, of a comparison.
CheckPair(l, r) ==
    IF AdmittedComparison(l, r) THEN Admitted(Expression(Boolean))
    ELSE Refused(DetermineReason(l, r, FALSE))

-----------------------------------------------------------------------------
\* DuckDB: the digits a DECIMAL holds, those of an integer, and whether every value of
\* one type is a value of the other.
DuckDecimalDigits == 38
IntDigits(ty) == CASE ty[2] = 8 -> 3 [] ty[2] = 16 -> 5 [] ty[2] = 32 -> 10
                   [] ty[2] = 64 -> IF ty[3] = 1 THEN 19 ELSE 20 [] ty[2] = 128 -> 39

Holds(wide, ty) ==
    \/ wide = ty \/ ty = Null
    \/ /\ ty[1] = "Int"
       /\ \/ wide[1] = "Int" /\ IF wide[3] = ty[3] THEN wide[2] >= ty[2] ELSE wide[3] = 1 /\ wide[2] > ty[2]
          \/ wide[1] \in {"Real", "Double"} /\ ty[2] <= wide[2]
    \/ ty = Real /\ wide = Double

\* What a predicate's user relies on: an admitted comparison or operation converts no
\* value of a column, or computed from one, to a type that cannot hold it - not to a
\* float with fewer significant bits, not to a decimal DuckDB cannot represent, not
\* between text or BOOLEAN and anything else - and neither the verdict nor the reason
\* depends on the order of the operands.
ConversionsAreExact(l, r) ==
    LET moving == {t \in {l, r} : ~Literal(t) /\ ~t.countsAsDecimal}
        float == {t \in {l, r} : IsFloat(t)}
        digits(t) == IF IsDecimal(t) THEN t.ty[2] - t.ty[3]
                     ELSE IF Literal(t) THEN t.value.digits ELSE IntDigits(t.ty)
        scale(t) == IF IsDecimal(t) THEN t.ty[3] ELSE 0
    IN /\ AdmittedComparison(l, r) /\ l.ty # r.ty /\ Null \notin {l.ty, r.ty} =>
            /\ \A t \in {l, r} : IsNumeric(t)
            /\ IsInt(l) /\ IsInt(r) => \A t \in {l, r} : Holds(IntPromote(l.ty, r.ty), t.ty)
            /\ float # {} => \A t \in moving : IsInt(t) => \E f \in float : Holds(f.ty, t.ty)
            /\ float = {} /\ (IsDecimal(l) \/ IsDecimal(r)) =>
                 \A t, u \in {l, r} : digits(t) + scale(u) <= DuckDecimalDigits
       /\ ArithmeticResult(l, r) # None => \A t \in moving : Holds(ArithmeticResult(l, r), t.ty)
       /\ AdmittedComparison(l, r) = AdmittedComparison(r, l)
       /\ TypeOfArithmetic(l, r) = TypeOfArithmetic(r, l)
       /\ TypeOfDivision(l, r) = TypeOfDivision(r, l)
       /\ CheckPair(l, r) = CheckPair(r, l)

=============================================================================
