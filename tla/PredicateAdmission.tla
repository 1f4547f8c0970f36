-------------------------- MODULE PredicateAdmission --------------------------
(***************************************************************************)
(* AdmittedPredicate::admit (engine/src/predicate.rs): from a predicate's  *)
(* text to the right to compose it into a WHERE clause.                    *)
(*                                                                         *)
(* A text is a sequence of tokens: parentheses, AND, OR, "--" (the rest is *)
(* a comment) and atoms.  An atom names an expression without AND or       *)
(* OR of its own, [class, op, kids, leaf]: a tree of the classes           *)
(* json_serialize_sql reports.  A column is [name, arrow, geometry]; a     *)
(* dataset is a set of columns and the column its identity is mapped from. *)
(***************************************************************************)
EXTENDS PredicateTypes, SequencesExt

CONSTANTS MaxDepth,    \* MAX_PREDICATE_DEPTH
          MaxTokens    \* MAX_PREDICATE_BYTES, counted in tokens

Node(class, op, kids, leaf) == [class |-> class, op |-> op, kids |-> kids, leaf |-> leaf]
Junction(op, kids) == Node("CONJUNCTION", op, kids, "none")
Leaf(class, leaf) == Node(class, "none", <<>>, leaf)
\* 1=1 and 2=2.
Sentinel(n) == Node("COMPARISON", n, <<Leaf("CONSTANT", IntegerLiteral([neg |-> FALSE, bits |-> 1, digits |-> 1])),
                                       Leaf("CONSTANT", IntegerLiteral([neg |-> FALSE, bits |-> 1, digits |-> 1]))>>, "none")

-----------------------------------------------------------------------------
\* DuckDB's parser, over tokens: AND binds closer than OR, a conjunction of a
\* conjunction of its own kind is one, and "--" ends the text.  No tree when the
\* tokens are not an expression.

Uncommented(ts) == IF "--" \in ToSet(ts) THEN SubSeq(ts, 1, SelectInSeq(ts, LAMBDA t : t = "--") - 1) ELSE ts

Flat(op, kids) ==
    Junction(op, FlattenSeq([i \in DOMAIN kids |->
                     IF kids[i].class = "CONJUNCTION" /\ kids[i].op = op THEN kids[i].kids ELSE <<kids[i]>>]))

Parse(ts, atoms) ==
    LET n == Len(ts)
        \* Trees of ts[i..j] at a level: 1 an OR, 2 an AND, 3 an operand.
        p[d \in 0..n, i \in 1..(n + 1), j \in 0..n, level \in 1..3] ==
            IF j - i # d - 1 \/ d = 0 THEN {}
            ELSE IF level = 3 THEN
                IF d = 1 THEN IF ts[i] \in DOMAIN atoms THEN {atoms[ts[i]]} ELSE {}
                ELSE IF ts[i] = "(" /\ ts[j] = ")" THEN p[d - 2, i + 1, j - 1, 1] ELSE {}
            ELSE LET op == IF level = 1 THEN "OR" ELSE "AND" IN
                 p[d, i, j, level + 1] \cup
                 UNION {{Flat(op, <<l, r>>) : l \in p[k - i, i, k - 1, level], r \in p[j - k, k + 1, j, level + 1]} :
                            k \in {k \in (i + 1)..(j - 1) : ts[k] = op}}
    IN p[n, 1, n, 1]

-----------------------------------------------------------------------------
\* differential_operands: SELECT 1 WHERE (<text>) AND <sentinel>, parsed twice.

Wrapped(text, sentinel) == Uncommented(<<"(">> \o text \o <<")", "AND", sentinel>>)

\* parse_and_children with expect_wrapper_shape.
AndChildren(text, sentinel, atoms) ==
    LET found == Parse(Wrapped(text, sentinel), atoms) IN
    IF found = {} THEN [error |-> "Unparsable", kids |-> <<>>]
    ELSE LET where == CHOOSE t \in found : TRUE IN
         IF where.class # "CONJUNCTION" \/ where.op # "AND"
         THEN [error |-> "ConstructNotAdmitted", kids |-> <<>>]
         ELSE [error |-> "none", kids |-> where.kids]

\* A bug: the last operand of one parse is taken for the sentinel.
DifferentialOperandsOnce(text, atoms) ==
    LET a == AndChildren(text, "s1", atoms) IN
    IF a.error # "none" THEN a ELSE [error |-> "none", kids |-> Front(a.kids)]

DifferentialOperands(text, atoms) ==
    LET a == AndChildren(text, "s1", atoms)
        b == AndChildren(text, "s2", atoms)
    IN IF a.error # "none" THEN a ELSE IF b.error # "none" THEN b
       ELSE IF Last(a.kids) # Sentinel("s1") \/ Last(b.kids) # Sentinel("s2") \/ Front(a.kids) # Front(b.kids)
       THEN [error |-> "ConstructNotAdmitted", kids |-> <<>>]
       ELSE [error |-> "none", kids |-> Front(a.kids)]

-----------------------------------------------------------------------------
\* walk_expr: the first refusal of a tree met depth first, "none" when there is none.
\* A node whose operands are of the wrong number or class is refused before they are
\* walked; the code walks the first operand of IN and LIKE in between.

Unary == {"OPERATOR_NOT", "OPERATOR_IS_NULL", "OPERATOR_IS_NOT_NULL"}
Arithmetic == {"+", "-", "*", "/"}
Pattern == {"~~", "~~*"}

\* Whether a node may stand where it does, its operands aside.
ShapeAdmitted(node) ==
    \/ node.class \in {"CONSTANT", "COLUMN_REF", "CONJUNCTION", "COMPARISON", "BETWEEN"}
    \/ node.class = "OPERATOR" /\ node.op \in Unary /\ Len(node.kids) = 1
    \/ /\ node.class = "OPERATOR" /\ node.op = "COMPARE_IN" /\ Len(node.kids) >= 2
       /\ \A i \in 2..Len(node.kids) : node.kids[i].class = "CONSTANT"
    \/ node.class = "FUNCTION" /\ node.op \in Arithmetic
    \/ /\ node.class = "FUNCTION" /\ node.op \in Pattern /\ Len(node.kids) = 2
       /\ node.kids[2].class = "CONSTANT"

FirstError(errors) ==
    IF \A i \in DOMAIN errors : errors[i] = "none" THEN "none"
    ELSE SelectSeq(errors, LAMBDA e : e # "none")[1]

RECURSIVE WalkExpr(_, _)
WalkExpr(node, depth) ==
    IF depth > MaxDepth THEN "TooDeep"
    ELSE IF ~ShapeAdmitted(node) THEN "ConstructNotAdmitted"
    ELSE FirstError([i \in DOMAIN node.kids |-> WalkExpr(node.kids[i], depth + 1)])

RECURSIVE ColumnsOf(_)
ColumnsOf(node) == IF node.class = "COLUMN_REF" THEN <<node.leaf>>
                   ELSE FlattenSeq([i \in DOMAIN node.kids |-> ColumnsOf(node.kids[i])])

-----------------------------------------------------------------------------
\* namespace_admit.  filter_surrogate: no dictionary, no name the query cannot write,
\* and a type of the attribute list that DuckDB has a name for.

IdColumn == "id"
Filterable(c) == ~c.geometry /\ c.addressable /\ c.arrow[1] \notin {"Dictionary", "Unsupported"}

AliasAmbiguous(ds) == ds.mapped \notin {"none", IdColumn} /\ \E c \in ds.columns : c.name = IdColumn

ColumnError(name, ds) ==
    IF name = IdColumn /\ AliasAmbiguous(ds) THEN "IdentityAliasAmbiguous"
    ELSE IF \A c \in ds.columns : c.name # name THEN "UnknownColumn"
    ELSE IF \E c \in ds.columns : c.name = name /\ ~Filterable(c) THEN "ColumnNotFilterable"
    ELSE "none"

\* The namespace: every filterable column, whether the predicate names it or not.
TypeOfColumn(name, ds) == (CHOOSE c \in ds.columns : c.name = name).arrow

-----------------------------------------------------------------------------
\* The type walk.  Value is type_of_value; a boolean position goes through
\* check_boolean_operand, whose leaves must be BOOLEAN or NULL.

FirstRefusal(results) ==
    IF \A i \in DOMAIN results : results[i].ok THEN Admitted(Expression(Boolean))
    ELSE SelectSeq(results, LAMBDA r : ~r.ok)[1]

BooleanOrNull(r) ==
    IF ~r.ok \/ r.t.ty \in {Boolean, Null} THEN r
    ELSE Refused(DetermineReason(r.t, Column(Boolean), FALSE))

CheckBetween(i, l, u) ==
    FirstRefusal(<<i, l, CheckPair(i.t, l.t), u, CheckPair(i.t, u.t), CheckPair(l.t, u.t)>>)

CheckIn(needle, members) ==
    FirstRefusal(<<needle>> \o FlattenSeq([i \in DOMAIN members |->
                                   <<members[i], CheckPair(needle.t, members[i].t)>>]))

CheckPattern(l, r) ==
    FirstRefusal(<<l, r, IF l.t.ty = Varchar /\ r.t.ty \in {Varchar, Null} THEN l
                         ELSE Refused("TextWithNonText")>>)

\* A bug: IS NULL does not look at its operand.
TypeOfOperatorBlind(op, kids) ==
    IF op = "OPERATOR_NOT" THEN FirstRefusal([i \in DOMAIN kids |-> BooleanOrNull(kids[i])])
    ELSE IF op = "COMPARE_IN" THEN CheckIn(kids[1], Tail(kids))
    ELSE Admitted(Expression(Boolean))

TypeOfOperator(op, kids) ==
    IF op = "OPERATOR_NOT" THEN FirstRefusal([i \in DOMAIN kids |-> BooleanOrNull(kids[i])])
    ELSE IF op = "COMPARE_IN" THEN CheckIn(kids[1], Tail(kids))
    ELSE FirstRefusal(<<kids[1]>>)

TypeOfFunction(op, kids) ==
    IF op \in Pattern THEN CheckPattern(kids[1], kids[2])
    ELSE IF \E i \in DOMAIN kids : ~kids[i].ok THEN FirstRefusal(kids)
    ELSE IF op = "/" THEN TypeOfDivision(kids[1].t, kids[2].t)
    ELSE IF Len(kids) = 1 THEN TypeOfUnary(kids[1].t)
    ELSE TypeOfArithmetic(kids[1].t, kids[2].t)

RECURSIVE TypeOfValue(_, _)
TypeOfValue(node, ds) ==
    LET kids == [i \in DOMAIN node.kids |-> TypeOfValue(node.kids[i], ds)]
    IN CASE node.class = "CONSTANT" -> Admitted(node.leaf)
         [] node.class = "COLUMN_REF" -> Admitted(Column(TypeOfColumn(node.leaf, ds)))
         [] node.class = "COMPARISON" -> FirstRefusal(kids \o <<CheckPair(kids[1].t, kids[2].t)>>)
         [] node.class = "BETWEEN" -> CheckBetween(kids[1], kids[2], kids[3])
         [] node.class = "CONJUNCTION" -> FirstRefusal([i \in DOMAIN kids |-> BooleanOrNull(kids[i])])
         [] node.class = "OPERATOR" -> TypeOfOperator(node.op, kids)
         [] node.class = "FUNCTION" -> TypeOfFunction(node.op, kids)

-----------------------------------------------------------------------------
\* admit, its stages in their order.  acquired is the pool's answer and bound the
\* binder's, "none" when there is no error; how the lease ends depends on the stage.

Verdict(error, operands, lease) == [error |-> error, operands |-> operands, lease |-> lease]

Admit(text, ds, acquired, bound, atoms) ==
    LET diff == DifferentialOperands(text, atoms)
        ops == diff.kids
        walked == FirstError([i \in DOMAIN ops |-> WalkExpr(ops[i], 1)])
        columns == FlattenSeq([i \in DOMAIN ops |-> ColumnsOf(ops[i])])
        names == FirstError([i \in DOMAIN columns |-> ColumnError(columns[i], ds)])
        typed == FirstRefusal([i \in DOMAIN ops |-> BooleanOrNull(TypeOfValue(ops[i], ds))])
    IN IF Len(text) > MaxTokens THEN Verdict("TooLong", <<>>, "none")
       ELSE IF acquired # "none" THEN Verdict(acquired, <<>>, "none")
       ELSE IF diff.error # "none" THEN Verdict(diff.error, <<>>, "released")
       ELSE IF ops = <<>> THEN Verdict("ConstructNotAdmitted", <<>>, "released")
       ELSE IF walked # "none" THEN Verdict(walked, <<>>, "released")
       ELSE IF names # "none" THEN Verdict(names, <<>>, "released")
       ELSE IF bound # "none" THEN Verdict(bound, <<>>, "discarded")
       ELSE IF ~typed.ok THEN Verdict(typed.reason, <<>>, "discarded")
       ELSE Verdict("none", ops, "released")

-----------------------------------------------------------------------------
\* Reference: the type of a tree, and the positions in it where two values meet or a
\* BOOLEAN is expected, wherever in the tree they are.

RECURSIVE Subtrees(_)
Subtrees(node) == {node} \cup UNION {Subtrees(node.kids[i]) : i \in DOMAIN node.kids}

Family(t) == IF IsNumeric(t) THEN "numeric" ELSE t.ty[1]

Meet(node, ds) ==
    LET f(i) == Family(TypeOfValue(node.kids[i], ds).t) IN
    CASE node.class \in {"COMPARISON", "BETWEEN"} \/ node.op \in {"COMPARE_IN"} \cup Pattern \cup Arithmetic ->
            {f(i) : i \in DOMAIN node.kids}
      [] node.class = "CONJUNCTION" \/ node.op = "OPERATOR_NOT" ->
            {"Boolean"} \cup {f(i) : i \in DOMAIN node.kids}
      [] OTHER -> {}

\* What build_sql relies on when it writes an admitted text into its WHERE clause: the
\* text, in the one pair of parentheses it adds, alone or followed by its own conditions,
\* reads as exactly the operands that were admitted and those conditions; and nowhere in
\* them, however deep, does a text or a BOOLEAN meet a value of another kind, or a column
\* stand that the predicate may not name.
AdmittedMeansItself(text, ds, atoms) ==
    LET v == Admit(text, ds, "none", "none", atoms)
        nodes == UNION {Subtrees(v.operands[i]) : i \in DOMAIN v.operands}
        all == Flat("AND", v.operands)
    IN v.error = "none" =>
        /\ Parse(Wrapped(text, "bbox"), atoms) = {Flat("AND", Append(v.operands, Leaf("BBOX", "none")))}
        /\ Parse(Uncommented(<<"(">> \o text \o <<")">>), atoms)
              = {IF Len(v.operands) = 1 THEN v.operands[1] ELSE all}
        /\ \A node \in nodes :
             /\ Cardinality(Meet(node, ds) \ {"Null"}) <= 1
             /\ node.class = "COLUMN_REF" => /\ \E c \in ds.columns : c.name = node.leaf /\ Filterable(c)
                                             /\ node.leaf = IdColumn => ~AliasAmbiguous(ds)

=============================================================================
