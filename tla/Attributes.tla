------------------------------ MODULE Attributes ------------------------------
(***************************************************************************)
(* Which columns may travel beside the identity and the geometry           *)
(* (engine/src/attributes.rs).  A dataset has schema, a sequence of        *)
(* [name, type, addressable], the name of its geometry column and idColumn,*)
(* the column its identity is read from.                                   *)
(***************************************************************************)
EXTENDS Naturals, SequencesExt

CONSTANT MaxColumns   \* MAX_PROJECTED_ATTRIBUTES

None == "none"
IdColumn == "id"      \* envelope::ID_COLUMN, the identity's name in every batch
NotAType == "not-a-type"

Emitted == {"Utf8", "LargeUtf8", "Utf8View", "Boolean", "Int8", "Int16", "Int32", "Int64",
            "UInt8", "UInt16", "UInt32", "UInt64", "Float32", "Float64"}

\* admit_attribute_type: a dictionary over an admitted scalar is emitted as the scalar.
AttributeType(type) ==
    IF type = "Dictionary" THEN "Utf8" ELSE IF type \in Emitted THEN type ELSE NotAType

FieldOf(ds, name) == SelectSeq(ds.schema, LAMBDA f : f.name = name)

CheckGeometryAndIdentity(ds, f) ==
    IF ~f.addressable THEN "ColumnNameNotAddressable"
    ELSE IF f.name = ds.geometry THEN "ColumnIsGeometry"
    ELSE IF f.name \in {IdColumn, ds.idColumn} THEN "ColumnIsIdentity" ELSE None

TypeCheck(f) == IF AttributeType(f.type) = NotAType THEN "TypeNotAdmitted" ELSE None

\* Of a sequence of checks, the first that fails.
FirstError(errors) ==
    LET failed == SelectSeq(errors, LAMBDA e : e # None)
    IN IF failed = <<>> THEN None ELSE failed[1]

\* admit_projection_column, which describe asks of every column.
AdmitProjectionColumn(ds, f) == FirstError(<<CheckGeometryAndIdentity(ds, f), TypeCheck(f)>>)

\* admit_projection: every name is resolved before any column is looked at, then each
\* column is checked in the order of the names.
AdmitProjection(ds, names) ==
    LET resolved == [i \in DOMAIN names |->
            IF names[i] = IdColumn THEN "ColumnIsIdentity"
            ELSE IF FieldOf(ds, names[i]) = <<>> THEN "ColumnUnknown" ELSE None]
        field(i) == FieldOf(ds, names[i])[1]
        twice(i) == IF \E j \in 1..(i - 1) : names[j] = names[i] THEN "ColumnDuplicated" ELSE None
        checked == [i \in DOMAIN names |->
            FirstError(<<CheckGeometryAndIdentity(ds, field(i)), twice(i), TypeCheck(field(i))>>)]
    IN IF Len(names) > MaxColumns THEN "TooManyColumns"
       ELSE IF FirstError(resolved) # None THEN FirstError(resolved) ELSE FirstError(checked)

\* AdmittedProjection.fields.
Projection(ds, names) ==
    [i \in DOMAIN names |-> [name |-> names[i], type |-> AttributeType(FieldOf(ds, names[i])[1].type)]]

ProjectionErrors == {"TooManyColumns", "ColumnUnknown", "ColumnIsGeometry", "ColumnIsIdentity",
                     "ColumnDuplicated", "TypeNotAdmitted", "ColumnNameNotAddressable"}

\* From<ProjectionError> for EngineError, the form a publish reports it in.
EngineErrorOf ==
    [e \in ProjectionErrors |-> IF e = "TooManyColumns" THEN "CeilingExceeded" ELSE "AttributeUnpublishable"]

=============================================================================
