--------------------------- MODULE SourceReference ---------------------------
(***************************************************************************)
(* How a source is told from a changed one: the descriptor and the content *)
(* pin of the engine (engine/src/descriptor.rs, pin.rs) and the reference  *)
(* a session keeps to a linked file (kernel/src/dataset_ref.rs), written   *)
(* to JSON and read back.                                                  *)
(*                                                                         *)
(* A file is [there, size, mtime, magic, footerLen, footer, body], with    *)
(* mtime NoTime where the filesystem reports none.  A hash is what it was  *)
(* taken of.  A JSON string is [text, marks], the marks being what the     *)
(* parser can tell of the text; an object is a function of its keys.       *)
(***************************************************************************)
EXTENDS Integers, Sequences, FiniteSets, TLC

CONSTANTS FooterMax,         \* FOOTER_DESCRIPTOR_MAX_BYTES
          TailBytes,         \* PARQUET_TAIL_BYTES
          MaxExactInteger,   \* MAX_EXACT_INTEGER
          MaxRefLocators     \* MAX_REF_LOCATORS

NoTime == -1
NoHash == "not-read"
Refused == [ok |-> FALSE]
Ok(v) == [ok |-> TRUE, value |-> v]
Null == [null |-> TRUE]

-----------------------------------------------------------------------------
\* The descriptor.

\* SourceDescriptor::of.  A footer over the ceiling is not read, and whether the file is
\* long enough for it is then not looked at.
DescriptorOf(file) ==
    LET d(hash) == [size |-> file.size, mtime |-> file.mtime, footerLen |-> file.footerLen, hash |-> hash]
    IN IF ~file.there \/ file.size < TailBytes \/ ~file.magic THEN Refused
       ELSE IF file.footerLen > FooterMax THEN Ok(d(NoHash))
       ELSE IF file.size < TailBytes + file.footerLen THEN Refused
       ELSE Ok(d(file.footer))

\* unestablished_components: what the degradation names.
Unestablished(d) == (IF d.mtime = NoTime THEN {"mtime"} ELSE {}) \cup (IF d.hash = NoHash THEN {"footer-hash"} ELSE {})

\* differing_components.
\* A bug: a modification time that one side lacks is not compared.
DifferingWhereKnown(was, now) ==
    (IF was.size # now.size THEN {"size"} ELSE {})
    \cup (IF was.mtime # now.mtime /\ NoTime \notin {was.mtime, now.mtime} THEN {"mtime"} ELSE {})
    \cup (IF was.footerLen # now.footerLen THEN {"footer-length"} ELSE {})
    \cup (IF was.hash # now.hash /\ NoHash \notin {was.hash, now.hash} THEN {"footer-hash"} ELSE {})

DifferingComponents(was, now) ==
    (IF was.size # now.size THEN {"size"} ELSE {})
    \cup (IF was.mtime # now.mtime THEN {"mtime"} ELSE {})
    \cup (IF was.footerLen # now.footerLen THEN {"footer-length"} ELSE {})
    \cup (IF was.hash # now.hash /\ NoHash \notin {was.hash, now.hash} THEN {"footer-hash"} ELSE {})

\* refuse_if_changed_or_unreadable: a source that cannot be described again has changed.
UnchangedSince(was, file) ==
    LET now == DescriptorOf(file) IN now.ok /\ DifferingComponents(was, now.value) = {}

-----------------------------------------------------------------------------
\* The content pin.

\* take_with_progress: the hash first, the heuristic after it.
TakePin(hashed, measured) ==
    IF ~hashed.there \/ ~measured.there THEN Refused
    ELSE Ok([hash |-> <<hashed.body, hashed.footer>>, len |-> measured.size, mtime |-> measured.mtime])

VerifyByRehash(pin, file) == file.there /\ pin.hash = <<file.body, file.footer>>
VerifyByHeuristic(pin, file) == file.there /\ pin.len = file.size /\ pin.mtime = file.mtime

-----------------------------------------------------------------------------
\* The reference.

Str(text, marks) == [text |-> text, marks |-> marks]

\* claim_of and mapped_column, of an opened dataset [file, crs, identity].
ClaimOf(crs) == IF crs.source = "caller-asserted" THEN [identifier |-> crs.identifier, definition |-> crs.definition] ELSE Null
MappedColumn(identity) == IF identity.mapped THEN [column |-> identity.column] ELSE Null

\* DatasetRef::linked.
Linked(uri, ds) ==
    [uri |-> uri, locators |-> <<[kind |-> "machine-recorded", at |-> uri]>>,
     observed |-> DescriptorOf(ds.file).value,
     crs |-> ClaimOf(ds.crs), identity |-> MappedColumn(ds.identity)]

StateJson(state) == [state |-> Str(state, {}), basis |-> Str("basis", {})]

\* observed_json.  A time is written in decimal.
Decimal(n) == Str(ToString(n), {"minimal-decimal"})
Hex(hash) == Str(hash, {"hex64"})

ObservedJson(o) ==
    [byte_size |-> o.size,
     modified_ns |-> IF o.mtime = NoTime THEN StateJson("not-reported") ELSE Decimal(o.mtime),
     footer_length |-> o.footerLen,
     footer_sha256 |-> IF o.hash = NoHash THEN StateJson("not-read-over-ceiling") ELSE Hex(o.hash)]

\* DatasetRef::to_json.
ToJson(ref) ==
    [resource |-> [logical_uri |-> ref.uri, content_hash |-> StateJson("not-taken"),
                   source_revision |-> StateJson("none-pinned"),
                   locators |-> [i \in DOMAIN ref.locators |->
                                   [kind |-> Str(ref.locators[i].kind, {}), at |-> ref.locators[i].at]],
                   cache_status |-> Str("linked", {}), portability_policy |-> Str("linked-live-file", {})],
     observed |-> ObservedJson(ref.observed),
     admission |-> [crs_assertion |-> ref.crs, identity |-> ref.identity]]

-----------------------------------------------------------------------------
\* The parser: closed objects, known words, bounded strings.

IsStr(v) == DOMAIN v = {"text", "marks"}
Bounded(v) == IsStr(v) /\ "over-ceiling" \notin v.marks
Claim(v) == Bounded(v) /\ "blank" \notin v.marks
Word(v, word) == Bounded(v) /\ v.text = word

\* closed.
Closed(v, keys) == DOMAIN v = keys

\* expect_state: the word is checked, the basis only for being there.
ExpectState(v, state) == Closed(v, {"state", "basis"}) /\ Word(v.state, state) /\ Claim(v.basis)

ExactInteger(n) == n >= 0 /\ n <= MaxExactInteger

\* in_canonical_form, of a project-relative locator.
InCanonicalForm(at) == at.marks \cap {"backslash", "colon", "dot-segment", "empty-segment"} = {}

\* parse_resource.
LocatorOk(v, uri) ==
    /\ Closed(v, {"kind", "at"}) /\ Bounded(v.at) /\ Bounded(v.kind)
    /\ \/ v.kind.text = "project-relative" /\ InCanonicalForm(v.at)
       \/ v.kind.text = "machine-recorded" /\ v.at = uri

ResourceOk(v) ==
    /\ Closed(v, {"logical_uri", "content_hash", "source_revision", "locators", "cache_status", "portability_policy"})
    /\ Bounded(v.logical_uri) /\ "uri" \in v.logical_uri.marks
    /\ ExpectState(v.content_hash, "not-taken")
    /\ ExpectState(v.source_revision, "none-pinned")
    /\ Word(v.cache_status, "linked") /\ Word(v.portability_policy, "linked-live-file")
    /\ Len(v.locators) \in 1..MaxRefLocators
    /\ \A i \in DOMAIN v.locators : LocatorOk(v.locators[i], v.logical_uri)

\* string_or_state and parse_observed.
StringOrState(v, state, mark) == IF IsStr(v) THEN Bounded(v) /\ mark \in v.marks ELSE ExpectState(v, state)

ObservedOk(v) ==
    /\ Closed(v, {"byte_size", "modified_ns", "footer_length", "footer_sha256"})
    /\ StringOrState(v.modified_ns, "not-reported", "minimal-decimal")
    /\ StringOrState(v.footer_sha256, "not-read-over-ceiling", "hex64")
    /\ ExactInteger(v.byte_size) /\ ExactInteger(v.footer_length)

Number(v) == CHOOSE n \in 0..9 : ToString(n) = v.text

Observed(v) == [size |-> v.byte_size, mtime |-> IF IsStr(v.modified_ns) THEN Number(v.modified_ns) ELSE NoTime,
                footerLen |-> v.footer_length, hash |-> IF IsStr(v.footer_sha256) THEN v.footer_sha256.text ELSE NoHash]

\* parse_admission.
AdmissionOk(v) ==
    /\ Closed(v, {"crs_assertion", "identity"})
    /\ v.crs_assertion = Null \/ (Closed(v.crs_assertion, {"identifier", "definition"})
                                     /\ Claim(v.crs_assertion.identifier) /\ Claim(v.crs_assertion.definition))
    /\ v.identity = Null \/ (Closed(v.identity, {"column"}) /\ Claim(v.identity.column))

\* DatasetRef::parse.
Parse(v) ==
    IF Closed(v, {"resource", "observed", "admission"}) /\ ResourceOk(v.resource) /\ ObservedOk(v.observed) /\ AdmissionOk(v.admission)
    THEN Ok([uri |-> v.resource.logical_uri,
             locators |-> [i \in DOMAIN v.resource.locators |->
                             [kind |-> v.resource.locators[i].kind.text, at |-> v.resource.locators[i].at]],
             observed |-> Observed(v.observed), crs |-> v.admission.crs_assertion, identity |-> v.admission.identity])
    ELSE Refused

\* DatasetRef::check.
Check(ref, ds) ==
    [observed |-> DifferingComponents(ref.observed, DescriptorOf(ds.file).value),
     admission |-> (IF ref.crs # ClaimOf(ds.crs) THEN {"crs"} ELSE {})
                   \cup (IF ref.identity # MappedColumn(ds.identity) THEN {"identity"} ELSE {})]
NoChangeDetected == [observed |-> {}, admission |-> {}]

-----------------------------------------------------------------------------
\* The entry without the wording of its states.
Plain(v) == IF IsStr(v) THEN v ELSE v.state
WithoutBasis(v) ==
    [v EXCEPT !.resource.content_hash = Plain(@), !.resource.source_revision = Plain(@),
              !.observed.modified_ns = Plain(@), !.observed.footer_sha256 = Plain(@)]

\* What the reader refuses and the writer can hold: a number past the exact integers, a
\* claim that is blank or too long.
Readable(ref) ==
    /\ ExactInteger(ref.observed.size) /\ ExactInteger(ref.observed.footerLen)
    /\ ref.crs # Null => Claim(ref.crs.identifier) /\ Claim(ref.crs.definition)
    /\ ref.identity # Null => Claim(ref.identity.column)

\* A reference read back is the reference that was written, and checked against a later
\* open of the source it finds no change exactly when size, modification time (or that
\* there is none), footer length, footer as far as it was read, asserted coordinate system
\* and mapped identity are all what they were.  An entry of another hand is refused or says
\* after a rewrite everything it said before.  What the descriptor lets pass, the pin's length
\* and time let pass as well.
ReferenceNoticesChange(uri, was, now, entry) ==
    LET ref == Linked(uri, was)
        back == Parse(ToJson(ref))
        f == was.file
        g == now.file
    IN
       /\ back.ok <=> Readable(ref)
       /\ back.ok => back.value = ref
       /\ (Check(ref, now) = NoChangeDetected) <=>
             /\ f.size = g.size /\ f.mtime = g.mtime /\ f.footerLen = g.footerLen
             /\ f.footer = g.footer \/ f.footerLen > FooterMax
             /\ ClaimOf(was.crs) = ClaimOf(now.crs) /\ MappedColumn(was.identity) = MappedColumn(now.identity)
       /\ Parse(entry).ok => WithoutBasis(ToJson(Parse(entry).value)) = WithoutBasis(entry)
       /\ UnchangedSince(DescriptorOf(f).value, g) => VerifyByHeuristic(TakePin(f, f).value, g)
       /\ (Unestablished(DescriptorOf(f).value) = {} /\ UnchangedSince(DescriptorOf(f).value, g) /\ f.body = g.body) =>
             VerifyByRehash(TakePin(f, f).value, g)

=============================================================================
