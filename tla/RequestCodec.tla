----------------------------- MODULE RequestCodec -----------------------------
(***************************************************************************)
(* The bytes and texts a request is written in: the data plane's frames    *)
(* (protocol/data-plane/src/wire.rs), the parameters of its one operation  *)
(* (kernel/src/params.rs), and the numbers and handles of SKP              *)
(* (protocol/skp/src/v0/codec.rs, handles.rs).                             *)
(*                                                                         *)
(* A byte is a digit in base ByteBase, a number of k bytes has k of them,  *)
(* big end first, and a cast to k bytes drops what does not fit.  A text   *)
(* is a sequence of bytes none of which is in NotUtf8.  A number written   *)
(* as text is a sequence of digits; NotADigit is any other character.      *)
(***************************************************************************)
EXTENDS Integers, SequencesExt

CONSTANTS ByteBase,
          ShortBytes,  \* the bytes of a u16
          LongBytes,   \* of a u32
          WordBytes,   \* of a u64 and of a double's bit pattern
          NotUtf8,     \* bytes that are in no text
          NotADigit,
          NonFinite,   \* bit patterns of the infinities and of NaN
          HandleLen    \* the hexadecimal digits of a handle

Nothing == [ok |-> FALSE]
Just(v) == [ok |-> TRUE, is |-> v]

\* to_be_bytes of a cast to k bytes, and from_be_bytes.
ToBe(n, k) == [i \in 1..k |-> (n \div ByteBase^(k - i)) % ByteBase]
FromBe(b) == FoldLeft(LAMBDA n, d : n * ByteBase + d, 0, b)
Fits(n, k) == n < ByteBase^k

\* b.get(at..at + len)
Get(b, at, len) == IF at + len <= Len(b) THEN Just(SubSeq(b, at + 1, at + len)) ELSE Nothing

IsText(b) == \A i \in DOMAIN b : b[i] \notin NotUtf8

-----------------------------------------------------------------------------
\* wire.rs: a frame is a tag, three bytes of zero, the length and the payload.

ReservePrefix(tag) == <<tag, 0, 0, 0>> \o ToBe(0, LongBytes)

\* patch_len, over a frame with its payload in place.
PatchLen(out) ==
    LET len == Len(out) - 4 - LongBytes
    IN IF len < 0 \/ ~Fits(len, LongBytes) THEN Nothing
       ELSE Just(SubSeq(out, 1, 4) \o ToBe(len, LongBytes) \o SubSeq(out, 5 + LongBytes, Len(out)))

Frame(tag, payload) == PatchLen(ReservePrefix(tag) \o payload)

PayloadLen(b) == LET n == Get(b, 4, LongBytes) IN IF n.ok THEN Just(FromBe(n.is)) ELSE Nothing

\* A START: the operation and its parameters, each behind its length.
StartPayload(operation, params) ==
    ToBe(Len(operation), ShortBytes) \o operation \o ToBe(Len(params), LongBytes) \o params

\* A string or a blob behind its length of k bytes, and where it ends.
TakeBlob(b, at, k) ==
    LET n == Get(b, at, k)
        v == Get(b, at + k, FromBe(n.is))
    IN IF ~n.ok THEN Nothing ELSE IF ~v.ok THEN Nothing ELSE Just([at |-> at + k + Len(v.is), v |-> v.is])

\* A bug: the length is read as one of a u32.
TakeStrLong(b, at) ==
    LET s == TakeBlob(b, at, LongBytes)
    IN IF ~s.ok THEN Nothing ELSE IF IsText(s.is.v) THEN s ELSE Nothing

\* take_str
TakeStr(b, at) ==
    LET s == TakeBlob(b, at, ShortBytes)
    IN IF ~s.ok THEN Nothing ELSE IF IsText(s.is.v) THEN s ELSE Nothing

ParseStart(payload) ==
    LET op == TakeStr(payload, 0)
        params == TakeBlob(payload, op.is.at, LongBytes)
    IN IF ~op.ok THEN Nothing ELSE IF ~params.ok THEN Nothing
       ELSE Just([operation |-> op.is.v, params |-> params.is.v])

-----------------------------------------------------------------------------
\* params.rs: StreamParams is [dataset, bbox, bboxCrs, limit].  bbox is <<>> or the four
\* bit patterns, bboxCrs empty or the name, limit <<>> or <<n>>.

FlagBbox(p) == IF p.bbox = <<>> THEN 0 ELSE 1
FlagLimit(p) == IF p.limit = <<>> THEN 0 ELSE 2

\* put_str
PutStr(s) == ToBe(Len(s), ShortBytes) \o s

Encode(p) ==
    <<FlagBbox(p) + FlagLimit(p)>> \o PutStr(p.dataset) \o PutStr(p.bboxCrs)
       \o FlattenSeq([i \in DOMAIN p.bbox |-> ToBe(p.bbox[i], WordBytes)])
       \o FlattenSeq([i \in DOMAIN p.limit |-> ToBe(p.limit[i], WordBytes)])

\* n numbers of a word each, from where the strings end.
TakeWords(b, at, n) ==
    IF at + n * WordBytes > Len(b) THEN Nothing
    ELSE Just([i \in 1..n |-> FromBe(SubSeq(b, at + (i - 1) * WordBytes + 1, at + i * WordBytes))])

Decode(b) ==
    LET boxed == b[1] % 2 = 1
        limited == (b[1] \div 2) % 2 = 1
        dataset == TakeStr(b, 1)
        crs == TakeStr(b, dataset.is.at)
        bbox == TakeWords(b, crs.is.at, IF boxed THEN 4 ELSE 0)
        limit == TakeWords(b, crs.is.at + (IF boxed THEN 4 ELSE 0) * WordBytes, IF limited THEN 1 ELSE 0)
    IN IF b = <<>> THEN Nothing
       ELSE IF ~dataset.ok THEN Nothing
       ELSE IF ~crs.ok THEN Nothing
       ELSE IF ~bbox.ok \/ ~limit.ok THEN Nothing
       ELSE IF boxed /\ crs.is.v = <<>> THEN Nothing
       ELSE Just([dataset |-> dataset.is.v, bbox |-> bbox.is, bboxCrs |-> crs.is.v, limit |-> limit.is])

-----------------------------------------------------------------------------
\* codec.rs: a double is all the digits of its bit pattern, a u64 is decimal.

IsDigits(s) == \A i \in DOMAIN s : s[i] # NotADigit

ToHex(bits) == ToBe(bits, WordBytes)

FromHex(s) ==
    IF Len(s) # WordBytes \/ ~IsDigits(s) \/ FromBe(s) \in NonFinite THEN Nothing ELSE Just(FromBe(s))

\* to_string: the shortest form.
ToDec(n) == LET k == CHOOSE j \in 1..(WordBytes + 1) : Fits(n, j) /\ (j > 1 => ~Fits(n, j - 1))
            IN ToBe(n, k)

\* A bug: a leading zero is read over.
FromDecPadded(s) == IF s = <<>> \/ ~IsDigits(s) \/ ~Fits(FromBe(s), WordBytes) THEN Nothing ELSE Just(FromBe(s))

FromDec(s) ==
    IF s = <<>> \/ ~IsDigits(s) THEN Nothing
    ELSE IF Len(s) > 1 /\ s[1] = 0 THEN Nothing
    ELSE IF Fits(FromBe(s), WordBytes) THEN Just(FromBe(s)) ELSE Nothing

-----------------------------------------------------------------------------
\* handles.rs: a handle is a text [prefix, digits], the prefix with its underscore.

MintHexId(prefix, bits) == [prefix |-> prefix, digits |-> ToBe(bits, HandleLen)]

ParseKernelMinted(prefix, h) == h.prefix = prefix /\ Len(h.digits) = HandleLen /\ IsDigits(h.digits)

\* parse_cancel_key: letters, digits and the two marks, one to sixty-four of them; every
\* well-formed handle is one.
ParseCancelKey(h) == h.prefix # "?" /\ IsDigits(h.digits) /\ (h.prefix = "" => h.digits # <<>>)

\* KernelControl::cancel: what a text names, a ticket or an open.
CancelNames(h) == IF ParseKernelMinted("sh_", h) THEN "ticket" ELSE "open"

-----------------------------------------------------------------------------
\* A START and the parameters it carries come out of their frame as they went in, where
\* their lengths fit the bytes of their length fields (wire.rs, params.rs).  Beyond that
\* a length is cut to its low bytes and the rest is read as something else: the writers
\* do not check, so the claim is the readers'.
StartSurvives(tag, operation, p) ==
    LET sent == Encode(p)
        frame == Frame(tag, StartPayload(operation, sent))
        got == ParseStart(SubSeq(frame.is, 5 + LongBytes, Len(frame.is)))
        named == p.bbox # <<>> => p.bboxCrs # <<>>
        short == \A s \in {operation, p.dataset, p.bboxCrs} : Fits(Len(s), ShortBytes)
    IN /\ short /\ frame.ok =>
            /\ PayloadLen(frame.is) = Just(Len(frame.is) - 4 - LongBytes)
            /\ got = Just([operation |-> operation, params |-> sent])
            /\ Decode(sent) = (IF named THEN Just(p) ELSE Nothing)
       /\ ~frame.ok <=> ~Fits(Len(StartPayload(operation, sent)), LongBytes)

\* Whatever bytes arrive, a reader that accepts them read what a writer would have
\* written there: the accepted value, written again, is the start of those bytes, up to
\* the flag bits nobody reads.  Nothing past the end is ever read.
ReadWasWritten(b) ==
    LET start == ParseStart(b)
        params == Decode(b)
    IN /\ start.ok => IsPrefix(StartPayload(start.is.operation, start.is.params), b)
       /\ params.ok => IsPrefix(Tail(Encode(params.is)), Tail(b))

\* A number has one text and a text one number: what FromHex and FromDec accept is what
\* ToHex and ToDec write, so that no two requests spell one viewport differently.  A
\* handle is read back as the kind it was minted as and as no other, and the cancel of a
\* key that does not look like a ticket reaches the open that registered it.
TextIsCanonical(s, h) ==
    /\ FromHex(s).ok => ToHex(FromHex(s).is) = s
    /\ FromDec(s).ok => ToDec(FromDec(s).is) = s
    /\ IsDigits(s) /\ s # <<>> /\ Fits(FromBe(s), WordBytes) =>
         /\ FromDec(ToDec(FromBe(s))) = Just(FromBe(s))
         /\ FromBe(s) \notin NonFinite => FromHex(ToHex(FromBe(s))) = Just(FromBe(s))
    /\ \A kind \in {"ds_", "sh_", "sr_"} : ParseKernelMinted(kind, h) =>
         /\ h = MintHexId(kind, FromBe(h.digits))
         /\ \A other \in {"ds_", "sh_", "sr_"} \ {kind} : ~ParseKernelMinted(other, h)
         /\ ParseCancelKey(h)
    /\ ParseCancelKey(h) /\ ~ParseKernelMinted("sh_", h) => CancelNames(h) = "open"

=============================================================================
