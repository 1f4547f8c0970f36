----------------------------- MODULE StyleCompile -----------------------------
(***************************************************************************)
(* Styles (renderer/src/style.rs, compiled.rs, canonical.rs): what parse   *)
(* admits of a style document, what compile binds it to, the canonical     *)
(* text that travels in the bundle and is parsed again by its reader, the  *)
(* legend and what a feature is drawn with.                                *)
(*                                                                         *)
(* A source is the JSON tree of the document: [json, keys, version,        *)
(* layerKeys, geometry, sites], one site per property.  A site is          *)
(* [object, keys, literal, match]; a match is                              *)
(* [object, keys, column, cases, onNull, onUnmatched], a case              *)
(* [object, keys, when, then].  A leaf is [ty, form, n]: a colour is a     *)
(* text of some form that spells the n-th colour, a number counts units of *)
(* 1e-7.  Which of several errors is reported is left out.                 *)
(***************************************************************************)
EXTENDS Naturals, SequencesExt

CONSTANTS MaxMatchCases,    \* MAX_MATCH_CASES
          MaxOutlineWidth   \* MAX_OUTLINE_WIDTH, in units of 1e-7

One == 10000000
Site == {"fill_color", "fill_opacity", "outline_color", "outline_width"}
TextTypes == {"Utf8", "LargeUtf8", "Utf8View"}
NoColumn == "none"

\* parse_color and number: the leaf admitted at a site.  `#rrggbb` in either case is
\* one colour.
LeafOk(site, leaf) ==
    CASE site \in {"fill_color", "outline_color"} -> leaf.ty = "text" /\ leaf.form \in {"lower", "upper"}
      [] site = "fill_opacity"  -> leaf.ty = "number" /\ leaf.n \in 0..One
      [] site = "outline_width" -> leaf.ty = "number" /\ leaf.n \in 0..MaxOutlineWidth

\* parse_match.  An unknown key and a missing one are both refused.
MatchOk(site, m) ==
    /\ m.object
    /\ m.keys = {"column", "cases", "on_null", "on_unmatched"}
    /\ m.column # ""
    /\ Len(m.cases) \in 1..MaxMatchCases
    /\ \A i \in DOMAIN m.cases :
         /\ m.cases[i].object
         /\ m.cases[i].keys = {"when", "then"}
         /\ LeafOk(site, m.cases[i].then)
         /\ \A j \in DOMAIN m.cases : m.cases[i].when = m.cases[j].when => i = j
    /\ LeafOk(site, m.onNull)
    /\ LeafOk(site, m.onUnmatched)

\* value: exactly one of a literal and a match.
SiteOk(site, s) ==
    /\ s.object
    /\ \/ s.keys = {"literal"} /\ LeafOk(site, s.literal)
       \/ s.keys = {"match"} /\ MatchOk(site, s.match)

MatchSites(src) == {site \in Site : "match" \in src.sites[site].keys}

ParseOk(src) ==
    /\ src.json
    /\ src.keys = {"style_version", "layer"}
    /\ src.version = 1
    /\ src.layerKeys = Site \cup {"geometry"}
    /\ src.geometry = "polygon"
    /\ \A site \in Site : SiteOk(site, src.sites[site])
    /\ \A a, b \in MatchSites(src) : a = b

\* The StyleDocument: values without their spelling.
Value(s) ==
    IF s.keys = {"literal"}
    THEN [kind |-> "Literal", value |-> s.literal.n, column |-> NoColumn, cases |-> <<>>, onNull |-> 0, onUnmatched |-> 0]
    ELSE [kind |-> "Match", value |-> 0, column |-> s.match.column,
          cases |-> [i \in DOMAIN s.match.cases |-> <<s.match.cases[i].when, s.match.cases[i].then.n>>],
          onNull |-> s.match.onNull.n, onUnmatched |-> s.match.onUnmatched.n]

Document(src) == [site \in Site |-> Value(src.sites[site])]

MatchColumn(doc) ==
    IF \E site \in Site : doc[site].kind = "Match"
    THEN doc[CHOOSE site \in Site : doc[site].kind = "Match"].column ELSE NoColumn

CaseValues(doc) ==
    IF \E site \in Site : doc[site].kind = "Match"
    THEN LET cases == doc[CHOOSE site \in Site : doc[site].kind = "Match"].cases
         IN [i \in DOMAIN cases |-> cases[i][1]]
    ELSE <<>>

-----------------------------------------------------------------------------
\* write_double: no exponent is written, so the smallest magnitude is 1e-6.
Spellable(n) == n = 0 \/ n >= 10

\* color_json and the numbers: the canonical leaf of a value.
LeafJson(site, n) ==
    IF site \in {"fill_color", "outline_color"} THEN [ty |-> "text", form |-> "lower", n |-> n]
    ELSE [ty |-> "number", form |-> "number", n |-> n]

\* value_json.
ValueJson(site, v) ==
    IF v.kind = "Literal"
    THEN [object |-> TRUE, keys |-> {"literal"}, literal |-> LeafJson(site, v.value)]
    ELSE [object |-> TRUE, keys |-> {"match"},
          match |-> [object |-> TRUE, keys |-> {"column", "cases", "on_null", "on_unmatched"}, column |-> v.column,
                     cases |-> [i \in DOMAIN v.cases |->
                                  [object |-> TRUE, keys |-> {"when", "then"}, when |-> v.cases[i][1],
                                   then |-> LeafJson(site, v.cases[i][2])]],
                     onNull |-> LeafJson(site, v.onNull), onUnmatched |-> LeafJson(site, v.onUnmatched)]]

\* to_canonical_json.
CanonicalJson(doc) ==
    [json |-> TRUE, keys |-> {"style_version", "layer"}, version |-> 1, layerKeys |-> Site \cup {"geometry"},
     geometry |-> "polygon", sites |-> [site \in Site |-> ValueJson(site, doc[site])]]

\* write_value over the document: every number it holds must be spellable.
Canonical(doc) ==
    \A site \in {"fill_opacity", "outline_width"} :
       LET v == doc[site] IN
       IF v.kind = "Literal" THEN Spellable(v.value)
       ELSE /\ Spellable(v.onNull)
            /\ Spellable(v.onUnmatched)
            /\ \A i \in DOMAIN v.cases : Spellable(v.cases[i][2])

-----------------------------------------------------------------------------
\* A branch is <<"null">>, <<"unmatched">> or <<"value", text>>.
\* A bug: a null takes the unmatched branch.
PickNullIsUnmatched(v, branch) ==
    LET hits == {i \in DOMAIN v.cases : branch[1] = "value" /\ v.cases[i][1] = branch[2]}
    IN IF v.kind = "Literal" THEN v.value
       ELSE IF hits # {} THEN v.cases[CHOOSE i \in hits : \A j \in hits : i <= j][2] ELSE v.onUnmatched

Pick(v, branch) ==
    LET hits == {i \in DOMAIN v.cases : branch[1] = "value" /\ v.cases[i][1] = branch[2]}
    IN CASE v.kind = "Literal"     -> v.value
         [] v.kind = "Match" /\ branch[1] = "null"  -> v.onNull
         [] v.kind = "Match" /\ branch[1] # "null" /\ hits = {} -> v.onUnmatched
         [] v.kind = "Match" /\ hits # {} -> v.cases[CHOOSE i \in hits : \A j \in hits : i <= j][2]

\* CompiledStyle::resolve and draw.
Draw(doc, branch) == [site \in Site |-> Pick(doc[site], branch)]

LegendOf(doc) ==
    IF MatchColumn(doc) = NoColumn THEN <<>>
    ELSE LET branches == [i \in DOMAIN CaseValues(doc) |-> <<"value", CaseValues(doc)[i]>>]
                            \o <<<<"null">>, <<"unmatched">>>>
         IN [i \in DOMAIN branches |-> [kind |-> branches[i], draw |-> Draw(doc, branches[i])]]

\* compile: schema gives the type of each column of the file, published is the projection.
Compile(src, schema, published) ==
    LET doc == Document(src)
        column == MatchColumn(doc)
        ok == /\ ParseOk(src)
              /\ column # NoColumn => /\ column \in DOMAIN schema
                                      /\ schema[column] \in TextTypes
                                      /\ column \in published
              /\ Canonical(doc)
    IN IF ok THEN [ok |-> TRUE, doc |-> doc, column |-> column, legend |-> LegendOf(doc)]
       ELSE [ok |-> FALSE]

-----------------------------------------------------------------------------
\* What a text of the match column's own values is drawn with, read off the source.
Written(s, key) ==
    LET hits == {i \in DOMAIN s.match.cases : key # <<"null">> /\ s.match.cases[i].when = key[2]}
    IN IF s.keys = {"literal"} THEN s.literal.n
       ELSE IF key = <<"null">> THEN s.match.onNull.n
       ELSE IF hits = {} THEN s.match.onUnmatched.n ELSE s.match.cases[CHOOSE i \in hits : TRUE].then.n

\* A style that compiles means what its author wrote, here and in the bundle: every
\* feature is drawn with what the source says for its value; the legend has one entry
\* for each case, one for null and one for the rest, drawn as those features are; the
\* canonical text is itself a style that compiles to the same document, so that its
\* reader and its hash speak of one style; and the column it matches on is a text
\* column the bundle carries.
StyleMeansItsSource(src, schema, published, texts) ==
    LET c == Compile(src, schema, published)
        again == Compile(CanonicalJson(c.doc), schema, published)
        keys == {<<"null">>} \cup {<<"value", t>> : t \in texts}
    IN c.ok =>
       /\ again.ok /\ again.doc = c.doc
       /\ c.column # NoColumn => c.column \in published /\ schema[c.column] \in TextTypes
       /\ \A key \in keys :
            LET draw == Draw(c.doc, key) IN
            /\ \A site \in Site : draw[site] = Written(src.sites[site], key)
            /\ c.legend # <<>> =>
                 LET entry == IF \E i \in DOMAIN c.legend : c.legend[i].kind = key THEN key ELSE <<"unmatched">>
                 IN \E i \in DOMAIN c.legend : c.legend[i].kind = entry /\ c.legend[i].draw = draw
       /\ \A i, j \in DOMAIN c.legend : c.legend[i].kind = c.legend[j].kind => i = j

=============================================================================
