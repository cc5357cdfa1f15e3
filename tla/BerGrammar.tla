----------------------------- MODULE BerGrammar ------------------------------
(***************************************************************************)
(* What the BER decoder promises, stated without its machinery: which      *)
(* sequences of tokens are encodings of a type (X.690, 8.9 to 8.14).       *)
(*                                                                         *)
(* Ends(t, i, e, k) is the set of positions at which an encoding of type t *)
(* that starts behind token i can end, inside a slice that ends at e and   *)
(* with at most k nested constructed values.                               *)
(***************************************************************************)
EXTENDS BerDecoder

\* Any value behind token i, whatever its tag: where it ends.
RECURSIVE Values(_, _), AnyValue(_, _)
AnyValue(i, e) ==
    LET token == input[i + 1] IN
    IF i >= e \/ token.kind = "eoc" THEN {}
    ELSE IF token.len # Indefinite THEN {p \in {i + 1 + token.len} : p <= e}
    ELSE {p + 1 : p \in {q \in Values(i + 1, e) : /\ ~der /\ token.constructed
                                                /\ q < e /\ input[q + 1].kind = "eoc"}}
Values(i, e) == {i} \cup UNION {Values(p, e) : p \in AnyValue(i, e)}

\* The parts of a string sent in parts.
RECURSIVE Chunks(_, _)
Chunks(i, e) ==
    {i} \cup (IF i < e /\ input[i + 1].kind = "tlv" /\ input[i + 1].tag = ChunkTag
              THEN UNION {Chunks(p, e) : p \in AnyValue(i, e)} ELSE {})

RECURSIVE Ends(_, _, _, _), Elements(_, _, _, _), Components(_, _, _, _),
          AnyOrder(_, _, _, _, _)

Contents(t, i, e, k) ==
    LET d == Schema[t] IN
    CASE d.kind = "explicit" -> Ends(d.elem, i, e, k)
      [] d.kind \in {"sequenceOf", "setOf"} -> Elements(d.elem, i, e, k)
      [] d.kind = "sequence" -> Components(d.fields, i, e, k)
      [] d.kind = "string" -> {p \in Chunks(i, e) : ~der /\ input[i].ok}
      [] d.kind = "set" -> AnyOrder(d.fields, 1..Len(d.fields), i, e, k)

Ends(t, i, e, k) ==
    LET d == Schema[t]
        token == input[i + 1]
        stop == i + 1 + token.len
        inner == InnerDepth(t, k)
    IN  IF d.kind = "choice"
        THEN UNION {Ends(d.alts[a].type, i, e, k) : a \in 1..Len(d.alts)}
        ELSE IF AnyTag(t)
        THEN AnyValue(i, e)
        ELSE IF i >= e \/ token.kind = "eoc" \/ token.tag # d.tag
        THEN {}
        ELSE IF d.kind = "any"
        THEN AnyValue(i, e)
        ELSE IF d.kind = "primitive" \/ (d.kind \in {"string", "bits"} /\ ~token.constructed)
        THEN {p \in {stop} : token.len # Indefinite /\ token.ok /\ p <= e}
        ELSE IF (k = 0 /\ d.kind # "string") \/ (d.kind # "explicit" /\ ~token.constructed)
        THEN {}
        ELSE IF token.len = Indefinite
        THEN {p + 1 : p \in {q \in Contents(t, i + 1, e, inner) :
                                /\ ~der
                                /\ token.constructed
                                /\ q < e
                                /\ input[q + 1].kind = "eoc"}}
        ELSE {p \in {stop} : p <= e /\ p \in Contents(t, i + 1, p, inner)}

Elements(t, i, e, k) ==
    {i} \cup UNION {Elements(t, p, e, k) : p \in Ends(t, i, e, k)}

Components(fs, i, e, k) ==
    IF fs = << >>
    THEN {i}
    ELSE UNION {Components(Tail(fs), p, e, k) :
                   p \in Ends(fs[1].type, i, e, k)
                         \cup {q \in {i} : fs[1].mode # "required"}}

AnyOrder(fs, left, i, e, k) ==
    {p \in {i} : \A j \in left : fs[j].mode # "required"}
    \cup UNION {UNION {AnyOrder(fs, left \ {j}, p, e, k) :
                          p \in Ends(fs[j].type, i, e, k)} : j \in left}

Encodings(k) == Ends(root, 0, Len(input), k)

\* More levels than an input can hold: every token opens at most one value
Unlimited == 2 * (Len(input) + 1)

\* The types a value of type t is made of
RECURSIVE Uses(_)
Parts(t) == {Schema[t].alts[i].type : i \in 1..Len(Schema[t].alts)}
                \cup {Schema[t].fields[i].type : i \in 1..Len(Schema[t].fields)}
                \cup ({Schema[t].elem} \ {NoType})
Uses(S) == LET more == S \cup UNION {Parts(t) : t \in S}
           IN  IF more = S THEN S ELSE Uses(more)

\* Collections and SETs take the failure of an element for their end, OPTIONAL
\* components with an explicit tag take it for their absence.
Collects(t) == \E u \in Uses({t}) : Schema[u].kind \in {"set", "sequenceOf", "setOf"}
Swallows(t) == \E u \in Uses({t}) : \E i \in 1..Len(Schema[u].fields) :
                                        Schema[u].fields[i].mode = "optionalExplicit"

\* If decoding succeeds, what was consumed is an encoding of the type: no
\* nested value was accepted with a wrong tag, a wrong length, a component
\* missing, twice or in a wrong place, or passed over because it was malformed.
AcceptsOnlyEncodings ==
    pc = "done" /\ res = "ok" => stack[1].pos \in Encodings(MaxDepth)

\* The same for types that have no place where an error is swallowed
RecordsExact == ~Collects(root) /\ ~Swallows(root) => AcceptsOnlyEncodings

\* A collection finds its end by trying one more element, and fails if there
\* is no depth left for it: a value with collections is sure to be decoded only
\* if it stays this many levels below the limit.
Spare == IF Collects(root) THEN 2 ELSE 0

\* Every encoding of the type that stays below the depth limit is decoded, as
\* far as it reaches: optional components may be absent, SETs come in any
\* order, lengths may be indefinite.
AcceptsEveryEncoding ==
    LET expected == Encodings(MaxDepth - Spare)
    IN  pc = "done" /\ expected # {} => res = "ok" /\ stack[1].pos \in expected

\* An encoding is refused for its depth only, and then with the error that
\* says so, through whatever SETs, collections and explicit tags the error
\* travels (matches_root_cause); one that nests too deep is always refused,
\* unless an OPTIONAL component with an explicit tag swallows the error.
DepthReported ==
    pc = "done" /\ ~Swallows(root) /\ Encodings(Unlimited) # {}
        => res = "depth" \/ (res = "ok" /\ Encodings(MaxDepth) # {})
=============================================================================
