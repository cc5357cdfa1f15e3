# rasn in TLA+

Model-checked and partly proved specifications of the core of `rasn`, the
ASN.1 codec framework in `src/`: encoding rules (BER/CER/DER, PER aligned and
unaligned, OER/COER, JER, XER, AVN) behind one pair of traits, `Encoder` and
`Decoder`, driven by code that `#[derive(Encode, Decode)]` generates.

## Inventory

The program is sequential: no threads, no I/O, nothing persisted. What is hard
is the *state* a codec carries through a long sequence of calls made by
generated code, in an order that depends on the type and on the value.

| Component | State it keeps | Operations | Correct when | Modules |
| --- | --- | --- | --- | --- |
| PER encoder `src/src/per/enc.rs` | output bits, `set_output` by tag, presence bitmaps, position of the outer encoder | `encode_*`, length determinants and fragments, preamble, extension additions | what it writes is the canonical encoding | `PerEncoder`, `PerFragment` |
| PER decoder `src/src/per/de.rs` | remaining input, queue of presence bits, extension presence, remaining depth | `decode_*`, length determinants, preamble, extension header | accepts what the encoder writes and stops at the next field | `PerDecoder`, `PerFragment` |
| OER encoder `src/src/oer/enc.rs` | two shared buffers `output`/`worker`, `set_output`, cursors into preamble and extension bitmap | `encode_*`, `encode_extension_addition`, `collect_set` | the buffers never mix, nothing is dropped | `OerEncoder` |
| OER decoder `src/src/oer/de.rs` | input, presence arrays with indices, remaining depth | `decode_*` | as PER | `OerDecoder` |
| BER decoder `src/src/ber/de.rs`, `de/parser.rs` | input, remaining depth; one nested decoder per constructed value | TLV parsing, definite and indefinite lengths, optional fields, collections, strings in parts | no input outside a value is read, none inside it is skipped, recursion is bounded | `BerDecoder`, `BoundedReader`, `BerGrammar` |
| BER/CER/DER encoder `src/src/ber/enc.rs` | output, `set_buffer` by tag; one nested encoder per constructed value | `encode_*`, SET and SET OF ordering, CER parts | every component is in the output once, in canonical order, and the decoder reads it as what it was written for | `BerEncoder`, `BerCodec` |
| JER codec `src/src/jer/` | stack of pending field names, stack of objects, root value; stack of optional values | `encode_*`, `decode_*` | names and values stay paired however deep the nesting | `TextEncoder`, `TextDecoder` |
| AVN codec `src/src/avn/` | as JER | as JER | as JER | the same |
| AVN text `src/src/avn/value.rs`, `de.rs` | position in the text, depth | `Display`, `parse_value_depth`, `parse_brace` | what is displayed is read back | `AvnText` |
| XER codec `src/src/xer/` | stack of element names, flags for list items and alternatives, stack of elements being decoded | as JER over XML events | elements nest and are named after their fields; a document is read whatever the order of its fields | `XerEncoder`, `XerDecoder`, `XerCodec` |
| Type descriptions `src/src/types/` | tags, tag trees, fields, constraints | `smallest_tag`, `is_unique`, `tag_contains`, `canonical_sort`, constraint ranges | canonical order and unique tags as X.680 defines | `Asn1Tag`, `TagTree`, `FieldOrder`; constraints only where a codec uses them |
| Derive macros `src/macros/` | none at run time | generate tags, tag trees and the calls above | one call per field, in order, with the tag it is read by | `Derive`; in each codec's actions |
| Standards `src/standards/` | none | data types only | every value of every type survives encoding and decoding | `Asn1Types`, `Derive`, `Std*`, `MCStandards` |

Hard behaviours: recursion with early returns; errors swallowed inside loops;
state saved before a nested call and used after it; buffers swapped between two
encoders; presence bits consumed in one order and produced in another; sizes at
the limits of a length form. `PROJECT.json` lists them as hazards, each at its
line and with the properties that would catch it going wrong.

Interaction: a value's generated `encode` calls the codec, which calls back into
the generated code of the components (closures of `encode_sequence`,
`encode_choice`, and so on). The models turn that recursion into an explicit
stack: `cur` or `goal` is the value or type whose generated code runs next,
`frames`, `calls` or `stack` are the calls of the codec that wait for it. One
action is what the code does between two such calls.

## How the modules fit together

```
PerFragment <- PerFragment_proofs
CallStack   <- PerDecoder <- PerCodec <- MCPerCodec    PerBits <- PerEncoder, PerDecoder
                                                       PerCodec:  Enc == INSTANCE PerEncoder
CallStack   <- OerDecoder <- OerCodec <- MCOerCodec    OerCodec:  Enc == INSTANCE OerEncoder
CallStack   <- CallStack_proofs <- PerDecoder_proofs, OerDecoder_proofs
XerEncoder  <- XerCodec <- MCXerCodec          XerCodec:  Dec == INSTANCE XerDecoder
TextEncoder <- TextCodec <- MCTextCodec        TextCodec: Dec == INSTANCE TextDecoder,
                                                          Avn == INSTANCE AvnText
TextEncoder <- TextEncoder_proofs
AvnText     <- MCAvnText
BerDecoder  <- BerGrammar <- MCBerDecoder      BerDecoder: Reader == INSTANCE BoundedReader
BerDecoder  <- BerDecoder_proofs
BerEncoder  <- BerEncoder_proofs
Asn1Tag     <- BerEncoder <- BerCodec <- MCBerCodec
                                               BerCodec:  D == INSTANCE BerDecoder
Asn1Types   <- StdTraffic, StdPki, StdNet <- MCStandards
BerCodec    <- MCStandards                     MCStandards: S == INSTANCE Derive
FieldOrder, TagTree <- MCFieldTags             FieldOrder <- FieldOrder_proofs
```

`CallStack` is what the decoders of PER and OER have in common: the calls under
way, each with its slice of the input, and the order in which the fields of a
type are asked for. The specifications of `PerDecoder` and `OerDecoder` run the
decoder alone, on inputs that no encoder need have written.

A component module has the state and one action per operation. A `...Codec`
module runs the encoder and then the decoder on what it made (in PER and OER also
the decoder alone), and holds the
reference the two are compared with: the octets, bits or value that the rules
prescribe, by recursion over the value alone. The `MC...` modules give the types
and values. Recursive operators occur only in modules no proof uses.

Operators named after another one (`EncodeFnInclusive`, `HeaderCountUnshifted`)
with a comment "Mutant of" are not part of the model: each is a plausible
mistake in the operator after it, and `PROJECT.json` names the property that
notices when it takes the operator's place.

### PER length framing (`PerFragment`)

`encode_unconstrained_length` and `decode_unknown_length`. A value is `total`
items; a cell of the wire is a length determinant or an item, so the two-octet
form is one cell; bit padding does not occur inside the framing, every fragment
being a multiple of eight items, and is left out. `EncodeFragment` is one turn
of the encoder's loop, `EncodeShort` the arms for less than 16K,
`DecodeDeterminant` and `DecodeLoop` the decoder, with its recursion as an
explicit stack. `trailing` cells stand for whatever is encoded after the value:
a decoder that reads a determinant at the wrong place finds one of them, and
`Reads` gives every determinant that could be there.

### PER codec (`PerBits`, `PerEncoder`, `PerDecoder`, `PerCodec`)

Bits are modelled one by one, in the aligned and the unaligned variant
(`aligned`). A primitive value is INTEGER (0..2^w-1), or BOOLEAN for w = 1; only
w = 8 is aligned. Lengths are below 16K. `encoders` is the stack of `Encoder`
objects: each SEQUENCE, SET, list item, alternative and addition has its own,
with `parent` and `preamble` for what it knows of its position.
`encode_constructed` is `CloseConstructed`: preamble, root, bitmap and additions,
put together after the components were encoded. In the decoder a call holds its
slice (`pos`, `end`); `own` marks a slice that was cut out by its length.

`Bits(n, at)` is the reference, a function of a value and its position. Where
the code does not follow it, `Supported` excludes the value from
`PacksCanonically` and `ReadersAgree`, and only from the properties: the values
are encoded and decoded by the runs all the same. See "Disagreements" below.
SETs have no extension additions.

### OER codec (`OerEncoder`, `OerDecoder`, `OerCodec`)

`buf` holds the two shared buffers and an encoder says which of them is its
output. Preamble and bitmap are reserved in place and filled in afterwards, an
addition is written with the two exchanged. A primitive value is one octet.
Inputs are shorter than 128 octets, so a long-form length is always an error of
the input. The release build is modelled (`debug_assert!` does nothing), and a
slice index out of range is the result "panic". The decoder is the canonical
one (`coer::decode`). `Octets(n)` is the reference.

### BER decoder (`BerDecoder`, `BerGrammar`)

The input is a sequence of tokens: the identifier and length of a TLV, or end of
contents. `stack` has a frame per nested `Decoder`: its slice, its
`remaining_depth`, and the local state of the handler. `ReturnErr` is where an
error meets the frame below: returned, or swallowed by a collection
(`EndsCollection`), a SET, or an optional explicit component (`SwallowsError`).
`BerGrammar` is the abstract specification: which token sequences encode a type,
without decoders, by recursion over the type. `AcceptsEveryEncoding` leaves one
level of depth to spare, because `decode_sequence_of` finds the end of a list by
trying one more element, which at exactly the limit is an
`ExceedsMaxParseDepth`.

`BoundedReader` is a second abstract specification, of what the caller of a
decoder may rely on: an input is consumed forwards and never past its end, values
are entered and left one at a time within the limit, and there is one outcome.
`BerDecoder` implements it with `consumed` = the position of the outermost
decoder, `level` = the decoders above it, and the outcome visible when `pc` is
"done". It is not evident from the code: handlers go on after an error, with
an input they moved before it (`SwallowsError`), and look ahead.

### BER encoder (`BerEncoder`, `BerCodec`)

`encoders` has a frame per nested `Encoder`, with its output and its
`set_buffer`; what goes out are the tokens that `BerDecoder` reads, each with a
label: the type and the place it was written for. The value is made up while it
is written. It is the plain one of its type (no OPTIONAL component, an empty
list, the alternative `Plain`, a short string) except for at most `MaxChoices`
departures. `BerCodec` then runs the decoder of the same rules, so a run of it is
a decode of every encoding. `ReadsAsWritten` compares the labels with what the
decoder is about to read for, at every step: a component that is skipped, taken
for its neighbour or read at the wrong level is noticed even if a value is
returned. `EncoderOK` is about the encoders while they work. `FramesOK`: each is at
a component of its type, and what a value has written is taken over at once, in a
SET into the buffer, in a SET OF into the elements. `ValuesHeld`: what is held are
whole values, one behind the other and one in the other (`Whole`, from the lengths and
ends of contents alone), an entry of a buffer is one value under its own tag, and an
element is one value. `CanonicalOrder` is X.690's order in the finished
encoding: of two values one right behind the other in the same value (`Follows`, again
from the lengths alone), components of a SET are in the order of their tags, and elements of
a SET OF in that of their first octets (the model has no others), however deep they are
nested and whatever is framed around them.

### Standards (`Asn1Types`, `Derive`, `Std*`, `MCStandards`)

The declarations of the types in `src/standards` are data of the model, in a
notation (`Asn1Types`) that keeps what decides the encoding: kind, `#[rasn]`
tags, OPTIONAL and DEFAULT, element types. `Derive` is what
`#[derive(AsnType, Encode, Decode)]` makes of one: the calls with their tags, the
tag trees, automatic tags, explicit tags as `Explicit` newtypes. `MCStandards`
puts every type through `BerCodec` in the three rules. A definition of a
`Std*` module stands for one page of declarations; nothing in it is computed.

### Tag trees and the order of fields (`FieldOrder`, `TagTree`)

`FieldOrder` is `Fields::canonical_sort` as a state machine over its two indices.
`TagTree` has `smallest_tag`, `is_unique`, `tag_contains` and the checks that
derive makes at compile time (`Accepted`), with a reference reader that takes an
element for the first field it may belong to (`ReadFields`). `ReadsOwn`: what derive accepts is
read field by field from its own elements, except where the mandatory field behind
an OPTIONAL run shares a tag with it, or an untagged CHOICE is absent.

### XER codec (`XerEncoder`, `XerDecoder`, `XerCodec`)

What is written is a sequence of start tags, end tags and texts; the XML writer
and parser (xml_no_std) are external. The encoder is a stack of names that wait
for the next element, and a flag for list items; a CHOICE is written by an
encoder of its own whose outer tags are dropped when the name is not its own. The
decoder splits an element into one queue of events for each field. `Element` is
the reference: the elements X.693 asks for, by recursion over the value. The
document is decoded as written, with spaces between the tags, and with its fields
in another order.

### Text codecs (`TextEncoder`, `TextDecoder`, `AvnText`, `TextCodec`)

JER and AVN have the same structure and one model, with `codec` for where they
differ. The encoder is a stack of names and a stack of objects; `doc` holds the
value made for a node. The decoder is one stack of optional values. `AvnText` is
the display and the parser of the value notation, on tokens, as pure recursive
operators; JSON text is serde_json's and taken to be read as written (external).

## Runs

| Run | Shows |
| --- | --- |
| `per_fragment` | fragments of every length up to nine units hold the value in order; the decoder never fails on a value that is unfragmented, or one fragment with nothing behind it (`Readable`); what it returns for a value that is whole fragments with nothing behind it, or unfragmented, is the value; unfragmented values leave the input at the next field; both end |
| `per_fragment_tail` (violation) | a short fragment after full ones repeats the first items: the finding at enc.rs:519 |
| `per_codec` | canonical bits and agreement of all versions of a type, for both variants |
| `oer_codec` | canonical octets and agreement of all versions of a type |
| both | whatever the input, each call of the decoder stays in the slice it was given, a slice that was cut out lies before the place where the caller goes on, and the depth limit bounds the calls (`ReadsNest`, `SlicesNest`); no octet or bit is read by two calls, and a call that waits keeps its slice (`ReadsForward`) |
| `ber_decoder` | every input up to four tokens, BER and DER: accepted if the grammar derives it, rejected if not where no error can be swallowed; depth is reported and bounded; every decode ends; `BerDecoder` implements `BoundedReader` |
| `ber_codec` | values of every kind of type, written in BER, CER and DER, are read back component by component as what they were written for, except a BIT STRING that CER wrote in parts; SETs and SET OFs are in canonical order; no encoder ever holds less or more than whole values |
| `standards` | the same round trip, with the same exception, for the types of the standards |
| `standards_optional` (violation) | a `TbsCertList` without `next_update` is not read back: the finding at ber/de.rs:86 |
| `text_codec` | encoding, text, parsing and decoding give the value back, in JER and AVN; every component is under its own name, but for the identifier of a CHOICE behind an untagged CHOICE; the stacks stay in step |
| `avn_text` | displayed values are read back, accepted texts can be displayed and read again, recursion is bounded |
| `xer_codec` | names stay with their fields, the XML is the one X.693 asks for, and it is read back, respaced and reordered too |
| `field_tags` | the canonical sort sorts and keeps every field; `is_unique` is exact; what derive accepts is read field by field |

Bounds, and why they are enough. `per_fragment`: K = 3 and ShortMax = 1 keep the
order 1 < K and all comparisons of the code are with multiples of K; nine units
are two full 64K fragments and one more; `MaxTrailing` = 8 lets a misread
determinant find enough cells to succeed or to fail. `ber_decoder`: four tokens
hold a nested indefinite value with its end of contents and one token more; a
depth of 5 is passed by collections in collections. `ber_codec`: six choices make
two list elements with two components each, or a long string in a SET in a list.
`standards`: one choice, so that each OPTIONAL component, each alternative and
each element is there once with all others absent, where a wrong tag is taken for
a neighbour's; what two of them do to each other is left to `ber_codec`.
`text_codec`, `oer_codec`, `per_codec` and `xer_codec`: values are trees of up to
four or five levels in which every kind is nested in every other where the types
allow it, with each OPTIONAL present and absent; MaxDepth = 4 makes the deepest
values exceed the limit. In `per_codec` and `oer_codec` the decoder also starts
on inputs that no encoder wrote: all the short ones, longer ones put together of lengths, numbers and tags, and chains of values
in the addition of a value up to one more than the depth limit, so that every
action, every error and a stack of additions in additions occur; they are read as
the types in `ReadAs`, which are
recursive through an addition, an alternative and a list. In OER the type `Many` has a preamble of two octets and
`Wide` a bitmap of two. `avn_text`: MaxDepth 2 stands for 64, texts have up to
five tokens. `field_tags`: three fields, with CHOICEs, are an OPTIONAL run and
its neighbours; four fields with one tag each make every kind of exchange happen
in the sort; `MaxValue` = 9 stands for u32::MAX.

Fairness: `per_fragment` and `ber_decoder` state liveness under `WF_vars(Next)`.
Encoder and decoder are ordinary function calls in one thread; nothing can stop
them between two steps. The other runs state no liveness; they check deadlock,
with a `Stop` step that is possible only after the result is there, so that a
state from which the code could not go on is reported. `avn_text` has no steps
after its initial states, and does not check deadlock.

## Proofs

`PerFragment_proofs`, from `K > 1`, `ShortMax < K`, `Totals \subseteq Nat` and
`MaxTrailing \in Nat`: `TypeCorrect`, `LoopCorrect`, `PayloadCorrect`
and `DecodesCorrect`: the decoder does not fail on a value that it can read
(`Readable`: unfragmented, whatever follows, or one fragment with nothing behind it),
what it returns is the value, if that has no short last fragment and nothing follows it
or it is unfragmented, and an unfragmented value leaves the input at the next field. Of
several fragments no success is claimed: no such value is read back. For the encoder the inductive invariant
is `TypeOK /\ LoopAccounts /\ PayloadExact`: that a finished encoding is exact
follows only from what the loop has kept (`min` items in the buffer in order,
`length` more to come), and that in turn from the lemmas on appending a header
and a range of items to a buffer that holds the first `min`. For the decoder
`WalkInv` adds the shape of the wire at every cell (`PlainShape`,
`FragmentShape`: where a determinant is and what it says) and how far the decoder
has come in it (`PlainWalk`, `FragmentWalk`): the items read so far are the items
written up to `pos`, and `pos` is at a determinant when one is read. A decoder
that is known only to have the right items so far could be at the wrong place.

`BerDecoder_proofs`, from the assumptions on schemas and inputs in `BerDecoder`:
`TypeCorrect`, `SlicesCorrect` and `NestingCorrect`, for every schema (recursive
ones included), every input and every depth limit. The invariant `DecoderInv`
adds to `TypeOK` the predicate `FramesOK` on the whole stack: slices nest, and
the k-th decoder from the bottom and its remaining depth never exceed the limit
together. `NestingBounded` speaks of the top frame only and is not inductive: a
return uncovers a lower frame. Three lemmas say that replacing the top by a
frame that has only advanced, popping, and pushing a frame inside it preserve
`FramesOK`; each action is one of those.

Also in `BerDecoder_proofs`: `DecoderReadsForward`, that `Spec` implies `ReadsForward`,
the specification `BoundedReader` under the mapping above. Initial states map to
initial states, and under `DecoderInv` each action is a step that consumes,
enters, leaves or reports, or a stutter. What is needed besides are the lemmas
that no handler moves the outermost decoder back (`TopForward`, `BelowForward`,
`LeaveForward`, `HandlerForward`), the ones that go on after an error included.

And what is accepted: `RecordsCorrect` is for every schema, input and limit what
`RecordsExact` says of the instance, and `AcceptsCorrect` says the same of types with
collections, SETs and components with an explicit tag. A theorem cannot use the
recursive `BerGrammar`, so the grammar is stated as rules (`ValueRules`,
`SequenceRules`, `SetRules`, `CollectionRules`, `ExplicitRules`): what must be in a
relation that has the encodings of every type in it. The value is said to be
in every relation that is closed under them, hence in the least one, which has only
what the rules form. Absence, order and completeness of
components are the rules' own, not the decoder's: no look-ahead, no `EndsCollection`,
no default initializer. From the decoder they take the header (`ParseValue`), the cost in levels
(`InnerDepth`), the loops over the parts of strings (`StringParts`, `Encoded`), and the
rule that an alternative of a CHOICE is one whose tags hold the one that comes.
`Swallows` is what the code adds: where an error
is taken for the end of a collection or a SET (de.rs:708, 737, 814), or for the
absence of a component with an explicit tag (de.rs:791), contents may go on from
wherever the failed value left the decoder (`Failed`): where it was, behind a value
of definite length, or anywhere in one of indefinite length. `AcceptsCorrect` says that this is
all that can get through; `RecordsCorrect` does without it, for types with no such
place (`Plain`). The invariant `Sound` finds for every nested decoder
the place its handler has come to, such that whatever contents can end from there, the
value its parent asked for ends with (`Hangs`); the innermost one is reading, at a step,
or has a result (`Stands`). It is stated over the whole stack because the proof of a
value is complete only when all the decoders around it have returned. That all of the
rules hold before a step that hold after it (`SameRules`) needs the loops over the parts
as functions of the input (`LoopOf`).

`FieldOrder_proofs`, from `TagOf` having tags as values and declarations without
repetition: `SortsByTag` and `KeepsFields`. `Sorted` speaks of the end only; the
invariant `SortInv` adds that all positions before `i` are final, in order among
themselves and with all that follow, and that the field at `i` is not behind any
of those it was compared with. An exchange keeps the first because what it moves
comes from positions behind `i`, of which the first part speaks.

`TextEncoder_proofs`, from what `TextEncoder` assumes of types and values:
`StacksCorrect` and `EncodesCorrect`, for every type and every value. `StacksMatch`
speaks of the result; `StackInv` says of every call under way how high the stacks
of its encoder were when it began and what it has there (`Heights`), so that a
return finds the stacks of the caller as the caller left them.
`EncodesFaithfully` is of every value: one that is not a CHOICE, and a CHOICE whose
alternative has no untagged CHOICE before it and is none (`InPosition`), is what it ought
to be (`Expected`); any other CHOICE is stored whole under one of its identifiers, not
always its own (enc.rs:493). Its proof needs `ContentInv`: for every call under way the stack of names
holds the names that are left, last name first, and the top map the components
that are finished, each under its own name (`Contents`). What `Flatten` computes is
proved by induction over the natural numbers, itself derived from the least
element of a set (`WFMin`), since the library's induction theorem cannot be
instantiated.

`CallStack_proofs` is the argument that the next two share. `Calls(s, n)` says of
every call under way, not only of the last, that it lies in the input, that its
slice lies in the caller's or before the place where the caller goes on, and that
its number in the stack is at most `Above`: twice the depth used up, and one more
for the outermost call and for an addition, which shares the depth of its
SEQUENCE and is never directly in another addition. `MovesOn`, `Begins` and `Ends`
say that it is kept when the last call moves on, begins another or returns. That
each field of a SET has a place in the order by tag, so that the type asked for
exists, is `Ranked`: distinct numbers have all ranks from 0 on.

`OerDecoder_proofs`: `SlicesCorrect` and `ForwardCorrect`; `PerDecoder_proofs`:
`ReadsCorrect` and `ForwardCorrect`. For every
type description with the tags of a SET distinct, every input (shorter than 128
octets, or 16K bits, the lengths the decoders are modelled for) and every depth
limit, `SlicesNest` and `ReadsNest` are invariants. To `Calls` they add how far
the input can lead: a length, and in PER a count, an index, the bitmap of the
additions and the padding, leave the place to read on in the slice
(`SliceFacts`, `LengthFacts`, `OctetsFacts`, `CountFacts`, `PaddedFacts`...). The
place where an addition begins must be strictly behind the caller's, or a caller
could be given its own octets again. `ReadsForward` is about steps: a call that
goes on has its slice, is not before where it was (`Continues`) and has what it decoded
(`Retains`); where the last call is never moves back, a call that begins or one that is
returned to included (`Proceeds`); and "ok" is reported with only the outermost call
left. It follows from the same invariant, action by action.

`BerEncoder_proofs`, from what `BerEncoder` assumes of types and of the contents of
Any: `FramesCorrect`, `FramesOK` for every type, value and rules;
`EncoderCorrectBerDer`, `EncoderOK` under BER and DER; and `EncoderCorrect`, the same for CER too, as
long as no step splits a string, a BIT STRING included, inside a SET (`SplitsInSet`): there the code does
lose parts (enc.rs:222), and TLC finds `ValuesHeld` violated with the root "pair".
With the same exception `CanonicalCorrect`, and without one under BER and DER
`CanonicalCorrectBerDer`: `CanonicalOrder`.
`Whole` is a statement about positions in a sequence, and what the encoder does is to put
sequences together: `JoinWhole`, `WrapDefinite`, `WrapIndefinite` and
`LabelledValue` say that values joined, or framed with a definite or indefinite length, are values
again, by counting what is open at each place. `EncoderInv(V, E)` says of every encoder, at the
place t (the type it is for, or the caller), that
its output is in V[t] and its entries and elements are in E[t], and of the one whose turn it
is what it has not yet taken over; it is kept for any families V and E that at every place
are closed under joining, reading a SET out, sorting a SET OF and framing (`Keeps`), so that
one proof, action by action, serves all theorems: with all
sequences of tokens for `FramesCorrect`, with whole and single values for
`EncoderCorrect`, and for `CanonicalCorrect` with values that are canonical within and
at the top were written for t (`Ordered`). `CanonicalOrder` alone is not inductive: what
an encoder holds is not in order yet, and would not be by being joined, and order within
a value is only kept because framing hides what is at the top from what comes next.
So the argument is about `Follows`: what follows in the whole followed in a part
(`FollowsInside`), or is the last at the top of one part and the first of the next
(`FollowsAcross`), and then the buffer, read out by tags (`InOrderAscends`), or the sorted
elements (`SortedAscends`) put them in order. That the buffer of a SET is read out in full, and that sorting a SET OF loses
no element, follows from each rank being taken by exactly one (`PlaceTaken`).

Only model-checked: liveness; that the BER decoder accepts every encoding; everything about
the recursive references (`BerGrammar`, `Bits`, `Octets`, `Element`, the AVN parser), `TagTree` and
`Derive`; the OER, PER and XER encoders and the round trips. The references
are recursive over values, and what a recursive operator gives for every value
cannot be proved with the provers at hand.

## Disagreements

The two with a run of their own are findings in `PROJECT.json`. The models
reproduce more. Properties exclude them by name, and types for trying them are
in the MC modules; where a property without the exclusion exists it is named.

- PER framing: `decode_unknown_length` goes on from the older of two positions
  (de.rs:260): it rejects or misreads values of more than one fragment, and those of one
  fragment when something follows. `DecodesExact` claims success for the others only
  (`Readable`).
- PER: APER pads inside an extended alternative as if it followed the extension
  bit (enc.rs:1275; `ReadersAlwaysAgree` in place of `ReadersAgree`); the presence
  bits of a SET are read in the order of declaration, but
  written by tag (type `Mixed`); a CHOICE in a SET is stored under the tag of the
  alternative; a size beyond an extensible constraint is written as if within
  (`More`); an addition without bits gets no octet. APER only: a list
  item after one that is not whole octets is aligned as if it began an octet;
  CHOICE in a SEQUENCE (`Holder`), groups (`V2`), lists with a
  constrained size, which the decoder pads and the encoder does not (`Few`,
  `Row`), SETs out of tag order (`Bag`).
- OER: an extended value inside an extension addition is encoded with the two
  buffers exchanged twice (enc.rs:1131; `AlwaysCanonical` in place of
  `EncodesCanonically`); a SET after other content takes the outer octets with it
  (enc.rs:232); a SET with lists, additions or a CHOICE loses data (`Sack`); an
  extensible SEQUENCE without root fields gets an octet too many (enc.rs:566,
  `Bare`); unknown additions are not skipped.
- BER decoder: a malformed last element of a list ends the list without an error
  (de.rs:712; `AcceptsOnlyEncodings` with the root "list", three tokens);
  `decode_optional_with_explicit_prefix` turns every error into absence
  (de.rs:793); a DEFAULT component of a SET must be present (derive,
  decode.rs:85, type `defaulted`); an OPTIONAL CHOICE is not looked ahead for
  (de.rs:86), so that one that is absent with another component after it is an
  error (`picky`, and the run `standards_optional`); a constructed BIT STRING of
  definite length goes on into what follows it; strings in parts nest without
  a check of the depth.
- BER encoder: CER's parts of a long string, a BIT STRING too, in a SET replace each
  other in the buffer (enc.rs:222; `SplitsInSet`, root "pair"). CER writes a BIT
  STRING of more than 1000 octets in parts of which only the first begins with the
  number of unused bits (`encode_bit_string` adds it before `encode_string` cuts,
  enc.rs:358-379 and 216-227; X.690 8.6.4 has it in every part), and `decode_bit_string`
  takes an octet off each (de.rs:519-550, parser.rs:49-66): the value is not read back.
  In the model a part behind the first may or may not be valid to the decoder (`Hand`).
  `RoundTrip` leaves out encodings with such parts (`BitsInParts`), and `ReadsAsWritten`
  those with a part that is rejected (`PartRejected`), where the decoder of an optional
  explicit tag may go on in the middle of the value; without these exclusions TLC finds
  both violated. A tagged `Any` with constructed contents is
  flattened in CER, an empty `Any` writes nothing, and one in a SET is refused
  (`AnyInSet`).
- Standards: besides `TbsCertList`, the types of `MCStandards.cfg`'s `Excluded`
  hold an absent untagged CHOICE; `EssSecurityLabel` is a SET with one. `Only`
  selects a type.
- JER and AVN: a SET with an absent OPTIONAL field does not decode (jer/de.rs:410);
  the index of an identifier is that of a tag in the flattened tree
  (enc.rs:493), so that an alternative behind an untagged CHOICE is stored under
  another one's identifier or refused (`InPosition` in `EncodesFaithfully`, `Plain` in
  `RoundTrip`; type `Union`); both decoders ignore case in the identifier of an alternative
  (de.rs:675), and take the first of two that differ in case only. AVN: lists of
  BOOLEAN or NULL are not read back (avn/de.rs:191).
- XER (the values `Lost` of `MCXerCodec`): a CHOICE encoded while names wait takes
  the name of the next field; a list of explicitly tagged CHOICEs leaves
  the flag for items set; an empty OCTET STRING or BIT STRING leaves its end tag
  behind; an absent OPTIONAL field of a SET is refused, and a SET with
  extension additions never decodes; ANY without a name is a `MissingIdentifier`;
  empty character strings do not come back. `encode_none_with_tag` would write an
  empty element while the flag of an alternative is set (xer/enc.rs:652); `NamesMatch`
  has that it never is when a field is absent, and the model has no such branch.
- Derive: an alternative without a tag whose type is an explicitly tagged CHOICE is
  encoded without that tag (`encode_with_identifier`, enum.rs:455 and 616-621).
  `Description` does not have this; that no type of the standards is one is an
  assumption TLC evaluates (`NoExplicitAlternative` in `MCStandards`).
- Tags: `smallest_tag` promises "the tag with the smallest possible value from the
  tree" (tag.rs:235), and compares class and value at once (tag.rs:204): for
  [Context 0, INTEGER] it is Context 0, for private tags only it is
  Private(u32::MAX). `SetOrderCanonical` is therefore of trees in ascending order
  (`Ascending`). derive compares the tags of an OPTIONAL run with each other and
  not with the field behind it, as X.680 25.6 asks.

## Not modelled

Contents of primitive values (integers of other widths, strings and their
alphabets, REAL, times, object identifiers): each is a function of its octets,
without state across calls. Memory reserved for a list before its items are read
(`Vec::with_capacity` of the count). Constraint arithmetic beyond the ranges that PER and
OER use. Extension additions in BER. In XER, tuple fields without names, lists of
texts separated by spaces, and the prolog. Backtraces and error messages, the
macros' parsing of attributes. Of the standards, the constants of the MIB, the
macros of SMI, whose hand-written codecs call each other, and generic types without an
instance. Fuzzing and benches, which only drive the library. Threads, crashes and
lost messages do not occur in a library of pure functions.

## Plan

1. Nested version exchange in `PerCodec` and `OerCodec` (unknown additions
   inside a list), SETs with additions; extension additions in BER.
2. The standards through `PerCodec` and `OerCodec`: their constraints would have to be
   data of the `Std*` modules.
3. Theorems: `NamesMatch` of `XerEncoder`, by the argument of
   `TextEncoder_proofs` (each frame knows how many names it left on the stack);
   the refinement of `BoundedReader` by the PER and OER decoders, which
   `CallStack_proofs` prepares.
