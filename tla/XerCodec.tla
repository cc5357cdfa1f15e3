------------------------------ MODULE XerCodec -------------------------------
(***************************************************************************)
(* XER from end to end: a value is encoded (XerEncoder), the XML is        *)
(* written and parsed again, and decoded (XerDecoder).  What is decoded is *)
(* the document as it was written, or with spaces between the tags, or     *)
(* with the elements of the outermost SEQUENCE or SET in another order.    *)
(***************************************************************************)
EXTENDS XerEncoder, TLC

CONSTANTS Parts, SetOrder, SameName(_, _)               \* XerDecoder

VARIABLES decoders, calls, goal, value, status          \* XerDecoder

\* Primitive values are numbers; their text is read back as the number
ShownAs(k) == ToString(k)
Parsed(s) == CHOOSE k \in 0..9 : ShownAs(k) = s

Dec == INSTANCE XerDecoder

decoder == <<decoders, calls, goal, value, status>>
everything == <<vars, decoder>>

CodecInit == /\ Init
             /\ decoders = << >> /\ calls = << >> /\ goal = Absent
             /\ value = Absent /\ status = "idle"

Encode == Step /\ UNCHANGED decoder

Space == [k |-> "space", s |-> ""]
Spaced(events) ==
    FlattenSeq([i \in 1..Len(events) |->
        IF i = Len(events) \/ events[i].k = "text" \/ events[i + 1].k = "text" THEN <<events[i]>>
        ELSE <<events[i], Space>>])
Reordered(events) ==
    <<events[1]>> \o FlattenSeq(Reverse(Dec!Split(Tail(events)))) \o <<Last(events)>>
Documents(events) == {events, Spaced(events)}
                        \cup (IF KindOf(root) \in Constructed THEN {Reordered(events)} ELSE {})

\* encode() returned; decode() of a document, as the same type
Begin == /\ res = "ok" /\ status = "idle"
         /\ \E d \in Documents(E.out) : decoders' = <<[stack |-> Dec!Split(d), in_list |-> FALSE]>>
         /\ goal' = root.type
         /\ status' = "run"
         /\ UNCHANGED <<vars, calls, value>>

Decode == Dec!Step /\ UNCHANGED vars

Ended == IF status = "idle" THEN res = "missing" ELSE status # "run"
CodecStop == Ended /\ UNCHANGED everything

CodecNext == Encode \/ Begin \/ Decode \/ CodecStop
CodecSpec == CodecInit /\ [][CodecNext]_everything

-----------------------------------------------------------------------------

\* What was encoded is decoded as the same value, spaces and another order of
\* the fields notwithstanding: no field takes the element or the absence of
\* another, no item is lost, and no event is left in the decoder.
RoundTrip ==
    /\ status \in {"idle", "run", "ok"}
    /\ status = "ok" => value = root /\ decoders = <<[stack |-> << >>, in_list |-> FALSE]>>
=============================================================================
