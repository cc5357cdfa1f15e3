------------------------------ MODULE BerCodec -------------------------------
(***************************************************************************)
(* ber::encode, cer::encode or der::encode, and the decode of what was     *)
(* written, with the decoder of the same rules.                            *)
(***************************************************************************)
EXTENDS BerEncoder

CONSTANT MaxDepth

VARIABLES input, root, der, stack, pc, goal, res

decoderVars == <<input, root, der, stack, pc, goal, res>>
vars == <<rules, encoders, todo, step, left, input, root, der, stack, pc, goal, res>>

D == INSTANCE BerDecoder WITH Inputs <- {}

Init ==
    /\ EncoderInit
    /\ root = todo
    /\ der = (rules = "DER")
    /\ input = << >> /\ stack = << >> /\ pc = "idle" /\ goal = root /\ res = "ok"

Encode == EncoderNext /\ UNCHANGED decoderVars

\* A part of a BIT STRING behind the first: its first octet is data, which
\* decode_bit_string takes for a number of unused bits.
Continues(item) == Kind(item.label.type) = "bits" /\ item.label.within = NoType /\ item.label.field > 1

\* The octets written are what the decoder gets.  Whether a part of a BIT STRING
\* behind the first is valid depends on the octet that it starts with.
Hand ==
    /\ step = "done"
    /\ pc = "idle"
    /\ \E invalid \in SUBSET {i \in 1..Len(Encoding) : Continues(Encoding[i])} :
          input' = [i \in 1..Len(Encoding) |->
                       [kind |-> Encoding[i].kind, tag |-> Encoding[i].tag,
                        constructed |-> Encoding[i].constructed, len |-> Encoding[i].len,
                        ok |-> i \notin invalid]]
    /\ stack' = << [type |-> NoType, pos |-> 0, end |-> Len(input'), depth |-> MaxDepth,
                    streaming |-> FALSE, field |-> 1, seen |-> {}, twice |-> FALSE] >>
    /\ pc' = "decode"
    /\ UNCHANGED <<rules, encoders, todo, step, left, root, der, goal, res>>

DecodeStep == pc # "idle" /\ D!Next /\ UNCHANGED encoderVars

Refused == step = "failed" /\ UNCHANGED vars

Next == Refused \/ Encode \/ Hand \/ DecodeStep

Spec == Init /\ [][Next]_vars

(***************************************************************************)
(* Properties.                                                             *)
(***************************************************************************)
\* CER has written a BIT STRING in parts (enc.rs:378): decode_bit_string (de.rs:519)
\* takes an octet off every part, and what it returns, if anything, is not what was
\* written.
BitsInParts == \E i \in 1..Len(Encoding) : Continues(Encoding[i])

\* Of one of these parts the first octet is no number of unused bits.
PartRejected == \E i \in 1..Len(input) : ~input[i].ok

\* Where the decoder finds a value with the tag it looks for, that value was
\* written as the type it is read as and for the place it is read into: no
\* OPTIONAL component takes the value of a later one, no CHOICE takes another
\* alternative's, no element is read as another element or a component.  (Behind a
\* part of a BIT STRING that is rejected the decoder of an optional explicit tag goes
\* on in the middle of the value.)
ReadsAsWritten ==
    pc = "decode" /\ Schema[goal].kind # "choice" /\ D!HasIdentifier(D!top)
        /\ D!ParseValue(D!top, IF D!AnyTag(goal) THEN D!Peek(D!top).tag ELSE Schema[goal].tag)
        /\ ~PartRejected
    => Encoding[D!top.pos + 1].label
            = [type |-> goal, within |-> D!top.type, field |-> D!top.field]

\* What an encoder wrote is decoded to its end, under the same rules, unless it has a
\* BIT STRING in parts.
RoundTrip == pc = "done" /\ ~BitsInParts => res = "ok" /\ stack[1].pos = Len(input)
=============================================================================
