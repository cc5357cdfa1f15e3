------------------------------ MODULE TextCodec ------------------------------
(***************************************************************************)
(* JER and AVN from end to end: a value is encoded (TextEncoder), written  *)
(* as text and parsed again (AvnText; JSON text is serde_json's and taken  *)
(* to be read as it was written), and decoded (TextDecoder).               *)
(***************************************************************************)
EXTENDS TextEncoder, TLC

CONSTANTS Parts, Optional, SetOrder, SameName(_, _),    \* TextDecoder
          MaxDepth                                      \* AvnText

VARIABLES stack, calls, goal, value, status             \* TextDecoder

\* Primitive values are numbers; their text is read back as the number
Shown(k) == ToString(k)
Parsed(v) == CHOOSE k \in 0..9 : Shown(k) = v

Dec == INSTANCE TextDecoder
Avn == INSTANCE AvnText

decoder == <<stack, calls, goal, value, status>>
everything == <<vars, decoder>>

\* The document of a node, with all that is below it.  serde_json keeps the
\* fields of an object by name, AVN in the order they were encoded.
RECURSIVE Document(_)
Document(n) ==
    LET d == doc[n]
        named == SelectSeq(ComponentNames(n), LAMBDA nm : d.map[nm] # Absent)
        stored == {nm \in Name : d.map[nm] # Absent}
        Entry(nm) == Avn!Field(nm, TRUE, Document(d.map[nm]))
        only == CHOOSE nm \in stored : TRUE
    IN  CASE d.kind = "primitive" -> Avn!Simple("int", Shown(Alt[n]))
          [] d.kind = "array" ->
                Avn!Val(IF codec = "jer" THEN "array" ELSE "sequenceOf", "",
                         [i \in 1..Len(d.items) |-> Avn!Item(Document(d.items[i]))])
          [] d.kind = "choice" -> Avn!Val("choice", only, <<Avn!Item(Document(d.map[only]))>>)
          [] KindOf(n) = "choice" -> Avn!Val("object", "", <<Entry(only)>>)
          [] OTHER -> Avn!Val(IF codec = "jer" THEN "object" ELSE "sequence", "",
                               [i \in 1..Len(named) |-> Entry(named[i])])

CodecInit == /\ Init
             /\ stack = << >> /\ calls = << >> /\ goal = Absent
             /\ value = Absent /\ status = "idle"

Encode == Step /\ UNCHANGED decoder

\* encode() returned; decode() of what it returned, as the same type
Hand(d) == /\ stack' = <<d>>
           /\ goal' = TypeOf[root]
           /\ status' = "run"
           /\ UNCHANGED <<calls, value>>
Begin == /\ res = "ok" /\ status = "idle"
         /\ LET parsed == Avn!Parse(Avn!Show(Document(root)))
            IN  CASE codec = "jer" -> Hand(Document(root))
                  [] codec = "avn" /\ parsed.ok -> Hand(parsed.value)
                  [] OTHER -> status' = "parse" /\ UNCHANGED <<stack, calls, goal, value>>
         /\ UNCHANGED vars

Decode == Dec!Step /\ UNCHANGED <<root, cur, frames, encoders, doc, res>>

\* encode() failed, or decode() returned
Ended == IF status = "idle" THEN res \notin {"run", "ok"} ELSE status # "run"
CodecStop == Ended /\ UNCHANGED everything

CodecNext == Encode \/ Begin \/ Decode \/ CodecStop
CodecSpec == CodecInit /\ [][CodecNext]_everything

-----------------------------------------------------------------------------

\* No alternative of a CHOICE is an untagged CHOICE: positions in the flattened
\* list of tags are positions in IDENTIFIERS
OneTagEach(t) == \A i \in 1..Len(Variants[t]) : ~Variants[t][i].choice

\* No value inside n is of a CHOICE with an untagged CHOICE as an alternative
RECURSIVE Plain(_)
Plain(n) == OneTagEach(TypeOf[n]) /\ \A i \in 1..Len(Child[n]) :
                                            Child[n][i] # Absent => Plain(Child[n][i])

\* What was encoded is decoded, and as the same value: neither side reports an
\* error, no field takes the value or the absence of another, however the value
\* nests, and nothing is left on the stack that all nested calls share.
RoundTrip ==
    Plain(root) => /\ res \in {"run", "ok"}
                   /\ status \in {"idle", "run", "ok"}
                   /\ status = "ok" => value = root /\ stack = << >> /\ calls = << >>
====
