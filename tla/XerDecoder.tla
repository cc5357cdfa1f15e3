----------------------------- MODULE XerDecoder ------------------------------
(***************************************************************************)
(* The XER decoder (src/src/xer/de.rs), driven by the calls that           *)
(* #[derive(Decode)] makes for a type, from the events of the XML parser   *)
(* (xml_no_std, external) on.                                              *)
(*                                                                         *)
(* A decoder holds a stack of elements, each of them a queue of events.    *)
(* A SEQUENCE, a SET, a CHOICE and a list take a whole element out of      *)
(* their decoder and split it into the stack of a new one: the fields in   *)
(* the order of the declaration, whatever their order in the text; the     *)
(* items of a list, which are therefore read from the last to the first.   *)
(* An absent field is an element with a marker for its only event.         *)
(***************************************************************************)
EXTENDS Integers, Sequences, SequencesExt

CONSTANTS
    Kind,           \* Kind[t], as in XerEncoder
    Names,          \* Names[t]: fields of a SEQUENCE or SET, IDENTIFIERS of a CHOICE
    Parts,          \* Parts[t]: types of the fields, alternatives, items, content
    Optional,       \* Optional[t]: fields that are OPTIONAL, DEFAULT or additions
    SetOrder,       \* SetOrder[t]: the fields of a SET by their smallest tag
    SameName(_, _), \* eq_ignore_ascii_case
    Parsed(_),      \* the primitive value a text stands for
    Absent

VARIABLES
    decoders,       \* the decoders, the last one runs
    calls,          \* the calls under way, the outermost first
    goal,           \* the type whose `decode` is called next, or Absent
    value,          \* the value decoded last
    status          \* "idle", "run", "ok" or the error

vars == <<decoders, calls, goal, value, status>>

Nothing == [k |-> "none", s |-> ""]
NotPresent == [k |-> "text", s |-> "_NOT_PRESENT_"]
Is(event, kind) == event.k = kind

Decoded(t, i, c) == [type |-> t, alt |-> i, child |-> c]

(***************************************************************************)
(* The stack of elements.                                                  *)
(***************************************************************************)
\* The state of the loop of try_from
Splitter == [elems |-> << >>, events |-> << >>, tag |-> Nothing, level |-> 0]

\* Mutant of SplitStep: an element that holds one of its own name ends with it.
SplitStepFlat(acc, ev) ==
    LET more == [acc EXCEPT !.events = Append(@, ev)]
    IN  CASE Is(ev, "space") -> acc
          [] acc.tag = Nothing -> IF Is(ev, "start") THEN [more EXCEPT !.tag = ev] ELSE acc
          [] Is(ev, "end") /\ ev.s = acc.tag.s ->
                [Splitter EXCEPT !.elems = Append(acc.elems, more.events)]
          [] OTHER -> more

\* TryFrom<VecDeque<XmlEvent>>: the elements one behind the other.  Spaces are
\* dropped at every level, other events outside of any element too; `level`
\* counts elements inside that have the name of the one that is open.
SplitStep(acc, ev) ==
    LET named == ev.s = acc.tag.s
        more == [acc EXCEPT !.events = Append(@, ev)]
    IN  CASE Is(ev, "space") -> acc
          [] acc.tag = Nothing -> IF Is(ev, "start") THEN [more EXCEPT !.tag = ev] ELSE acc
          [] Is(ev, "start") /\ named -> [more EXCEPT !.level = @ + 1]
          [] Is(ev, "end") /\ named /\ acc.level # 0 -> [more EXCEPT !.level = @ - 1]
          [] Is(ev, "end") /\ named -> [Splitter EXCEPT !.elems = Append(acc.elems, more.events)]
          [] OTHER -> more

Split(events) == FoldLeft(SplitStep, Splitter, events).elems

\* peek and next_element
Peek(d) == IF d.stack = << >> THEN Nothing ELSE Head(Last(d.stack))
Take(d) == IF d.stack = << >> THEN d
           ELSE [d EXCEPT !.stack = IF Len(Last(@)) = 1 THEN Front(@)
                                    ELSE Append(Front(@), Tail(Last(@)))]

\* self.stack.pop()
Element(d) == Last(d.stack)
Without(d) == [d EXCEPT !.stack = Front(@)]

\* sort_by_field_name_order: the last of several elements of one name counts
Known(names, elems) == \A i \in 1..Len(elems) : \E j \in 1..Len(names) : elems[i][1].s = names[j]
Named(nm, elems) ==
    LET at == {i \in 1..Len(elems) : elems[i][1].s = nm}
    IN  IF at = {} THEN <<NotPresent>> ELSE elems[CHOOSE i \in at : \A j \in at : j <= i]

Sorted(names, elems) == [i \in 1..Len(names) |-> Named(names[Len(names) + 1 - i], elems)]

-----------------------------------------------------------------------------

D == Last(decoders)
C == Last(calls)
SetD(d) == decoders' = [decoders EXCEPT ![Len(decoders)] = d]

\* A call: what it decodes, the alternative of a CHOICE, what it decoded so far,
\* and for a list the name of its element and level_of_nesting
CallOf(t, i, nm) == [type |-> t, alt |-> i, got |-> << >>, name |-> nm, level |-> 0]

Fail(e) == status' = e /\ UNCHANGED <<decoders, calls, goal, value>>

Decoding(kinds) == status = "run" /\ goal # Absent /\ Kind[goal] \in kinds
Resuming(kinds) == status = "run" /\ goal = Absent /\ calls # << >> /\ Kind[C.type] \in kinds

\* A call returns v: its caller takes it as its next component
Returns(v, cs) ==
    /\ goal' = Absent
    /\ value' = v
    /\ IF cs = << >>
       THEN calls' = cs /\ status' = "ok"
       ELSE calls' = [cs EXCEPT ![Len(cs)].got = Append(@, v)] /\ UNCHANGED status

\* The events between the tags of a primitive value, read one by one: an empty
\* element, a text, or none.  They may run out of the element.
Inside(d) == LET a == Take(d)
             IN  CASE Is(Peek(d), "start") -> <<Peek(d), Peek(a)>>
                   [] Is(Peek(d), "text") -> <<Peek(d)>>
                   [] OTHER -> << >>
Behind(d, n) == LET at[i \in 0..n] == IF i = 0 THEN d ELSE Take(at[i - 1]) IN at[n]

\* The match expressions of the primitive types: whether the events are of the
\* form that type t reads, and the value
Empty(events, nm) == events = <<[k |-> "start", s |-> nm], [k |-> "end", s |-> nm]>>
IsText(events) == Len(events) = 1
IsValue(t, events) ==
    CASE Kind[t] = "null" -> events = << >>
      [] Kind[t] = "octets" -> events = << >> \/ IsText(events)
      [] Kind[t] = "real" -> IsText(events) \/ Empty(events, "PLUS-INFINITY")
      [] Kind[t] = "enum" -> \/ Empty(events, "true") \/ Empty(events, "false")
                             \/ IsText(events) /\ events[1].s \in {"true", "false"}
      [] OTHER -> IsText(events)
ValueOf(t, events) ==
    CASE Kind[t] = "enum" -> IF events[1].s = "true" THEN 1 ELSE 0
      [] Kind[t] = "any" -> Parsed(events[2].s)
      [] IsText(events) -> Parsed(events[1].s)
      [] OTHER -> 0

\* decode_integer, decode_null, decode_real, decode_bit_string,
\* decode_octet_string, the strings and the times: a start tag, the contents, an
\* end tag.  The names of the tags are not looked at.  An empty string of
\* octets or bits returns at once and leaves the end tag where it is.
\* decode_bool and decode_enumerated read no tags around an item.
DecodePrimitive ==
    /\ Decoding({"text", "octets", "real", "enum", "null"})
    /\ LET bare == Kind[goal] = "enum" /\ D.in_list
           opened == IF bare THEN D ELSE Take(D)
           events == Inside(opened)
           read == Behind(opened, Len(events))
       IN  IF ~bare /\ ~Is(Peek(D), "start") THEN Fail("mismatch")
           ELSE IF ~IsValue(goal, events) THEN Fail("mismatch")
           ELSE IF Kind[goal] = "octets" /\ events = << >> /\ Is(Peek(opened), "end")
           THEN SetD(opened) /\ Returns(Decoded(goal, ValueOf(goal, events), << >>), calls)
           ELSE IF ~bare /\ ~Is(Peek(read), "end") THEN Fail("mismatch")
           ELSE /\ SetD(IF bare THEN read ELSE Take(read))
                /\ Returns(Decoded(goal, ValueOf(goal, events), << >>), calls)

\* decode_any takes the rest of the element and drops its last event.
DecodeAny ==
    /\ Decoding({"any"})
    /\ LET opened == Take(D)
       IN  IF ~Is(Peek(D), "start") THEN Fail("mismatch")
           ELSE IF opened.stack = << >> THEN Fail("eoi")
           ELSE /\ SetD(Without(opened))
                /\ Returns(Decoded(goal, ValueOf(goal, Front(Element(opened))), << >>), calls)

\* The generated code of a newtype, decode_explicit_prefix: tags play no role
DecodeNewtype ==
    /\ Decoding({"delegate", "explicit"})
    /\ calls' = Append(calls, CallOf(goal, 0, ""))
    /\ goal' = Parts[goal][1]
    /\ UNCHANGED <<decoders, value, status>>

\* decode_sequence and decode_set, up to the call of the closure
FieldNames(t) == IF Kind[t] = "set" THEN [i \in 1..Len(Names[t]) |-> Names[t][SetOrder[t][i]]]
                 ELSE Names[t]

DecodeSequence ==
    /\ Decoding({"sequence", "set"})
    /\ LET opened == Take(D)
           elems == Split(Element(opened))
       IN  IF ~Is(Peek(D), "start") THEN Fail("mismatch")
           ELSE IF opened.stack = << >> THEN Fail("eoi")
           ELSE IF ~Known(Names[goal], elems) THEN Fail("field")
           ELSE /\ decoders' = Append([decoders EXCEPT ![Len(decoders)] = Without(opened)],
                                      [stack |-> Sorted(FieldNames(goal), elems), in_list |-> FALSE])
                /\ calls' = Append(calls, CallOf(goal, 0, ""))
                /\ goal' = Absent
                /\ UNCHANGED <<value, status>>

\* The next field: decode_optional takes the marker of an absent one away.  A
\* SET decodes the type of the field, not an Option of it.
DecodeField ==
    /\ Resuming({"sequence", "set"}) /\ Len(C.got) < Len(Names[C.type])
    /\ LET i == Len(C.got) + 1
       IN  IF Kind[C.type] = "sequence" /\ i \in Optional[C.type] /\ Peek(D) = NotPresent
           THEN /\ SetD(Take(D))
                /\ calls' = [calls EXCEPT ![Len(calls)].got = Append(@, Absent)]
                /\ UNCHANGED <<goal, value, status>>
           ELSE /\ goal' = Parts[C.type][IF Kind[C.type] = "set" THEN SetOrder[C.type][i] ELSE i]
                /\ UNCHANGED <<decoders, calls, value, status>>

\* decode_sequence_or_set_items.  (A list of space-separated texts is not
\* modelled.)
DecodeList ==
    /\ Decoding({"list"})
    /\ LET opened == Take(D)
       IN  IF ~Is(Peek(D), "start") THEN Fail("mismatch")
           ELSE IF opened.stack = << >> THEN Fail("eoi")
           ELSE /\ decoders' = Append([decoders EXCEPT ![Len(decoders)] = Without(opened)],
                                      [stack |-> Split(Element(opened)), in_list |-> TRUE])
                /\ calls' = Append(calls, CallOf(goal, 0, Peek(D).s))
                /\ goal' = Absent
                /\ UNCHANGED <<value, status>>

\* One turn of its loop: an item, or the end tag of one that was left behind
Own(event) == event.s = C.name
ListEnded == D.stack = << >> \/ (Is(Peek(D), "end") /\ Own(Peek(D)) /\ C.level = 0)

DecodeItem ==
    /\ Resuming({"list"}) /\ ~ListEnded
    /\ LET ev == Peek(D)
       IN  IF Is(ev, "end") /\ Own(ev)
           THEN /\ calls' = [calls EXCEPT ![Len(calls)].level = @ - 1]
                /\ SetD(Take(D))
                /\ UNCHANGED goal
           ELSE /\ calls' = [calls EXCEPT ![Len(calls)].level =
                                IF Is(ev, "start") /\ Own(ev) THEN @ + 1 ELSE @]
                /\ goal' = Parts[C.type][1]
                /\ UNCHANGED decoders
    /\ UNCHANGED <<value, status>>

\* decode_choice, from_tag.  Every alternative is taken to have one tag.
Alternatives(t, nm) == {i \in 1..Len(Names[t]) : SameName(Names[t][i], nm)}

DecodeChoice ==
    /\ Decoding({"choice"})
    /\ LET opened == IF D.in_list THEN D ELSE Take(D)
           alts == Alternatives(goal, Peek(opened).s)
       IN  IF ~Is(Peek(D), "start") \/ ~Is(Peek(opened), "start") THEN Fail("mismatch")
           ELSE IF alts = {} THEN Fail("choice")
           ELSE \E i \in alts :
                   /\ \A j \in alts : i <= j
                   /\ decoders' = Append([decoders EXCEPT ![Len(decoders)] = Without(opened)],
                                         [stack |-> Split(Element(opened)), in_list |-> FALSE])
                   /\ calls' = Append(calls, CallOf(goal, i, ""))
                   /\ goal' = Parts[goal][i]
                   /\ UNCHANGED <<value, status>>

\* The components in the order of the value: items.reverse(), field_fn
InOrder(t, got) ==
    CASE Kind[t] = "set" -> [i \in 1..Len(got) |-> got[CHOOSE k \in 1..Len(got) : SetOrder[t][k] = i]]
      [] Kind[t] = "list" -> Reverse(got)
      [] OTHER -> got

Complete == CASE Kind[C.type] \in {"sequence", "set"} -> Len(C.got) = Len(Names[C.type])
              [] Kind[C.type] = "list" -> ListEnded
              [] OTHER -> Len(C.got) = 1

\* The decoder of a call goes with it, and whatever is left in it.
Close ==
    /\ Resuming({"sequence", "set", "list", "choice", "delegate", "explicit"}) /\ Complete
    /\ decoders' = IF Kind[C.type] \in {"delegate", "explicit"} THEN decoders ELSE Front(decoders)
    /\ Returns(Decoded(C.type, C.alt, InOrder(C.type, C.got)), Front(calls))

Step == \/ DecodePrimitive \/ DecodeAny \/ DecodeNewtype \/ DecodeSequence \/ DecodeField
        \/ DecodeList \/ DecodeItem \/ DecodeChoice \/ Close
=============================================================================
