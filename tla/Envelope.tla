------------------------------ MODULE Envelope ------------------------------
(***************************************************************************)
(* Sentry envelopes: parse_envelope and read_line of ingest.rs.            *)
(*                                                                         *)
(* An envelope is a sequence of symbols, each standing for a byte or for a *)
(* run of bytes without a newline: a newline, the beginning of a JSON      *)
(* document, its closing brace, other text.  A slice is JSON exactly when  *)
(* it is one document from its beginning to its closing brace, perhaps     *)
(* between newlines.  Positions count from 0, as in the code.              *)
(***************************************************************************)
EXTENDS Naturals, FiniteSets, SequencesExt

CONSTANTS
  DefaultEvent, \* an Event all of whose fields are absent
  Width         \* usize has Width values; every envelope is shorter

NL == [sym |-> "newline"]
Text == [sym |-> "text"]
Close == [sym |-> "close"]
Open(doc) == [sym |-> "open", doc |-> doc]

\* JSON documents: a header, of an item or of the envelope; an event; one
\* that does not deserialize as an Event.
\* A length is <<n>> when declared.
NoLength == <<>>
Header(type, length) == [doc |-> "header", type |-> type, length |-> length]
EventDoc(event) == [doc |-> "event", event |-> event]
Misfit == [doc |-> "misfit"]

\* The symbols of a document, with inner between its braces.
Json(doc, inner) == <<Open(doc)>> \o inner \o <<Close>>

Slice(raw, from, to) == SubSeq(raw, from + 1, to)

\* The slice without the newlines around it, which serde_json skips.
Trimmed(s) ==
  LET inner == {i \in DOMAIN s : s[i] # NL}
  IN  IF inner = {} THEN <<>> ELSE SubSeq(s, Min(inner), Max(inner))

\* serde_json::from_slice::<Value> succeeds.
IsJson(s) ==
  LET t == Trimmed(s)
  IN  /\ Len(t) >= 2
      /\ t[1].sym = "open"
      /\ t[Len(t)] = Close
      /\ \A i \in 2 .. Len(t) - 1 : t[i] \in {NL, Text}

DocOf(s) == Trimmed(s)[1].doc

\* header.get("type"), header.get("length").
TypeIn(doc) == IF doc.doc = "header" THEN doc.type ELSE ""
LengthIn(doc) == IF doc.doc = "header" THEN doc.length ELSE NoLength

\* from_slice::<Event>: every field has a default and others are ignored.
IsEvent(s) == IsJson(s) /\ DocOf(s) # Misfit
EventOf(s) == IF DocOf(s).doc = "event" THEN DocOf(s).event ELSE DefaultEvent

----------------------------------------------------------------------------

Parsed(events) == [result |-> "events", events |-> events]
Malformed == [result |-> "malformed"]
Panic == [result |-> "panic"]

\* Positions of newlines from position c on.
NewlinesFrom(raw, c) == {i \in c .. Len(raw) - 1 : raw[i + 1] = NL}

\* read_line: the position after the line that starts at c.
LineEnd(raw, c) ==
  IF NewlinesFrom(raw, c) = {} THEN Len(raw) ELSE Min(NewlinesFrom(raw, c)) + 1

\* A line without its last byte, which is a newline unless the envelope ends
\* without one.
LineAt(raw, c) == Slice(raw, c, LineEnd(raw, c) - 1)

\* Where the payload that starts at c ends, by its header.
PayloadEndToNewline(raw, c, header) ==
  IF NewlinesFrom(raw, c) = {} THEN Len(raw) ELSE Min(NewlinesFrom(raw, c))

\* The addition of a declared length wraps in a release build.
PayloadEnd(raw, c, header) ==
  IF LengthIn(header) # NoLength THEN (c + LengthIn(header)[1]) % Width
  ELSE IF NewlinesFrom(raw, c) = {} THEN Len(raw) ELSE Min(NewlinesFrom(raw, c))

\* Past the payload that ends at e and its newline, if it has one.
After(raw, e) == IF e < Len(raw) /\ raw[e + 1] = NL THEN e + 1 ELSE e

Prepend(event, rest) ==
  IF rest.result = "events" THEN Parsed(<<event>> \o rest.events) ELSE rest

\* The item whose header line starts at c, the rest of the envelope parsed by
\* rest.
ItemAt(raw, c, rest) ==
  LET header == DocOf(LineAt(raw, c))
      start == LineEnd(raw, c)
      end == PayloadEnd(raw, start, header)
      payload == Slice(raw, start, end)
  IN  IF ~IsJson(LineAt(raw, c)) \/ end > Len(raw) THEN Malformed
      ELSE IF end < start THEN Panic
      ELSE IF TypeIn(header) # "event" THEN rest[After(raw, end)]
      ELSE IF ~IsEvent(payload) THEN Malformed
      ELSE Prepend(EventOf(payload), rest[After(raw, end)])

\* The loop of parse_envelope, by the position of the cursor.
ItemsFrom(raw) ==
  LET items[c \in Nat] ==
        IF c >= Len(raw) THEN Parsed(<<>>)
        ELSE IF LineAt(raw, c) = <<>> THEN items[LineEnd(raw, c)]
        ELSE ItemAt(raw, c, items)
  IN  items

ParseEnvelope(raw) ==
  IF raw = <<>> \/ ~IsJson(LineAt(raw, 0)) THEN Malformed
  ELSE ItemsFrom(raw)[LineEnd(raw, 0)]

----------------------------------------------------------------------------
\* A header declares its length, if it does, as a number (as_u64).
Declares(symbol) ==
  LET declared == LengthIn(symbol.doc)
  IN  symbol.sym = "open" =>
        \/ declared = NoLength
        \/ declared \in Seq(Nat) /\ Len(declared) = 1

LengthsDeclared(raw) == \A i \in DOMAIN raw : Declares(raw[i])

\* No declared length wraps, wherever its payload starts.
LengthsFit(raw) ==
  \A i \in DOMAIN raw :
    LET declared == LengthIn(raw[i].doc)
    IN  raw[i].sym = "open" /\ declared # NoLength => Len(raw) + declared[1] < Width

----------------------------------------------------------------------------
(***************************************************************************)
(* What a sender means by an envelope: items with a header and a payload,  *)
(* each followed by a newline that the last may lack.                      *)
(***************************************************************************)

ItemSymbols(item) == Json(item.header, <<>>) \o <<NL>> \o item.payload \o <<NL>>

Encoded(items) ==
  Json(Header("", NoLength), <<>>) \o <<NL>>
    \o FlattenSeq([i \in DOMAIN items |-> ItemSymbols(items[i])])

EventsIn(items) ==
  FlattenSeq([i \in DOMAIN items |->
    IF TypeIn(items[i].header) = "event" THEN <<EventOf(items[i].payload)>> ELSE <<>>])

\* A declared length is that of the payload; without one the payload has no
\* newline.  An event's payload is an event.
WellFormed(item) ==
  /\ IF LengthIn(item.header) = NoLength
       THEN \A i \in DOMAIN item.payload : item.payload[i] # NL
       ELSE LengthIn(item.header) = <<Len(item.payload)>>
  /\ TypeIn(item.header) = "event" => IsEvent(item.payload)

\* Every item sent is read as it was meant, with or without a last newline.
ReadAsMeant(items) ==
  \A raw \in {Encoded(items), Front(Encoded(items))} :
    items # <<>> => ParseEnvelope(raw) = Parsed(EventsIn(items))

\* An envelope cut short is refused or yields the first of its events.
CutShortIsSafe(items) ==
  \A n \in 0 .. Len(Encoded(items)) :
    LET got == ParseEnvelope(SubSeq(Encoded(items), 1, n))
    IN  \/ got.result = "malformed"
        \/ /\ got.result = "events"
           /\ IsPrefix(got.events, EventsIn(items))
============================================================================
