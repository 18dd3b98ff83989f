------------------------------ MODULE MCIngress ------------------------------
(***************************************************************************)
(* A small instance of Ingress for TLC, and the pure parts of the ingest   *)
(* path over bounded inputs.                                               *)
(***************************************************************************)
EXTENDS Ingress, Grouping, UserAgent, TLC

CONSTANTS n1, n2, s1, s2

TwoNames == {n1, n2}
TwoSlots == {s1, s2}
IngressBudget == [request |-> 3, console |-> 1, failure |-> 1, abort |-> 1]

\* Slots are only compared.
Symmetric == Permutations(TwoSlots)

EventItem(e) ==
  [header |-> Header("event", NoLength), payload |-> Json(EventDoc(e), <<>>)]

MCBodies ==
  {[packing |-> "plain", raw |-> Encoded(<<EventItem("a"), EventItem("b")>>)],
   [packing |-> "gzip", raw |-> Encoded(<<>>)],
   [packing |-> "oversized", raw |-> Encoded(<<EventItem("a")>>)]}

\* The initial state: where facts about the pure parts are evaluated.
AtStart == now = 0 /\ spent = [kind \in Kinds |-> 0]

----------------------------------------------------------------------------
(***************************************************************************)
(* Envelopes of up to two items                                            *)
(***************************************************************************)

Payloads ==
  {<<>>, <<NL>>, <<Text>>, <<Text, NL, Text>>,
   Json(EventDoc("a"), <<>>), Json(EventDoc("b"), <<NL>>),
   Json(Header("event", NoLength), <<>>), Json(Misfit, <<Text>>),
   <<Text, NL>> \o Json(Header("event", NoLength), <<>>) \o <<NL>>
     \o Json(EventDoc("b"), <<>>)}

Items ==
  {i \in [header : {Header(t, l) : t \in {"event", "session"},
                                   l \in {NoLength} \cup {<<n>> : n \in 0 .. 7}},
          payload : Payloads] : WellFormed(i)}

Envelopes == {<<>>} \cup {<<i>> : i \in Items} \cup (Items \X Items)

----------------------------------------------------------------------------
(***************************************************************************)
(* Events over short strings of the bytes the framing uses                 *)
(***************************************************************************)

Strings == {<<>>, <<0>>, <<1>>, <<97>>, <<97, 1>>}
Optional == {<<>>} \cup {<<s>> : s \in Strings}

Stacks ==
  {<<>>, <<<<>>>>}
  \cup {<<<<Frame(f, p)>>>> : f, p \in Optional}
  \cup {<<<<Frame(<<>>, <<>>), Frame(f, <<<<97>>>>)>>>> : f \in Optional}

SampleEvents ==
  {Event(<<200, 1>>, <<<<Exception(t, k)>>>>, <<>>) :
     t \in {<<>>, <<<<97>>>>, <<<<97, 1>>>>}, k \in Stacks}
  \cup {Event(id, x, m) : id \in {<<200, 1>>, <<200, 2>>},
                          x \in {<<>>, <<<<>>>>}, m \in Optional}
  \cup {Event(<<200, 2>>, <<<<Exception(t, <<>>), Exception(<<>>, <<>>)>>>>, m) :
     t, m \in Optional}

\* Two events share a fingerprint exactly when they are of the same group:
\* write_opt_str keeps neighbouring fields apart.
GroupedAsMeant ==
  \A a, b \in SampleEvents : (Fingerprint(a) = Fingerprint(b)) = SameGroup(a, b)

----------------------------------------------------------------------------
\* What the daemon makes of a body.  parse_envelope yields the events of every
\* envelope, whatever else is in it (payloads with newlines or headers inside
\* their declared length, items of other types, no newline at the end), and of
\* one that was cut short nothing or the first of its events; derive separates
\* what write_opt_str frames (fingerprint.rs:38-39); the tags name the browser
\* and system the header is from, although Edge and Opera call themselves
\* Chrome, Chrome calls itself Safari, iOS macOS and Android Linux, and take the
\* place of no tag that an SDK sent in an object (user_agent.rs:12-14, 24; of tags
\* in a list nothing is claimed, ensure_tags_object drops them).
InputsReadAsMeant ==
  AtStart =>
    /\ \A e \in Envelopes : ReadAsMeant(e) /\ CutShortIsSafe(e)
    /\ GroupedAsMeant
    /\ FamiliesRight
    /\ ObjectTagsWin
============================================================================
