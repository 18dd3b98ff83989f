-------------------------- MODULE PipelineProofs --------------------------
(***************************************************************************)
(* Safety of Pipeline for every value of its constants.                    *)
(*                                                                         *)
(* The invariant Inv is inductive.  On top of it TxInv says what the open  *)
(* transaction has done, FanoutInv what the clients will hold once it      *)
(* commits, AlertsInv which alerts it owes and LedgerInv what it has made  *)
(* of the ledger; the properties the runs check on small instances follow. *)
(***************************************************************************)
EXTENDS Pipeline, IssueDbProofs, SequenceTheorems, FiniteSetTheorems,
        WellFoundedInduction, NaturalsInduction

----------------------------------------------------------------------------
(***************************************************************************)
(* Counting in sets of positions                                           *)
(***************************************************************************)

\* A set of naturals with a member has a least one.
LEMMA LeastMember ==
  ASSUME NEW S \in SUBSET Nat, S # {}
  PROVE  \E m \in S : \A k \in S : m <= k
<1>1. PICK m \in S : \A k \in S : <<k, m>> \notin OpToRel(<, Nat)
  BY NatLessThanWellFounded, WFMin
<1>2. \A k \in S : ~(k < m)
  BY <1>1 DEF OpToRel
<1>. QED BY <1>2

\* The members of a set of positions up to one of them.
UpTo(S, i) == {j \in S : j <= i}

\* A set of positions is finite, and so is each part of it.
LEMMA UpToFinite ==
  ASSUME NEW len \in Nat, NEW S, S \subseteq 1 .. len
  PROVE  /\ IsFiniteSet(S)
         /\ Cardinality(S) \in Nat
         /\ UpTo(S, len) = S
         /\ \A i : IsFiniteSet(UpTo(S, i)) /\ Cardinality(UpTo(S, i)) \in Nat
<1>1. IsFiniteSet(1 .. len) /\ S \in SUBSET (1 .. len)
  BY FS_Interval
<1>2. IsFiniteSet(S) /\ Cardinality(S) \in Nat
  BY <1>1, FS_Subset, FS_CardinalityType
<1>3. \A j \in S : j <= len
  OBVIOUS
<1>4. UpTo(S, len) = S
  BY <1>3 DEF UpTo
<1>5. ASSUME NEW i
      PROVE  IsFiniteSet(UpTo(S, i)) /\ Cardinality(UpTo(S, i)) \in Nat
  <2>1. UpTo(S, i) \in SUBSET S
    BY DEF UpTo
  <2>. QED BY <1>2, <2>1, FS_Subset, FS_CardinalityType
<1>. QED BY <1>2, <1>4, <1>5

\* Going one position up adds at most that position.
LEMMA UpToNext ==
  ASSUME NEW len \in Nat, NEW S, S \subseteq 1 .. len, NEW i \in 1 .. len
  PROVE  Cardinality(UpTo(S, i)) =
           Cardinality(UpTo(S, i - 1)) + (IF i \in S THEN 1 ELSE 0)
<1>1. \A j \in S : j <= i <=> (j <= i - 1 \/ j = i)
  OBVIOUS
<1>2. CASE i \in S
  <2>1. UpTo(S, i) = UpTo(S, i - 1) \cup {i}
    BY <1>1, <1>2 DEF UpTo
  <2>2. i \notin UpTo(S, i - 1)
    BY DEF UpTo
  <2>3. IsFiniteSet(UpTo(S, i - 1))
    BY UpToFinite
  <2>4. Cardinality(UpTo(S, i)) = Cardinality(UpTo(S, i - 1)) + 1
    BY <2>1, <2>2, <2>3, FS_AddElement
  <2>. QED BY <1>2, <2>4
<1>3. CASE i \notin S
  <2>1. UpTo(S, i) = UpTo(S, i - 1)
    BY <1>1, <1>3 DEF UpTo
  <2>2. Cardinality(UpTo(S, i - 1)) \in Nat
    BY UpToFinite
  <2>. QED BY <1>3, <2>1, <2>2
<1>. QED BY <1>2, <1>3

\* There is an n-th position in a set of at least n of them.
LEMMA NthFact ==
  ASSUME NEW len \in Nat, NEW S, S \subseteq 1 .. len,
         NEW n \in 1 .. Cardinality(S)
  PROVE  Nth(S, n) \in S /\ Cardinality(UpTo(S, Nth(S, n))) = n
<1> DEFINE enough == {i \in 1 .. len : Cardinality(UpTo(S, i)) >= n}
<1>1. Cardinality(S) \in Nat /\ UpTo(S, len) = S
  BY UpToFinite
<1>2. len # 0
  <2>1. SUFFICES ASSUME len = 0 PROVE FALSE
    OBVIOUS
  <2>2. S = {}
    BY <2>1
  <2>. QED BY <2>2, FS_EmptySet
<1>3. len \in enough /\ enough \in SUBSET Nat
  BY <1>1, <1>2
<1>4. PICK i \in enough : \A k \in enough : i <= k
  BY <1>3, LeastMember
<1>5. i \in 1 .. len /\ Cardinality(UpTo(S, i)) >= n
  BY <1>4
<1>6. Cardinality(UpTo(S, i - 1)) \in Nat /\ Cardinality(UpTo(S, i)) \in Nat
  BY UpToFinite
<1>7. Cardinality(UpTo(S, i - 1)) < n
  <2>1. CASE i = 1
    <3>1. \A j \in S : ~(j <= 0)
      OBVIOUS
    <3>2. UpTo(S, 0) = {}
      BY <3>1 DEF UpTo
    <3>. QED BY <2>1, <3>2, FS_EmptySet
  <2>2. CASE i # 1
    <3>1. i - 1 \in 1 .. len /\ i - 1 \notin enough
      BY <1>4, <1>5, <2>2
    <3>. QED BY <1>6, <3>1
  <2>. QED BY <2>1, <2>2
<1>8. i \in S /\ Cardinality(UpTo(S, i)) = n
  <2>1. \A j \in 1 .. len : Cardinality(UpTo(S, j)) =
          Cardinality(UpTo(S, j - 1)) + (IF j \in S THEN 1 ELSE 0)
    BY UpToNext, ZenonT(40)
  <2> DEFINE before == Cardinality(UpTo(S, i - 1))
             upto == Cardinality(UpTo(S, i))
  <2>2. upto = before + (IF i \in S THEN 1 ELSE 0)
    BY <1>5, <2>1
  <2>3. before \in Nat /\ upto \in Nat /\ before < n /\ upto >= n
    BY <1>5, <1>6, <1>7
  <2> HIDE DEF before, upto
  <2>4. i \in S /\ upto = n
    BY <2>2, <2>3
  <2>. QED BY <2>4 DEF upto
<1>. QED BY <1>8 DEF Nth, UpTo

\* A set of positions with a member has a last one.
LEMMA LastMember ==
  ASSUME NEW len \in Nat, NEW S, S \subseteq 1 .. len, S # {}
  PROVE  \E m \in S : \A k \in S : k <= m
<1> DEFINE n == Cardinality(S)
           m == Nth(S, n)
<1>1. IsFiniteSet(S) /\ n \in Nat
  BY UpToFinite
<1>2. n \in 1 .. n
  BY <1>1, FS_EmptySet
<1>3. m \in S /\ Cardinality(UpTo(S, m)) = n
  BY <1>2, NthFact
<1>4. UpTo(S, m) = S
  <2>1. UpTo(S, m) \in SUBSET S
    BY DEF UpTo
  <2>. QED BY <1>1, <1>3, <2>1, FS_Subset
<1>. QED BY <1>3, <1>4 DEF UpTo

----------------------------------------------------------------------------
(***************************************************************************)
(* The line of handlers                                                    *)
(***************************************************************************)

\* A handler that leaves the line leaves the others in it, in order.
LEMMA WithoutFact ==
  ASSUME NEW line \in Seq(Handlers), Distinct(line), NEW h
  PROVE  /\ Without(line, h) \in Seq(Handlers)
         /\ Distinct(Without(line, h))
         /\ Members(Without(line, h)) = Members(line) \ {h}
<1>1. CASE ~\E k \in 1 .. Len(line) : line[k] = h
  BY <1>1 DEF Without, Members
<1>2. CASE \E k \in 1 .. Len(line) : line[k] = h
  <2> DEFINE k == CHOOSE j \in 1 .. Len(line) : line[j] = h
             s1 == SubSeq(line, 1, k - 1)
             s2 == SubSeq(line, k + 1, Len(line))
             rest == s1 \o s2
  <2>1. k \in 1 .. Len(line) /\ line[k] = h /\ Without(line, h) = rest
    BY <1>2 DEF Without
  <2> HIDE DEF k
  <2>2. /\ s1 \in Seq(Handlers) /\ Len(s1) = k - 1
        /\ \A j \in 1 .. k - 1 : s1[j] = line[j]
    BY <2>1, SubSeqProperties
  <2>3. /\ s2 \in Seq(Handlers) /\ Len(s2) = Len(line) - k
        /\ \A j \in 1 .. Len(line) - k : s2[j] = line[k + j]
    BY <2>1, SubSeqProperties
  <2> HIDE DEF s1, s2
  <2>4. /\ rest \in Seq(Handlers)
        /\ Len(rest) = Len(s1) + Len(s2)
        /\ \A i \in 1 .. Len(s1) + Len(s2) :
             rest[i] = IF i <= Len(s1) THEN s1[i] ELSE s2[i - Len(s1)]
    BY <2>2, <2>3, ConcatProperties, Zenon
  <2> HIDE DEF rest
  <2>5. rest \in Seq(Handlers) /\ Len(rest) = Len(line) - 1
    BY <2>1, <2>2, <2>3, <2>4
  <2>6. ASSUME NEW j \in 1 .. Len(rest)
        PROVE  rest[j] = IF j < k THEN line[j] ELSE line[j + 1]
    <3>1. CASE j < k
      BY <2>1, <2>2, <2>3, <2>4, <3>1
    <3>2. CASE ~(j < k)
      <4>1. j \in Nat /\ j <= Len(line) - 1 /\ k \in Nat /\ Len(line) \in Nat
        BY <2>1, <2>5
      <4>2. j \in 1 .. Len(s1) + Len(s2) /\ ~(j <= Len(s1))
        BY <2>1, <2>2, <2>3, <2>4, <3>2
      <4>3. rest[j] = s2[j - (k - 1)]
        BY <2>4, <2>2, <4>2, Zenon
      <4>4. rest[j] = s2[j - (k - 1)] /\ j - (k - 1) \in 1 .. Len(line) - k
        BY <3>2, <4>1, <4>3
      <4>5. s2[j - (k - 1)] = line[k + (j - (k - 1))]
        BY <2>3, <4>4
      <4>. QED BY <2>1, <3>2, <4>4, <4>5
    <3>. QED BY <3>1, <3>2
  <2>7. Distinct(rest)
    BY <2>1, <2>5, <2>6 DEF Distinct
  <2>8. Members(rest) \subseteq Members(line) \ {h}
    BY <2>1, <2>5, <2>6 DEF Distinct, Members
  <2>9. ASSUME NEW j \in 1 .. Len(line), line[j] # h
        PROVE  line[j] \in Members(rest)
    <3>1. CASE j < k
      BY <2>1, <2>5, <2>6, <3>1 DEF Members
    <3>2. CASE j > k
      <4>1. j - 1 \in 1 .. Len(rest) /\ rest[j - 1] = line[j]
        BY <2>1, <2>5, <2>6, <3>2
      <4>. QED BY <4>1 DEF Members
    <3>. QED BY <2>1, <2>9, <3>1, <3>2
  <2>10. Members(line) \ {h} \subseteq Members(rest)
    BY <2>9 DEF Members
  <2>. QED BY <2>1, <2>5, <2>7, <2>8, <2>10
<1>. QED BY <1>1, <1>2

\* The first k members of a line without repetition are k.
LEMMA FirstInLine ==
  ASSUME NEW line \in Seq(Handlers), Distinct(line), NEW k \in 0 .. Len(line)
  PROVE  /\ IsFiniteSet({line[j] : j \in 1 .. k})
         /\ Cardinality({line[j] : j \in 1 .. k}) = k
<1> DEFINE first == {line[j] : j \in 1 .. k}
           f == [j \in 1 .. k |-> line[j]]
<1>1. IsFiniteSet(1 .. k) /\ Cardinality(1 .. k) = k
  BY FS_Interval
<1>2. f \in Bijection(1 .. k, first)
  <2>1. f \in [1 .. k -> first]
    OBVIOUS
  <2>2. \A i, j \in 1 .. k : f[i] = f[j] => i = j
    BY DEF Distinct
  <2>3. \A y \in first : \E j \in 1 .. k : f[j] = y
    OBVIOUS
  <2>. QED BY <2>1, <2>2, <2>3 DEF Bijection, Injection, Surjection, IsInjective
<1>3. ExistsBijection(1 .. k, first)
  BY <1>2 DEF ExistsBijection
<1>. QED BY <1>1, <1>3, FS_Bijection

\* The handlers are typed, and those that wait stand in line, each once.
Orderly(hs, line) ==
  /\ HandlersTyped(hs)
  /\ line \in Seq(Handlers)
  /\ Distinct(line)
  /\ Members(line) = At(hs, "waiting")

\* Waking the first k in line grants k handlers a permit and leaves the rest
\* in line.
LEMMA WakeFact ==
  ASSUME NEW hs, NEW line, Orderly(hs, line), NEW k \in 0 .. Len(line)
  PROVE  /\ Orderly(Woken(k, hs, line), SubSeq(line, k + 1, Len(line)))
         /\ Len(SubSeq(line, k + 1, Len(line))) = Len(line) - k
         /\ Cardinality(At(Woken(k, hs, line), "granted"))
              = Cardinality(At(hs, "granted")) + k
<1> USE DEF Orderly
<1> DEFINE hs2 == Woken(k, hs, line)
           rest == SubSeq(line, k + 1, Len(line))
           first == {line[j] : j \in 1 .. k}
<1>1. Len(line) \in Nat /\ k \in Nat /\ k <= Len(line)
  BY LenProperties
<1>2. /\ rest \in Seq(Handlers) /\ Len(rest) = Len(line) - k
      /\ \A j \in 1 .. Len(line) - k : rest[j] = line[k + j]
  BY <1>1, SubSeqProperties
<1>3. \A h \in Handlers :
        hs2[h] = IF h \in first THEN [hs[h] EXCEPT !.pc = "granted"] ELSE hs[h]
  BY DEF Woken
<1> HIDE DEF hs2, rest
<1>4. first \subseteq At(hs, "waiting")
  BY <1>1 DEF Members
<1>5. HandlersTyped(hs2)
  <2>1. \A h \in Handlers : hs2[h] \in HandlerState
    <3>1. ASSUME NEW h \in Handlers
          PROVE  [hs[h] EXCEPT !.pc = "granted"] \in HandlerState
      <4>1. hs[h] \in HandlerState
        BY DEF HandlersTyped
      <4>. QED BY <4>1 DEF HandlerState
    <3>. QED BY <1>3, <3>1 DEF HandlersTyped
  <2>2. hs2 \in [Handlers -> HandlerState]
    BY <2>1 DEF Woken, hs2
  <2>3. \A h \in Handlers :
          /\ hs2[h].project = hs[h].project /\ hs2[h].rec = hs[h].rec
          /\ hs2[h].pc = IF h \in first THEN "granted" ELSE hs[h].pc
    BY <1>3 DEF HandlersTyped, HandlerState
  <2>4. \A h \in first : hs[h].pc = "waiting"
    BY <1>4 DEF At
  <2>. QED BY <2>2, <2>3, <2>4 DEF HandlersTyped
<1>6. \A h \in Handlers : hs2[h].pc = IF h \in first THEN "granted" ELSE hs[h].pc
  BY <1>3 DEF HandlersTyped, HandlerState
<1>7. Distinct(rest)
  <2>1. SUFFICES ASSUME NEW i \in 1 .. Len(rest), NEW j \in 1 .. Len(rest),
                        rest[i] = rest[j]
                 PROVE  i = j
    BY DEF Distinct
  <2>2. k + i \in 1 .. Len(line) /\ k + j \in 1 .. Len(line)
    <3>1. i \in 1 .. Len(line) - k /\ j \in 1 .. Len(line) - k
      BY <1>2
    <3>. QED BY <1>1, <3>1, SMTT(20)
  <2>3. line[k + i] = line[k + j]
    BY <1>1, <1>2, <2>1
  <2>4. k + i = k + j
    BY <2>2, <2>3 DEF Distinct
  <2>. QED BY <1>1, <1>2, <2>4
<1>8. Members(rest) = At(hs2, "waiting")
  <2>1. \A x : x \in Members(rest) <=> x \in Members(line) /\ x \notin first
    <3>1. ASSUME NEW j \in 1 .. Len(rest)
          PROVE  rest[j] \in Members(line) /\ rest[j] \notin first
      <4>1. j \in 1 .. Len(line) - k
        BY <1>2
      <4>2. k + j \in 1 .. Len(line) /\ rest[j] = line[k + j]
        BY <1>1, <1>2, <4>1, SMTT(20)
      <4>3. \A i \in 1 .. k : line[i] # line[k + j]
        BY <1>1, <4>1, <4>2 DEF Distinct
      <4>. QED BY <4>2, <4>3 DEF Members
    <3>2. ASSUME NEW i \in 1 .. Len(line), line[i] \notin first
          PROVE  line[i] \in Members(rest)
      <4>1. i > k
        BY <1>1, <3>2
      <4>2. i - k \in 1 .. Len(rest) /\ rest[i - k] = line[i]
        BY <1>1, <1>2, <4>1
      <4>. QED BY <4>2 DEF Members
    <3>. QED BY <3>1, <3>2 DEF Members
  <2>2. \A x : x \in At(hs2, "waiting") <=> x \in At(hs, "waiting") /\ x \notin first
    BY <1>6 DEF At
  <2>. QED BY <2>1, <2>2
<1>9. Cardinality(At(hs2, "granted")) = Cardinality(At(hs, "granted")) + k
  <2> DEFINE before == At(hs, "granted")
  <2>1. At(hs2, "granted") = before \cup first
    <3>1. \A x : x \in At(hs2, "granted") <=> x \in before \cup first
      BY <1>4, <1>6 DEF At
    <3>. QED BY <3>1
  <2>2. before \cap first = {}
    BY <1>4 DEF At
  <2>3. IsFiniteSet(before)
    <3>1. before \in SUBSET Handlers
      BY DEF At
    <3>. QED BY <3>1, PipelineAssumption, FS_Subset
  <2>4. IsFiniteSet(first) /\ Cardinality(first) = k
    BY <1>1, FirstInLine
  <2>5. Cardinality(before) \in Nat /\ Cardinality({}) = 0
    BY <2>3, FS_CardinalityType, FS_EmptySet
  <2>6. Cardinality(before \cup first) =
          Cardinality(before) + Cardinality(first) - Cardinality(before \cap first)
    BY <2>3, <2>4, FS_Union
  <2>7. Cardinality(before \cap first) = 0
    BY <2>2, <2>5
  <2>8. Cardinality(At(hs2, "granted")) = Cardinality(before) + k - 0
    BY <2>1, <2>4, <2>6, <2>7, Zenon
  <2> HIDE DEF before, first
  <2>9. Cardinality(At(hs2, "granted")) = Cardinality(before) + k
    BY <1>1, <2>5, <2>8
  <2>. QED BY <2>9 DEF before
<1>. QED BY <1>2, <1>5, <1>7, <1>8, <1>9 DEF hs2, rest

----------------------------------------------------------------------------
(***************************************************************************)
(* The channel: permits, line and queue                                    *)
(***************************************************************************)

ChannelInv ==
  /\ HandlersTyped(handlers)
  /\ permits \in Nat
  /\ waiters \in Seq(Handlers)
  /\ queue \in Seq(Rec)
  /\ NoIdlePermit

\* The handlers at one place are finitely many.
LEMMA AtFinite ==
  ASSUME NEW hs, NEW pc
  PROVE  IsFiniteSet(At(hs, pc)) /\ Cardinality(At(hs, pc)) \in Nat
<1>1. At(hs, pc) \in SUBSET Handlers
  BY DEF At
<1>. QED BY <1>1, PipelineAssumption, FS_Subset, FS_CardinalityType

\* Conservation bounds the channel.
LEMMA ChannelBounds ==
  ASSUME ChannelInv
  PROVE  permits \in 0 .. QueueCap /\ Len(queue) <= QueueCap
<1>1. Cardinality(At(handlers, "granted")) \in Nat /\ Len(queue) \in Nat
  BY AtFinite, LenProperties DEF ChannelInv
<1>. QED BY <1>1, PipelineAssumption DEF ChannelInv, NoIdlePermit

\* When one handler moves, it leaves the set of its old place and joins the
\* set of its new one.
LEMMA AtMoved ==
  ASSUME NEW hs \in [Handlers -> HandlerState], NEW h \in Handlers,
         NEW st \in HandlerState, NEW pc
  PROVE  At([hs EXCEPT ![h] = st], pc) =
           IF st.pc = pc THEN At(hs, pc) \cup {h} ELSE At(hs, pc) \ {h}
<1>1. \A g \in Handlers : [hs EXCEPT ![h] = st][g] = IF g = h THEN st ELSE hs[g]
  OBVIOUS
<1>. QED BY <1>1 DEF At

\* A handler that moves keeps every handler typed if its new state is.
LEMMA HandlersTypedMoved ==
  ASSUME NEW hs, HandlersTyped(hs), NEW h \in Handlers, NEW st \in HandlerState,
         st.pc # "idle" => st.project \in Projects,
         st.pc \in {"waiting", "granted"} => st.rec \in Rec
  PROVE  HandlersTyped([hs EXCEPT ![h] = st])
<1>1. \A g \in Handlers : [hs EXCEPT ![h] = st][g] = IF g = h THEN st ELSE hs[g]
  BY DEF HandlersTyped
<1>. QED BY <1>1 DEF HandlersTyped

\* An idle request slot is a handler state.
LEMMA IdleTyped == Idle \in HandlerState
BY EmptySeq DEF Idle, Request, HandlerState

\* An envelope is a sequence of event ids.
LEMMA EnvelopeTyped ==
  ASSUME NEW envelope \in SeqUpTo(EventIds, MaxEnvelope)
  PROVE  envelope \in Seq(EventIds)
BY PipelineAssumption, SeqDef DEF SeqUpTo

\* What Request builds is a handler state.
LEMMA RequestTyped ==
  ASSUME NEW pc \in {"sending", "waiting"}, NEW p \in Projects,
         NEW todo \in Seq(EventIds), NEW rec \in Rec \cup {NoRec}
  PROVE  Request(pc, p, todo, rec) \in HandlerState
BY DEF Request, HandlerState

\* Receive takes no permit and joins no line.
LEMMA ReceiveKeepsChannel ==
  ASSUME ChannelInv, NEW h \in Handlers, Receive(h)
  PROVE  ChannelInv'
<1>1. PICK p \in Projects, envelope \in SeqUpTo(EventIds, MaxEnvelope) :
        handlers' = [handlers EXCEPT ![h] = Request("sending", p, envelope, NoRec)]
  BY DEF Receive
<1> DEFINE st == Request("sending", p, envelope, NoRec)
<1>2. st \in HandlerState /\ handlers' = [handlers EXCEPT ![h] = st]
  BY <1>1, EnvelopeTyped, RequestTyped
<1>3. st.pc = "sending" /\ st.project \in Projects
  BY DEF Request
<1>4. handlers[h].pc = "idle" /\ UNCHANGED channel
  BY DEF Receive
<1> HIDE DEF st
<1>5. HandlersTyped(handlers')
  BY <1>2, <1>3, HandlersTypedMoved DEF ChannelInv
<1>6. At(handlers', "waiting") = At(handlers, "waiting")
  BY <1>2, <1>3, <1>4, AtMoved DEF ChannelInv, HandlersTyped, At
<1>7. At(handlers', "granted") = At(handlers, "granted")
  BY <1>2, <1>3, <1>4, AtMoved DEF ChannelInv, HandlersTyped, At
<1>. QED BY <1>4, <1>5, <1>6, <1>7
         DEF ChannelInv, NoIdlePermit, LineOfWaiters, channel

\* Send turns a free permit into a queued event, or joins the line when there
\* is none.
LEMMA SendKeepsChannel ==
  ASSUME ChannelInv, clock \in Nat, NEW h \in Handlers, Send(h)
  PROVE  ChannelInv'
<1> DEFINE todo == Tail(handlers[h].todo)
           rec == [eid |-> Head(handlers[h].todo), project |-> handlers[h].project,
                   at |-> clock + 1]
           go == Request("sending", handlers[h].project, todo, NoRec)
           wait == Request("waiting", handlers[h].project, todo, rec)
<1>1. handlers[h] \in HandlerState /\ handlers[h].pc = "sending"
  BY DEF Send, ChannelInv, HandlersTyped
<1>2. handlers[h].project \in Projects
  BY <1>1 DEF ChannelInv, HandlersTyped
<1>3. handlers[h].todo \in Seq(EventIds) /\ handlers[h].todo # <<>>
  BY <1>1 DEF Send, HandlerState
<1>4. todo \in Seq(EventIds) /\ Head(handlers[h].todo) \in EventIds
  BY <1>3, HeadTailProperties
<1>5. rec \in Rec
  BY <1>2, <1>4 DEF Rec
<1>6. go \in HandlerState /\ wait \in HandlerState
  BY <1>2, <1>4, <1>5, RequestTyped
<1>7. /\ go.pc = "sending" /\ go.project \in Projects
      /\ wait.pc = "waiting" /\ wait.project \in Projects /\ wait.rec \in Rec
  BY <1>2, <1>5 DEF Request
<1>8. CASE /\ permits > 0 /\ permits' = permits - 1
           /\ queue' = Append(queue, rec)
           /\ handlers' = [handlers EXCEPT ![h] = go]
           /\ UNCHANGED waiters
  <2> HIDE DEF go, wait, rec
  <2>1. HandlersTyped(handlers')
    BY <1>6, <1>7, <1>8, HandlersTypedMoved DEF ChannelInv
  <2>2. At(handlers', "waiting") = At(handlers, "waiting")
    BY <1>1, <1>6, <1>7, <1>8, AtMoved DEF ChannelInv, HandlersTyped, At
  <2>3. At(handlers', "granted") = At(handlers, "granted")
    BY <1>1, <1>6, <1>7, <1>8, AtMoved DEF ChannelInv, HandlersTyped, At
  <2>4. queue' \in Seq(Rec) /\ Len(queue') = Len(queue) + 1 /\ Len(queue) \in Nat
    BY <1>5, <1>8, AppendProperties, LenProperties DEF ChannelInv
  <2>5. permits' + Len(queue') = permits + Len(queue) /\ permits' \in Nat
    BY <1>8, <2>4 DEF ChannelInv
  <2>. QED BY <1>8, <2>1, <2>2, <2>3, <2>4, <2>5
           DEF ChannelInv, NoIdlePermit, LineOfWaiters
<1>9. CASE /\ permits = 0
           /\ waiters' = Append(waiters, h)
           /\ handlers' = [handlers EXCEPT ![h] = wait]
           /\ UNCHANGED <<permits, queue>>
  <2> HIDE DEF go, wait, rec
  <2>1. HandlersTyped(handlers')
    BY <1>6, <1>7, <1>9, HandlersTypedMoved DEF ChannelInv
  <2>2. At(handlers', "waiting") = At(handlers, "waiting") \cup {h}
    <3>1. handlers \in [Handlers -> HandlerState]
      BY DEF ChannelInv, HandlersTyped
    <3>2. \A g \in Handlers : handlers'[g] = IF g = h THEN wait ELSE handlers[g]
      BY <1>9, <3>1
    <3>. QED BY <1>7, <3>2 DEF At
  <2>3. At(handlers', "granted") = At(handlers, "granted")
    BY <1>1, <1>6, <1>7, <1>9, AtMoved DEF ChannelInv, HandlersTyped, At
  <2>4. h \notin Members(waiters)
    BY <1>1 DEF ChannelInv, NoIdlePermit, LineOfWaiters, At
  <2>5. /\ waiters' \in Seq(Handlers) /\ Len(waiters') = Len(waiters) + 1
        /\ \A i \in 1 .. Len(waiters) : waiters'[i] = waiters[i]
        /\ waiters'[Len(waiters) + 1] = h
    BY <1>9, AppendProperties DEF ChannelInv
  <2>6. Len(waiters) \in Nat
    BY LenProperties DEF ChannelInv
  <2>7. Distinct(waiters')
    <3>1. Distinct(waiters)
      BY DEF ChannelInv, NoIdlePermit, LineOfWaiters
    <3>2. \A i \in 1 .. Len(waiters) : waiters[i] # h
      BY <2>4 DEF Members
    <3>. QED BY <2>5, <2>6, <3>1, <3>2 DEF Distinct
  <2>8. Members(waiters') = Members(waiters) \cup {h}
    <3>1. \A i \in 1 .. Len(waiters') :
            waiters'[i] \in Members(waiters) \cup {h}
      BY <2>5, <2>6 DEF Members
    <3>2. \A i \in 1 .. Len(waiters) : waiters[i] \in Members(waiters')
      BY <2>5, <2>6 DEF Members
    <3>3. h \in Members(waiters')
      BY <2>5, <2>6 DEF Members
    <3>. QED BY <3>1, <3>2, <3>3 DEF Members
  <2>. QED BY <1>9, <2>1, <2>2, <2>3, <2>5, <2>7, <2>8
           DEF ChannelInv, NoIdlePermit, LineOfWaiters
<1>. QED BY <1>8, <1>9 DEF Send

\* Push turns a promised place into a queued event.
LEMMA PushKeepsChannel ==
  ASSUME ChannelInv, NEW h \in Handlers, Push(h)
  PROVE  ChannelInv'
<1> DEFINE st == Request("sending", handlers[h].project, handlers[h].todo, NoRec)
           granted == At(handlers, "granted")
<1>1. /\ handlers[h] \in HandlerState /\ handlers[h].pc = "granted"
      /\ handlers \in [Handlers -> HandlerState]
  BY DEF Push, ChannelInv, HandlersTyped
<1>2. handlers[h].project \in Projects /\ handlers[h].rec \in Rec
  BY <1>1 DEF ChannelInv, HandlersTyped
<1>3. st \in HandlerState /\ st.pc = "sending" /\ st.project \in Projects
  <2>1. handlers[h].todo \in Seq(EventIds)
    BY <1>1 DEF HandlerState
  <2>2. st \in HandlerState
    BY <1>2, <2>1, RequestTyped
  <2>. QED BY <1>2, <2>2 DEF Request
<1>4. /\ handlers' = [handlers EXCEPT ![h] = st]
      /\ queue' = Append(queue, handlers[h].rec)
      /\ UNCHANGED <<permits, waiters>>
  BY DEF Push
<1> HIDE DEF st
<1>5. HandlersTyped(handlers')
  BY <1>3, <1>4, HandlersTypedMoved DEF ChannelInv
<1>6. \A g \in Handlers : handlers'[g] = IF g = h THEN st ELSE handlers[g]
  BY <1>1, <1>4
<1>7. At(handlers', "waiting") = At(handlers, "waiting")
  BY <1>1, <1>3, <1>6 DEF At
<1>8. At(handlers', "granted") = granted \ {h} /\ h \in granted
  BY <1>1, <1>3, <1>6 DEF At
<1>9. /\ Cardinality(At(handlers', "granted")) = Cardinality(granted) - 1
      /\ Cardinality(granted) \in Nat
  BY <1>8, AtFinite, FS_RemoveElement
<1>10. queue' \in Seq(Rec) /\ Len(queue') = Len(queue) + 1 /\ Len(queue) \in Nat
  BY <1>2, <1>4, AppendProperties, LenProperties DEF ChannelInv
<1>11. permits + Len(queue') + Cardinality(At(handlers', "granted")) =
         permits + Len(queue) + Cardinality(granted)
  BY <1>9, <1>10 DEF ChannelInv
<1>. QED BY <1>4, <1>5, <1>7, <1>10, <1>11
         DEF ChannelInv, NoIdlePermit, LineOfWaiters

\* Finish holds nothing.
LEMMA FinishKeepsChannel ==
  ASSUME ChannelInv, NEW h \in Handlers, Finish(h)
  PROVE  ChannelInv'
<1>1. handlers[h].pc = "sending" /\ handlers' = [handlers EXCEPT ![h] = Idle]
      /\ UNCHANGED channel
  BY DEF Finish
<1>2. Idle \in HandlerState /\ Idle.pc = "idle"
  BY IdleTyped DEF Idle, Request
<1>3. HandlersTyped(handlers')
  BY <1>1, <1>2, HandlersTypedMoved DEF ChannelInv
<1>4. \A g \in Handlers : handlers'[g] = IF g = h THEN Idle ELSE handlers[g]
  BY <1>1 DEF ChannelInv, HandlersTyped
<1>5. At(handlers', "waiting") = At(handlers, "waiting")
  BY <1>1, <1>2, <1>4 DEF At
<1>6. At(handlers', "granted") = At(handlers, "granted")
  BY <1>1, <1>2, <1>4 DEF At
<1>. QED BY <1>1, <1>3, <1>5, <1>6
         DEF ChannelInv, NoIdlePermit, LineOfWaiters, channel

\* An aborted request gives back its place in line, or the permit it held.
LEMMA DisconnectKeepsChannel ==
  ASSUME ChannelInv, NEW h \in Handlers, Disconnect(h)
  PROVE  ChannelInv'
<1> DEFINE held == IF handlers[h].pc = "granted" THEN 1 ELSE 0
           hs == [handlers EXCEPT ![h] = Idle]
           line == Without(waiters, h)
           k == Smaller(held, Len(line))
<1>1. /\ handlers' = Woken(k, hs, line)
      /\ waiters' = SubSeq(line, k + 1, Len(line))
      /\ permits' = permits + (held - k)
      /\ queue' = queue
  BY DEF Disconnect, Release
<1>2. handlers[h] \in HandlerState /\ handlers \in [Handlers -> HandlerState]
  BY DEF ChannelInv, HandlersTyped
<1>3. Idle \in HandlerState /\ Idle.pc = "idle"
  BY IdleTyped DEF Idle, Request
<1>4. HandlersTyped(hs)
  BY <1>3, HandlersTypedMoved DEF ChannelInv
<1>5. \A g \in Handlers : hs[g] = IF g = h THEN Idle ELSE handlers[g]
  BY <1>2
<1>6. /\ line \in Seq(Handlers) /\ Distinct(line)
      /\ Members(line) = Members(waiters) \ {h}
  BY WithoutFact DEF ChannelInv, NoIdlePermit, LineOfWaiters
<1>7. Members(line) = At(hs, "waiting")
  <2>1. At(hs, "waiting") = At(handlers, "waiting") \ {h}
    BY <1>3, <1>5 DEF At
  <2>. QED BY <1>6, <2>1 DEF ChannelInv, NoIdlePermit, LineOfWaiters
<1>8. /\ Cardinality(At(hs, "granted")) = Cardinality(At(handlers, "granted")) - held
      /\ Cardinality(At(handlers, "granted")) \in Nat
  <2>1. At(hs, "granted") = At(handlers, "granted") \ {h}
    BY <1>3, <1>5 DEF At
  <2>2. h \in At(handlers, "granted") <=> handlers[h].pc = "granted"
    BY DEF At
  <2>3. /\ IsFiniteSet(At(handlers, "granted"))
        /\ Cardinality(At(handlers, "granted")) \in Nat
    BY AtFinite
  <2>4. Cardinality(At(handlers, "granted") \ {h}) =
          IF h \in At(handlers, "granted")
            THEN Cardinality(At(handlers, "granted")) - 1
            ELSE Cardinality(At(handlers, "granted"))
    BY <2>3, FS_RemoveElement
  <2>5. CASE handlers[h].pc = "granted"
    BY <2>1, <2>2, <2>3, <2>4, <2>5
  <2>6. CASE handlers[h].pc # "granted"
    <3>1. Cardinality(At(hs, "granted")) = Cardinality(At(handlers, "granted"))
      BY <2>1, <2>2, <2>4, <2>6
    <3>. QED BY <2>3, <2>6, <3>1
  <2>. QED BY <2>5, <2>6
<1>9. Orderly(hs, line)
  BY <1>4, <1>6, <1>7 DEF Orderly
<1>10. /\ held \in Nat /\ Len(line) \in Nat
       /\ k \in 0 .. held /\ k \in 0 .. Len(line) /\ (k = held \/ k = Len(line))
  BY <1>6, LenProperties DEF Smaller
<1> HIDE DEF hs, line, held, k
<1>11. /\ Orderly(handlers', waiters') /\ Len(waiters') = Len(line) - k
       /\ Cardinality(At(handlers', "granted")) = Cardinality(At(hs, "granted")) + k
  BY <1>1, <1>9, <1>10, WakeFact
<1>12. permits' \in Nat /\ Len(queue) \in Nat
  BY <1>1, <1>10, LenProperties DEF ChannelInv
<1>13. permits' + Len(queue') + Cardinality(At(handlers', "granted")) =
         permits + Len(queue) + Cardinality(At(handlers, "granted"))
  BY <1>1, <1>8, <1>10, <1>11, <1>12 DEF ChannelInv
<1>14. waiters' # <<>> => permits' = 0
  <2>1. SUFFICES ASSUME waiters' # <<>> PROVE permits' = 0
    OBVIOUS
  <2>2. Len(waiters') \in Nat \ {0}
    BY <1>11, <2>1, EmptySeq DEF Orderly
  <2>3. k = held /\ Len(line) > 0
    BY <1>10, <1>11, <2>2
  <2>4. waiters # <<>>
    <3>1. line[1] \in Members(line)
      BY <1>10, <2>3 DEF Members
    <3>2. Members(waiters) # {}
      BY <1>6, <3>1
    <3>. QED BY <3>2 DEF Members
  <2>. QED BY <1>1, <1>10, <2>3, <2>4 DEF ChannelInv, NoIdlePermit
<1>. QED BY <1>1, <1>11, <1>12, <1>13, <1>14
         DEF ChannelInv, NoIdlePermit, LineOfWaiters, Orderly

\* What recv and try_recv take: the first n events, in order.
LEMMA TakeFact ==
  ASSUME queue \in Seq(Rec), NEW n, n = Smaller(Len(queue), BatchSize)
  PROVE  /\ n \in Nat /\ n <= BatchSize /\ n <= Len(queue) /\ Len(queue) \in Nat
         /\ SubSeq(queue, 1, n) \in Seq(Rec) /\ Len(SubSeq(queue, 1, n)) = n
         /\ SubSeq(queue, n + 1, Len(queue)) \in Seq(Rec)
         /\ Len(SubSeq(queue, n + 1, Len(queue))) = Len(queue) - n
<1>1. n \in Nat /\ n <= BatchSize /\ n <= Len(queue) /\ Len(queue) \in Nat
  BY PipelineAssumption, LenProperties DEF Smaller
<1>2. SubSeq(queue, 1, n) \in Seq(Rec) /\ Len(SubSeq(queue, 1, n)) = n
  BY <1>1, SubSeqProperties
<1>3. /\ SubSeq(queue, n + 1, Len(queue)) \in Seq(Rec)
      /\ Len(SubSeq(queue, n + 1, Len(queue))) = Len(queue) - n
  BY <1>1, SubSeqProperties
<1>. QED BY <1>1, <1>2, <1>3

\* The digest task's receive gives every place it empties to the next in line.
LEMMA TakeBatchKeepsChannel ==
  ASSUME ChannelInv, TakeBatch
  PROVE  ChannelInv'
<1> DEFINE n == Smaller(Len(queue), BatchSize)
           k == Smaller(n, Len(waiters))
<1>1. /\ handlers' = Woken(k, handlers, waiters)
      /\ waiters' = SubSeq(waiters, k + 1, Len(waiters))
      /\ permits' = permits + (n - k)
      /\ queue' = SubSeq(queue, n + 1, Len(queue))
  BY DEF TakeBatch, Release
<1>2. /\ n \in Nat /\ Len(queue) \in Nat
      /\ queue' \in Seq(Rec) /\ Len(queue') = Len(queue) - n
  BY <1>1, TakeFact DEF ChannelInv
<1>3. Orderly(handlers, waiters)
  BY DEF Orderly, ChannelInv, NoIdlePermit, LineOfWaiters
<1>4. /\ k \in 0 .. n /\ k \in 0 .. Len(waiters) /\ (k = n \/ k = Len(waiters))
      /\ Len(waiters) \in Nat
  BY <1>2, <1>3, LenProperties DEF Smaller, Orderly
<1> HIDE DEF n, k
<1>5. /\ Orderly(handlers', waiters') /\ Len(waiters') = Len(waiters) - k
      /\ Cardinality(At(handlers', "granted")) =
           Cardinality(At(handlers, "granted")) + k
  BY <1>1, <1>3, <1>4, WakeFact
<1>6. permits' \in Nat /\ Cardinality(At(handlers, "granted")) \in Nat
  BY <1>1, <1>2, <1>4, AtFinite DEF ChannelInv
<1>7. permits' + Len(queue') + Cardinality(At(handlers', "granted")) =
        permits + Len(queue) + Cardinality(At(handlers, "granted"))
  <2>1. k \in Nat /\ permits \in Nat
    BY <1>2, <1>4 DEF ChannelInv
  <2>2. \A p, c \in Nat :
          (p + (n - k)) + (Len(queue) - n) + (c + k) = p + Len(queue) + c
    BY <1>2, <2>1
  <2>3. /\ permits' = permits + (n - k) /\ Len(queue') = Len(queue) - n
        /\ Cardinality(At(handlers', "granted")) =
             Cardinality(At(handlers, "granted")) + k
    BY <1>1, <1>2, <1>5
  <2>. QED BY <1>6, <2>1, <2>2, <2>3
<1>8. waiters' # <<>> => permits' = 0
  <2>1. SUFFICES ASSUME waiters' # <<>> PROVE permits' = 0
    OBVIOUS
  <2>2. Len(waiters') \in Nat \ {0}
    BY <1>5, <2>1, EmptySeq DEF Orderly
  <2>3. k = n /\ waiters # <<>>
    BY <1>4, <1>5, <2>2, EmptySeq
  <2>. QED BY <1>1, <1>2, <2>3 DEF ChannelInv, NoIdlePermit
<1>. QED BY <1>1, <1>2, <1>5, <1>6, <1>7, <1>8
         DEF ChannelInv, NoIdlePermit, LineOfWaiters, Orderly

\* An idle daemon with an empty channel.
FreshChannel ==
  /\ handlers = [h \in Handlers |-> Idle]
  /\ permits = QueueCap
  /\ waiters = <<>>
  /\ queue = <<>>

\* A daemon that has just started satisfies the channel's invariant.
LEMMA FreshChannelFact == FreshChannel => ChannelInv
<1> SUFFICES ASSUME FreshChannel PROVE ChannelInv
  OBVIOUS
<1>1. \A h \in Handlers : handlers[h] = Idle /\ handlers[h].pc = "idle"
  BY DEF FreshChannel, Idle, Request
<1>2. HandlersTyped(handlers)
  BY <1>1, IdleTyped DEF HandlersTyped, FreshChannel
<1>3. At(handlers, "waiting") = {} /\ At(handlers, "granted") = {}
  BY <1>1 DEF At
<1>4. Members(waiters) = {} /\ Distinct(waiters) /\ waiters \in Seq(Handlers)
  BY EmptySeq DEF Members, Distinct, FreshChannel
<1>5. queue \in Seq(Rec) /\ Len(queue) = 0 /\ permits = QueueCap /\ QueueCap \in Nat
  BY EmptySeq, PipelineAssumption DEF FreshChannel
<1>6. Cardinality(At(handlers, "granted")) = 0
  BY <1>3, FS_EmptySet
<1>7. permits + Len(queue) + Cardinality(At(handlers, "granted")) = QueueCap
  BY <1>5, <1>6
<1>8. waiters = <<>>
  BY DEF FreshChannel
<1>. QED BY <1>2, <1>3, <1>4, <1>5, <1>7, <1>8
         DEF ChannelInv, NoIdlePermit, LineOfWaiters

\* Every step keeps the channel's invariant.
LEMMA ChannelStep ==
  ASSUME ChannelInv, clock \in Nat, [Next]_vars
  PROVE  ChannelInv'
<1>1. ASSUME NEW h \in Handlers, Receive(h) PROVE ChannelInv'
  BY <1>1, ReceiveKeepsChannel
<1>2. ASSUME NEW h \in Handlers, Send(h) PROVE ChannelInv'
  BY <1>2, SendKeepsChannel
<1>3. ASSUME NEW h \in Handlers, Push(h) PROVE ChannelInv'
  BY <1>3, PushKeepsChannel
<1>4. ASSUME NEW h \in Handlers, Finish(h) PROVE ChannelInv'
  BY <1>4, FinishKeepsChannel
<1>5. ASSUME NEW h \in Handlers, Disconnect(h) PROVE ChannelInv'
  BY <1>5, DisconnectKeepsChannel
<1>6. CASE TakeBatch
  BY <1>6, TakeBatchKeepsChannel
<1>7. CASE Crash
  <2>1. FreshChannel'
    BY <1>7 DEF Crash, FreshChannel
  <2>. QED BY <2>1, FreshChannelFact, PTL
<1>8. CASE UNCHANGED <<handlers, channel>>
  BY <1>8 DEF ChannelInv, NoIdlePermit, LineOfWaiters, channel
<1>9. CASE BeginTx \/ UpsertNext \/ Commit \/ Rollback \/ WebhookRecv
  BY <1>8, <1>9 DEF BeginTx, UpsertNext, Commit, Rollback, WebhookRecv
<1>10. CASE Triage
  BY <1>8, <1>10 DEF Triage, PutStatus, PutStatusCutShort
<1>11. CASE Console
  BY <1>8, <1>11 DEF Console, CreateProject, CheckDelete, CheckRename,
                     DeleteProject, RenameProject
<1>12. CASE UNCHANGED vars
  BY <1>8, <1>12 DEF vars
<1>. QED BY <1>1, <1>2, <1>3, <1>4, <1>5, <1>6, <1>7, <1>9, <1>10, <1>11, <1>12
         DEF Next, Ingest, Abort, Digest

----------------------------------------------------------------------------
(***************************************************************************)
(* The digest task and the database                                        *)
(***************************************************************************)

Sound(d) == DbTyped(d) /\ KeysUnique(d) /\ EventsGrouped(d)

\* The buffer is empty while the task receives; its transaction works on the
\* database as it was at BEGIN, since nobody else writes while it is open.
DigestInv ==
  /\ dpc \in {"recv", "begin", "tx"}
  /\ batch \in Seq(Rec) /\ Len(batch) <= BatchSize
  /\ results \in Seq(RowResult) /\ Len(results) <= Len(batch)
  /\ dpc = "recv" => batch = <<>>
  /\ dpc # "tx" => results = <<>>
  /\ Sound(work)
  /\ Sound(db)
  /\ dpc = "tx" => Extends(work, db)

\* The database value the digest task does not touch stays as it was.
LEMMA DigestUnchanged ==
  ASSUME DigestInv, UNCHANGED digest, Sound(db'), dpc = "tx" => db' = db
  PROVE  DigestInv'
BY DEF DigestInv, digest

\* Taking a batch.
LEMMA TakeBatchDigest ==
  ASSUME ChannelInv, DigestInv, TakeBatch
  PROVE  DigestInv'
<1> DEFINE n == Smaller(Len(queue), BatchSize)
<1>1. /\ dpc = "recv" /\ dpc' = "begin" /\ batch' = SubSeq(queue, 1, n)
      /\ UNCHANGED <<work, results, db>>
  BY DEF TakeBatch
<1>2. /\ n \in Nat /\ n <= BatchSize
      /\ SubSeq(queue, 1, n) \in Seq(Rec) /\ Len(SubSeq(queue, 1, n)) = n
  BY TakeFact DEF ChannelInv
<1>3. results = <<>> /\ Len(results) = 0
  BY <1>1, EmptySeq DEF DigestInv
<1> HIDE DEF n
<1>. QED BY <1>1, <1>2, <1>3 DEF DigestInv

\* BEGIN.
LEMMA BeginTxDigest ==
  ASSUME DigestInv, BeginTx
  PROVE  DigestInv'
<1>1. Extends(db, db)
  BY DEF DigestInv, Sound, DbTyped, Extends
<1>. QED BY <1>1 DEF DigestInv, BeginTx

\* One statement of the transaction.
LEMMA UpsertNextDigest ==
  ASSUME DigestInv, UpsertNext
  PROVE  DigestInv'
<1> DEFINE r == batch[Len(results) + 1]
<1>1. /\ dpc = "tx" /\ Len(results) < Len(batch)
      /\ work' = Upserted(work, r)
      /\ results' = Append(results, UpsertResult(work, r))
      /\ UNCHANGED <<dpc, batch, db>>
  BY DEF UpsertNext
<1>2. Len(results) \in Nat /\ Len(batch) \in Nat
  BY LenProperties DEF DigestInv
<1>3. r \in Rec
  BY <1>1, <1>2, ElementOfSeq DEF DigestInv
<1> HIDE DEF r
<1>4. Sound(work')
  BY <1>1, <1>3, UpsertTyped, UpsertSound DEF DigestInv, Sound
<1>5. Extends(work', db')
  BY <1>1, <1>3, UpsertExtends DEF DigestInv, Sound
<1>6. UpsertResult(work, r) \in RowResult
  BY <1>3, UpsertResultTyped DEF DigestInv, Sound
<1>7. results' \in Seq(RowResult) /\ Len(results') = Len(results) + 1
  BY <1>1, <1>6, AppendProperties DEF DigestInv
<1>. QED BY <1>1, <1>2, <1>4, <1>5, <1>7 DEF DigestInv

\* The end of a batch, whichever way.
LEMMA EndBatchDigest ==
  ASSUME DigestInv, NEW outcome, EndBatch(outcome), Sound(db')
  PROVE  DigestInv'
<1>1. dpc' = "recv" /\ batch' = <<>> /\ results' = <<>> /\ work' = EmptyDb
  BY DEF EndBatch
<1>2. Sound(EmptyDb)
  BY EmptyDbSound DEF Sound
<1>3. Len(batch') = 0 /\ 0 <= BatchSize /\ Len(results') = 0
  BY <1>1, EmptySeq, PipelineAssumption
<1>4. batch' \in Seq(Rec) /\ results' \in Seq(RowResult)
  BY <1>1, EmptySeq
<1>. QED BY <1>1, <1>2, <1>3, <1>4 DEF DigestInv

\* Every step keeps the digest task's invariant.
LEMMA DigestStep ==
  ASSUME ChannelInv, DigestInv, AdminTyped, [Next]_vars
  PROVE  DigestInv'
<1>1. Sound(db) /\ Sound(work)
  BY DEF DigestInv
<1>2. CASE UNCHANGED <<digest, db>>
  BY <1>1, <1>2, DigestUnchanged
<1>3. CASE TakeBatch
  BY <1>3, TakeBatchDigest
<1>4. CASE BeginTx
  BY <1>4, BeginTxDigest
<1>5. CASE UpsertNext
  BY <1>5, UpsertNextDigest
<1>6. CASE Commit
  BY <1>1, <1>6, EndBatchDigest DEF Commit
<1>7. CASE Rollback
  BY <1>1, <1>7, EndBatchDigest DEF Rollback
<1>8. CASE Crash
  <2>1. Sound(EmptyDb)
    BY EmptyDbSound DEF Sound
  <2>2. /\ dpc' = "recv" /\ batch' = <<>> /\ results' = <<>> /\ work' = EmptyDb
        /\ db' = db
    BY <1>8 DEF Crash
  <2>3. Len(batch') = 0 /\ 0 <= BatchSize /\ Len(results') = 0
    BY <2>2, EmptySeq, PipelineAssumption
  <2>4. batch' \in Seq(Rec) /\ results' \in Seq(RowResult)
    BY <2>2, EmptySeq
  <2>. QED BY <1>1, <2>1, <2>2, <2>3, <2>4 DEF DigestInv
<1>9. ASSUME NEW i \in Live(db), NEW s \in Statuses,
             PutStatus(i, s) \/ PutStatusCutShort(i, s)
      PROVE  DigestInv'
  <2>1. db' = WithStatus(db, i, s) /\ UNCHANGED digest /\ dpc # "tx"
    BY <1>9 DEF PutStatus, PutStatusCutShort, ConnFree
  <2>2. Sound(db')
    BY <1>1, <2>1, WithStatusSound DEF Sound
  <2>. QED BY <2>1, <2>2, DigestUnchanged
<1>10. CASE DeleteProject
  <2>1. /\ db' = WithoutIssues(db, OfProject(db, admin.project))
        /\ UNCHANGED digest /\ dpc # "tx"
    BY <1>10 DEF DeleteProject, ConnFree
  <2>2. Sound(db')
    BY <1>1, <2>1, WithoutIssuesSound DEF Sound
  <2>. QED BY <2>1, <2>2, DigestUnchanged
<1>11. CASE RenameProject
  <2>1. UNCHANGED digest /\ dpc # "tx" /\ admin.op = "rename"
    BY <1>11 DEF RenameProject, ConnFree
  <2>2. admin.new \in Projects
    BY <2>1 DEF AdminTyped, NoAdmin
  <2>3. CASE db' = db
    BY <1>1, <2>1, <2>3, DigestUnchanged
  <2>4. CASE /\ db' = Moved(db, admin.project, admin.new)
             /\ ~MoveConflicts(db, admin.project, admin.new)
    <3>1. Sound(db')
      BY <1>1, <2>2, <2>4, MovedSound DEF Sound
    <3>. QED BY <2>1, <3>1, DigestUnchanged
  <2>. QED BY <1>11, <2>3, <2>4 DEF RenameProject
<1>12. CASE Ingest \/ Abort \/ WebhookRecv \/ UNCHANGED vars
  BY <1>2, <1>12 DEF Ingest, Receive, Send, Push, Finish, Abort, Disconnect,
                     WebhookRecv, vars, digest
<1>13. ASSUME NEW p \in Projects, NEW q \in Projects,
              CreateProject(p) \/ CheckDelete(p) \/ CheckRename(p, q)
       PROVE  DigestInv'
  BY <1>2, <1>13 DEF CreateProject, CheckDelete, CheckRename
<1>. QED BY <1>3, <1>4, <1>5, <1>6, <1>7, <1>8, <1>9, <1>10, <1>11, <1>12, <1>13
         DEF Next, Digest, Triage, Console

----------------------------------------------------------------------------
(***************************************************************************)
(* What the digest task publishes                                          *)
(***************************************************************************)

OutputInv ==
  /\ ViewTyped(fanout)
  /\ unsent \subseteq Nat \ {0}
  /\ webhooks \in Seq(Trigger) /\ Len(webhooks) <= WebhookCap

\* Applying a batch of messages to a view of rows gives a view of rows.
LEMMA BroadcastTyped ==
  ASSUME NEW view, ViewTyped(view), NEW msgs \in Seq(RowResult)
  PROVE  ViewTyped(Broadcast(view, msgs))
<1> DEFINE about(i) == {n \in DOMAIN msgs : msgs[n].id = i}
           last(i) == CHOOSE n \in about(i) : \A m \in about(i) : m <= n
           after == Broadcast(view, msgs)
           ids == {msgs[n].id : n \in DOMAIN msgs}
<1>1. DOMAIN msgs = 1 .. Len(msgs) /\ Len(msgs) \in Nat
  BY LenProperties
<1>2. \A n \in DOMAIN msgs : msgs[n] \in RowResult
  BY <1>1, ElementOfSeq
<1>3. \A n \in DOMAIN msgs : msgs[n].id \in Nat \ {0} /\ msgs[n].issue \in IssueRow
  BY <1>2 DEF RowResult
<1>4. after = [i \in DOMAIN view \cup ids |->
                 IF about(i) = {} THEN view[i] ELSE msgs[last(i)].issue]
  BY DEF Broadcast
<1>5. ASSUME NEW i \in DOMAIN view \cup ids
      PROVE  after[i] \in IssueRow
  <2>1. CASE about(i) = {}
    <3>1. i \in DOMAIN view
      BY <2>1
    <3>. QED BY <1>4, <2>1, <3>1 DEF ViewTyped
  <2>2. CASE about(i) # {}
    <3>1. about(i) \subseteq 1 .. Len(msgs)
      BY <1>1
    <3>2. \E n \in about(i) : \A m \in about(i) : m <= n
      BY <1>1, <2>2, <3>1, LastMember
    <3>3. last(i) \in about(i)
      BY <3>2
    <3>4. msgs[last(i)].issue \in IssueRow
      BY <1>3, <3>3
    <3>. QED BY <1>4, <2>2, <3>4
  <2>. QED BY <2>1, <2>2
<1>6. DOMAIN after = DOMAIN view \cup ids
  BY <1>4
<1>7. after \in [DOMAIN after -> IssueRow]
  BY <1>4, <1>5, <1>6
<1>8. DOMAIN after \subseteq Nat \ {0}
  BY <1>3, <1>6 DEF ViewTyped
<1>. QED BY <1>7, <1>8 DEF ViewTyped

\* What Offered adds to a channel: the first alerting results, as many as there
\* is room for.
LEMMA OfferedFact ==
  ASSUME NEW chan \in Seq(Trigger), Len(chan) <= WebhookCap,
         NEW rs \in Seq(RowResult)
  PROVE  LET alerting == {n \in DOMAIN rs : Alerting(rs[n])}
             room == Smaller(Cardinality(alerting), WebhookCap - Len(chan))
         IN
         /\ Offered(chan, rs) \in Seq(Trigger)
         /\ room \in Nat /\ Len(chan) \in Nat
         /\ Len(Offered(chan, rs)) = Len(chan) + room
         /\ Len(Offered(chan, rs)) <= WebhookCap
         /\ \A n \in 1 .. room :
              /\ Nth(alerting, n) \in alerting
              /\ Offered(chan, rs)[Len(chan) + n] = TriggerOf(rs[Nth(alerting, n)])
         /\ \A m, n \in 1 .. room : Nth(alerting, m) = Nth(alerting, n) => m = n
<1> DEFINE alerting == {n \in DOMAIN rs : Alerting(rs[n])}
           room == Smaller(Cardinality(alerting), WebhookCap - Len(chan))
           more == [n \in 1 .. room |-> TriggerOf(rs[Nth(alerting, n)])]
<1>1. DOMAIN rs = 1 .. Len(rs) /\ Len(rs) \in Nat /\ Len(chan) \in Nat
  BY LenProperties
<1>2. alerting \subseteq 1 .. Len(rs) /\ Cardinality(alerting) \in Nat
  BY <1>1, UpToFinite
<1>3. /\ room \in Nat /\ room <= Cardinality(alerting)
      /\ room <= WebhookCap - Len(chan)
  BY <1>1, <1>2, PipelineAssumption DEF Smaller
<1> HIDE DEF room
<1>4. ASSUME NEW n \in 1 .. room
      PROVE  /\ Nth(alerting, n) \in alerting
             /\ Cardinality(UpTo(alerting, Nth(alerting, n))) = n
             /\ TriggerOf(rs[Nth(alerting, n)]) \in Trigger
  <2>1. n \in 1 .. Cardinality(alerting)
    BY <1>2, <1>3
  <2>2. Nth(alerting, n) \in alerting /\ Cardinality(UpTo(alerting, Nth(alerting, n))) = n
    BY <1>1, <1>2, <2>1, NthFact
  <2>3. rs[Nth(alerting, n)] \in RowResult
    BY <1>1, <1>2, <2>2, ElementOfSeq
  <2>. QED BY <2>2, <2>3 DEF TriggerOf, Trigger, RowResult
<1>5. more \in Seq(Trigger) /\ Len(more) = room
  <2>1. more \in [1 .. room -> Trigger]
    BY <1>4
  <2>2. more \in Seq(Trigger)
    BY <1>3, <2>1, SeqDef
  <2>3. DOMAIN more = 1 .. Len(more) /\ Len(more) \in Nat
    BY <2>2, LenProperties
  <2>4. DOMAIN more = 1 .. room
    BY <2>1
  <2>. QED BY <1>3, <2>2, <2>3, <2>4
<1>6. /\ \A n \in 1 .. room : /\ Nth(alerting, n) \in alerting
                               /\ more[n] = TriggerOf(rs[Nth(alerting, n)])
      /\ \A m, n \in 1 .. room : Nth(alerting, m) = Nth(alerting, n) => m = n
  BY <1>4
<1>7. Offered(chan, rs) = chan \o more
  BY DEF Offered, room
<1> HIDE DEF more, alerting
<1>8. /\ chan \o more \in Seq(Trigger) /\ Len(chan \o more) = Len(chan) + room
      /\ \A i \in 1 .. Len(chan) + Len(more) :
           (chan \o more)[i] = IF i <= Len(chan) THEN chan[i] ELSE more[i - Len(chan)]
  BY <1>5, ConcatProperties
<1>9. \A n \in 1 .. room : (chan \o more)[Len(chan) + n] = more[n]
  BY <1>1, <1>3, <1>5, <1>8
<1>10. Len(chan) + room <= WebhookCap
  BY <1>1, <1>3, PipelineAssumption
<1>. QED BY <1>1, <1>3, <1>6, <1>7, <1>8, <1>9, <1>10 DEF room, alerting

\* A view that learns a row under an id stays a view of rows.
LEMMA AssignTyped ==
  ASSUME NEW view, ViewTyped(view), NEW i \in Nat \ {0}, NEW row \in IssueRow
  PROVE  ViewTyped(Assign(view, i, row))
BY DEF ViewTyped, Assign

\* Every step keeps what is published typed and bounded.
LEMMA OutputStep ==
  ASSUME DigestInv, OutputInv, DigestInv', [Next]_vars
  PROVE  OutputInv'
<1>1. CASE UNCHANGED output
  BY <1>1 DEF OutputInv, output
<1>2. CASE Commit
  <2>1. /\ webhooks' = Offered(webhooks, results) /\ fanout' = Broadcast(fanout, results)
        /\ unsent' \subseteq unsent
    BY <1>2 DEF Commit
  <2>. QED BY <2>1, BroadcastTyped, OfferedFact DEF OutputInv, DigestInv
<1>3. CASE WebhookRecv
  <2>1. webhooks # <<>> /\ webhooks' = Tail(webhooks) /\ UNCHANGED <<fanout, unsent>>
    BY <1>3 DEF WebhookRecv
  <2>2. webhooks' \in Seq(Trigger) /\ Len(webhooks') = Len(webhooks) - 1
    BY <2>1, HeadTailProperties DEF OutputInv
  <2>3. Len(webhooks) \in Nat
    BY LenProperties DEF OutputInv
  <2>. QED BY <2>1, <2>2, <2>3, PipelineAssumption DEF OutputInv
<1>4. ASSUME NEW i \in Live(db), NEW s \in Statuses, PutStatus(i, s)
      PROVE  OutputInv'
  <2>1. /\ fanout' = Assign(fanout, i, db'.issues[i]) /\ webhooks' = webhooks
        /\ unsent' \subseteq unsent
        /\ db' = WithStatus(db, i, s)
    BY <1>4 DEF PutStatus
  <2>2. i \in Nat \ {0}
    BY DEF DigestInv, Sound, DbTyped
  <2>3. i \in Live(db')
    <3>1. Live(WithStatus(db, i, s)) = Live(db)
      BY DEF WithStatus, Db, Live
    <3>. QED BY <2>1, <3>1
  <2>4. db'.issues[i] \in IssueRow
    BY <2>3 DEF DigestInv, Sound, DbTyped
  <2>. QED BY <2>1, <2>2, <2>4, AssignTyped DEF OutputInv
<1>5. CASE Crash
  <2>1. fanout' = NoRows /\ unsent' = {} /\ webhooks' = <<>>
    BY <1>5 DEF Crash
  <2>2. ViewTyped(NoRows)
    BY DEF ViewTyped, NoRows
  <2>. QED BY <2>1, <2>2, EmptySeq, PipelineAssumption DEF OutputInv
<1>6. CASE \/ Ingest \/ Abort \/ TakeBatch \/ BeginTx \/ UpsertNext \/ Rollback
           \/ UNCHANGED vars
  BY <1>1, <1>6 DEF Ingest, Receive, Send, Push, Finish, Abort, Disconnect, TakeBatch,
                    BeginTx, UpsertNext, Rollback, vars
<1>7. CASE Console
  BY <1>1, <1>7 DEF Console, CreateProject, CheckDelete, CheckRename, DeleteProject,
                    RenameProject
<1>8. ASSUME NEW i \in Live(db), NEW s \in Statuses, PutStatusCutShort(i, s)
      PROVE  OutputInv'
  <2>1. UNCHANGED <<fanout, webhooks>> /\ unsent' = unsent \cup {i}
    BY <1>8 DEF PutStatusCutShort
  <2>2. i \in Nat \ {0}
    BY DEF DigestInv, Sound, DbTyped
  <2>. QED BY <2>1, <2>2 DEF OutputInv
<1>. QED BY <1>2, <1>3, <1>4, <1>5, <1>6, <1>7, <1>8 DEF Next, Digest, Triage

----------------------------------------------------------------------------
(***************************************************************************)
(* Counters, clock, names and the console                                  *)
(***************************************************************************)

ConsoleInv ==
  /\ clock \in Nat
  /\ registered \subseteq Projects
  /\ AdminTyped
  /\ tally \in [{"accepted", "settled", "dropped"} -> Nat]
  /\ spent \in [Outside -> Nat]

\* Counting keeps the counters counters.
LEMMA CountTyped ==
  ASSUME tally \in [{"accepted", "settled", "dropped"} -> Nat],
         NEW kind \in {"accepted", "settled", "dropped"}, NEW n \in Nat,
         Count(kind, n)
  PROVE  tally' \in [{"accepted", "settled", "dropped"} -> Nat]
BY DEF Count

\* Spending keeps the budget's use a count.
LEMMA SpendTyped ==
  ASSUME spent \in [Outside -> Nat], NEW kind \in Outside, Spend(kind)
  PROVE  spent' \in [Outside -> Nat]
BY DEF Spend

\* Every step keeps counters, clock, names and the console typed.
LEMMA ConsoleStep ==
  ASSUME ConsoleInv, DigestInv, [Next]_vars
  PROVE  ConsoleInv'
<1>1. Len(batch) \in Nat
  BY LenProperties DEF DigestInv
<1>2. ASSUME NEW h \in Handlers, Receive(h) PROVE ConsoleInv'
  <2>1. PICK envelope \in SeqUpTo(EventIds, MaxEnvelope) :
          spent' = [spent EXCEPT !["event"] = @ + Len(envelope)]
    BY <1>2 DEF Receive
  <2>2. Len(envelope) \in Nat
    BY EnvelopeTyped, LenProperties
  <2>3. spent' \in [Outside -> Nat]
    BY <2>1, <2>2 DEF ConsoleInv, Outside
  <2>. QED BY <1>2, <2>3 DEF Receive, ConsoleInv, AdminTyped
<1>3. ASSUME NEW h \in Handlers, Send(h) PROVE ConsoleInv'
  <2>1. tally' = tally \/ Count("accepted", 1)
    BY <1>3 DEF Send
  <2>2. tally' \in [{"accepted", "settled", "dropped"} -> Nat]
    BY <2>1, CountTyped DEF ConsoleInv
  <2>. QED BY <1>3, <2>2 DEF Send, ConsoleInv, AdminTyped
<1>4. ASSUME NEW h \in Handlers, Push(h) PROVE ConsoleInv'
  BY <1>4, CountTyped DEF Push, ConsoleInv, AdminTyped
<1>5. ASSUME NEW h \in Handlers, Finish(h) PROVE ConsoleInv'
  BY <1>5 DEF Finish, ConsoleInv, AdminTyped
<1>6. ASSUME NEW h \in Handlers, Disconnect(h) PROVE ConsoleInv'
  BY <1>6, SpendTyped DEF Disconnect, ConsoleInv, AdminTyped, Outside
<1>7. CASE TakeBatch \/ BeginTx \/ UpsertNext \/ WebhookRecv \/ UNCHANGED vars
  BY <1>7 DEF TakeBatch, BeginTx, UpsertNext, WebhookRecv, vars, ConsoleInv, AdminTyped
<1>8. CASE Commit
  BY <1>1, <1>8, CountTyped DEF Commit, EndBatch, ConsoleInv, AdminTyped
<1>9. CASE Rollback
  BY <1>1, <1>9, CountTyped, SpendTyped
     DEF Rollback, EndBatch, ConsoleInv, AdminTyped, Outside
<1>10. ASSUME NEW i \in Live(db), NEW s \in Statuses, PutStatus(i, s)
       PROVE  ConsoleInv'
  BY <1>10, SpendTyped DEF PutStatus, ConsoleInv, AdminTyped, Outside
<1>11. ASSUME NEW i \in Live(db), NEW s \in Statuses, PutStatusCutShort(i, s)
       PROVE  ConsoleInv'
  <2>1. spent' \in [Outside -> Nat]
    BY <1>11 DEF PutStatusCutShort, ConsoleInv, Outside
  <2>. QED BY <1>11, <2>1 DEF PutStatusCutShort, ConsoleInv, AdminTyped
<1>12. ASSUME NEW p \in Projects, CreateProject(p) \/ CheckDelete(p)
       PROVE  ConsoleInv'
  BY <1>12, SpendTyped
     DEF CreateProject, CheckDelete, ConsoleInv, AdminTyped, NoAdmin, Outside
<1>13. ASSUME NEW p \in Projects, NEW q \in Projects, CheckRename(p, q)
       PROVE  ConsoleInv'
  BY <1>13, SpendTyped DEF CheckRename, ConsoleInv, AdminTyped, NoAdmin, Outside
<1>14. CASE DeleteProject
  BY <1>14 DEF DeleteProject, ConsoleInv, AdminTyped, NoAdmin
<1>15. CASE RenameProject
  <2>1. admin.new \in Projects
    BY <1>15 DEF RenameProject, ConsoleInv, AdminTyped, NoAdmin
  <2>2. registered' \subseteq Projects
    BY <1>15, <2>1 DEF RenameProject, ConsoleInv
  <2>. QED BY <1>15, <2>2 DEF RenameProject, ConsoleInv, AdminTyped, NoAdmin
<1>16. CASE Crash
  BY <1>16, SpendTyped DEF Crash, ConsoleInv, AdminTyped, NoAdmin, Outside
<1>. QED BY <1>2, <1>3, <1>4, <1>5, <1>6, <1>7, <1>8, <1>9, <1>10, <1>11, <1>12,
            <1>13, <1>14, <1>15, <1>16
         DEF Next, Ingest, Abort, Digest, Triage, Console

----------------------------------------------------------------------------
(***************************************************************************)
(* Accounting                                                              *)
(***************************************************************************)

\* Adding one to a counter.
LEMMA CountFact ==
  ASSUME tally \in [{"accepted", "settled", "dropped"} -> Nat],
         NEW kind \in {"accepted", "settled", "dropped"}, NEW n \in Nat,
         Count(kind, n)
  PROVE  \A other \in {"accepted", "settled", "dropped"} :
           tally'[other] = IF other = kind THEN tally[kind] + n ELSE tally[other]
BY DEF Count

\* Every step keeps the books balanced.
LEMMA AccountingStep ==
  ASSUME ChannelInv, DigestInv, ConsoleInv, NothingUnaccounted, [Next]_vars
  PROVE  NothingUnaccounted'
<1>1. /\ Len(batch) \in Nat /\ Len(queue) \in Nat
      /\ tally \in [{"accepted", "settled", "dropped"} -> Nat]
  BY LenProperties DEF DigestInv, ChannelInv, ConsoleInv
<1>2. CASE UNCHANGED <<queue, batch, tally>>
  BY <1>2 DEF NothingUnaccounted
<1>3. ASSUME NEW rec \in Rec, queue' = Append(queue, rec), Count("accepted", 1),
             batch' = batch
      PROVE  NothingUnaccounted'
  <2>1. Len(queue') = Len(queue) + 1
    BY <1>3, AppendProperties DEF ChannelInv
  <2>2. /\ tally'["accepted"] = tally["accepted"] + 1
        /\ tally'["settled"] = tally["settled"]
        /\ tally'["dropped"] = tally["dropped"]
    BY <1>1, <1>3, CountFact
  <2>. QED BY <1>1, <1>3, <2>1, <2>2 DEF NothingUnaccounted
<1>4. ASSUME NEW h \in Handlers, Send(h) PROVE NothingUnaccounted'
  <2> DEFINE rec == [eid |-> Head(handlers[h].todo),
                     project |-> handlers[h].project, at |-> clock + 1]
  <2>1. rec \in Rec
    <3>1. /\ handlers[h] \in HandlerState /\ handlers[h].pc = "sending"
          /\ handlers[h].todo # <<>>
      BY <1>4 DEF Send, ChannelInv, HandlersTyped
    <3>2. handlers[h].project \in Projects /\ handlers[h].todo \in Seq(EventIds)
      BY <3>1 DEF ChannelInv, HandlersTyped, HandlerState
    <3>3. Head(handlers[h].todo) \in EventIds
      BY <3>1, <3>2, HeadTailProperties
    <3>. QED BY <3>2, <3>3 DEF Rec, ConsoleInv
  <2>2. \/ queue' = Append(queue, rec) /\ Count("accepted", 1)
        \/ UNCHANGED <<queue, tally>>
    BY <1>4 DEF Send
  <2>3. batch' = batch
    BY <1>4 DEF Send, digest
  <2> HIDE DEF rec
  <2>. QED BY <1>2, <1>3, <2>1, <2>2, <2>3
<1>5. ASSUME NEW h \in Handlers, Push(h) PROVE NothingUnaccounted'
  <2>1. handlers[h].rec \in Rec
    BY <1>5 DEF Push, ChannelInv, HandlersTyped
  <2>. QED BY <1>3, <1>5, <2>1 DEF Push, digest
<1>6. CASE TakeBatch
  <2> DEFINE n == Smaller(Len(queue), BatchSize)
  <2>1. /\ batch' = SubSeq(queue, 1, n) /\ queue' = SubSeq(queue, n + 1, Len(queue))
        /\ dpc = "recv" /\ tally' = tally
    BY <1>6 DEF TakeBatch
  <2>2. n \in Nat /\ Len(batch') = n /\ Len(queue') = Len(queue) - n
    BY <2>1, TakeFact DEF ChannelInv
  <2>3. Len(batch) = 0
    BY <2>1, EmptySeq DEF DigestInv
  <2> HIDE DEF n
  <2>4. Len(queue') + Len(batch') = Len(queue) + Len(batch)
    BY <1>1, <2>2, <2>3
  <2>. QED BY <2>1, <2>4 DEF NothingUnaccounted
<1>7. ASSUME NEW outcome \in {"settled", "dropped"}, EndBatch(outcome), queue' = queue
      PROVE  NothingUnaccounted'
  <2>1. batch' = <<>> /\ Len(batch') = 0 /\ Count(outcome, Len(batch))
    BY <1>7, EmptySeq DEF EndBatch
  <2>2. \A other \in {"accepted", "settled", "dropped"} :
          tally'[other] = IF other = outcome THEN tally[outcome] + Len(batch)
                                             ELSE tally[other]
    BY <1>1, <2>1, CountFact
  <2>. QED BY <1>1, <1>7, <2>1, <2>2 DEF NothingUnaccounted
<1>8. CASE Commit
  BY <1>7, <1>8 DEF Commit, channel
<1>9. CASE Rollback
  BY <1>7, <1>9 DEF Rollback, channel
<1>10. CASE Crash
  <2>1. /\ queue' = <<>> /\ batch' = <<>>
        /\ tally' = [accepted |-> 0, settled |-> 0, dropped |-> 0]
    BY <1>10 DEF Crash
  <2>2. Len(queue') = 0 /\ Len(batch') = 0
    BY <2>1, EmptySeq
  <2>. QED BY <2>1, <2>2 DEF NothingUnaccounted
<1>11. CASE BeginTx \/ UpsertNext \/ WebhookRecv \/ Abort \/ UNCHANGED vars
  BY <1>2, <1>11 DEF BeginTx, UpsertNext, WebhookRecv, Abort, Disconnect, vars,
                     channel, digest
<1>12. CASE Triage \/ Console
  <2>1. CASE Triage
    <3>1. PICK i \in Live(db), s \in Statuses :
            PutStatus(i, s) \/ PutStatusCutShort(i, s)
      BY <2>1 DEF Triage
    <3>2. UNCHANGED <<queue, batch, tally>>
      BY <3>1 DEF PutStatus, PutStatusCutShort, channel, digest
    <3>. QED BY <1>2, <3>2
  <2>2. CASE Console
    <3>1. UNCHANGED <<queue, batch, tally>>
      BY <2>2 DEF Console, CreateProject, CheckDelete, CheckRename,
                  DeleteProject, RenameProject, channel, digest
    <3>. QED BY <1>2, <3>1
  <2>. QED BY <1>12, <2>1, <2>2
<1>13. ASSUME NEW h \in Handlers, Receive(h) \/ Finish(h) PROVE NothingUnaccounted'
  BY <1>2, <1>13 DEF Receive, Finish, channel, digest
<1>. QED BY <1>4, <1>5, <1>6, <1>8, <1>9, <1>10, <1>11, <1>12, <1>13
         DEF Next, Ingest, Digest

----------------------------------------------------------------------------
(***************************************************************************)
(* Theorems                                                                *)
(***************************************************************************)

\* The inductive invariant.
Inv == ChannelInv /\ DigestInv /\ OutputInv /\ ConsoleInv /\ NothingUnaccounted

\* A fresh daemon on an empty database satisfies it.
LEMMA InvInit == Init => Inv
<1> SUFFICES ASSUME Init PROVE Inv
  OBVIOUS
<1>1. ChannelInv
  BY FreshChannelFact DEF Init, FreshChannel
<1>2. Len(<<>>) = 0 /\ <<>> \in Seq(Rec) /\ <<>> \in Seq(RowResult)
      /\ <<>> \in Seq(Trigger)
  BY EmptySeq
<1>3. DigestInv
  BY <1>2, EmptyDbSound, PipelineAssumption DEF Init, DigestInv, Sound
<1>4. OutputInv
  BY <1>2, PipelineAssumption DEF Init, OutputInv, ViewTyped, NoRows
<1>5. ConsoleInv
  BY DEF Init, ConsoleInv, AdminTyped
<1>6. NothingUnaccounted
  BY <1>2 DEF Init, NothingUnaccounted
<1>. QED BY <1>1, <1>3, <1>4, <1>5, <1>6 DEF Inv

\* Every step keeps it.
LEMMA InvStep == Inv /\ [Next]_vars => Inv'
<1> SUFFICES ASSUME Inv, [Next]_vars PROVE Inv'
  OBVIOUS
<1>1. ChannelInv'
  BY ChannelStep DEF Inv, ConsoleInv
<1>2. DigestInv'
  BY DigestStep DEF Inv, ConsoleInv
<1>3. OutputInv'
  BY <1>2, OutputStep DEF Inv
<1>4. ConsoleInv'
  BY ConsoleStep DEF Inv
<1>5. NothingUnaccounted'
  BY AccountingStep DEF Inv
<1>. QED BY <1>1, <1>2, <1>3, <1>4, <1>5 DEF Inv

\* So it holds for ever.
LEMMA InvAlways == Spec => []Inv
BY InvInit, InvStep, PTL DEF Spec

\* Type correctness and the bounds of the ingest channel, the batch and the
\* webhook channel, for any number of handlers, projects and events.
THEOREM TypeCorrect == Spec => []TypeOK
<1>1. Inv => TypeOK
  <2> SUFFICES ASSUME Inv PROVE TypeOK
    OBVIOUS
  <2>1. permits \in 0 .. QueueCap /\ Len(queue) <= QueueCap
    BY ChannelBounds DEF Inv
  <2>. QED BY <2>1 DEF Inv, ChannelInv, DigestInv, OutputInv, ConsoleInv, Sound, TypeOK
<1>. QED BY <1>1, InvAlways, PTL

\* No place in the ingest channel is ever lost, whatever requests are aborted
\* and whenever: no waiting handler is forgotten while there is room.
THEOREM PermitsConserved == Spec => []NoIdlePermit
<1>1. Inv => NoIdlePermit
  BY DEF Inv, ChannelInv
<1>. QED BY <1>1, InvAlways, PTL

\* No event that was accepted is taken twice or left behind.
THEOREM EventsAccountedFor == Spec => []NothingUnaccounted
<1>1. Inv => NothingUnaccounted
  BY DEF Inv
<1>. QED BY <1>1, InvAlways, PTL

\* Ingest, triage, rename and delete keep one issue per project and
\* fingerprint, and every event under an issue of its fingerprint.
THEOREM GroupingAlwaysSound == Spec => []GroupingSound
<1>1. Inv => GroupingSound
  BY DEF Inv, DigestInv, Sound, GroupingSound
<1>. QED BY <1>1, InvAlways, PTL

\* A deleted issue's id never names an issue again, even when its project was
\* deleted while the digest task held a batch about it.
THEOREM DeletedStaysDeleted == Spec => DeadIdsStayDead
<1> DEFINE Dead == \A i \in 1 .. (db.nextId - 1) : i \notin Live(db) => i \notin Live(db)'
<1>1. Inv /\ [Next]_vars => [Dead]_vars
  <2> SUFFICES ASSUME Inv, [Next]_vars PROVE Dead \/ UNCHANGED vars
    OBVIOUS
  <2>1. CASE db' = db
    BY <2>1 DEF Live
  <2>2. CASE Commit
    <3>1. db' = work /\ Extends(work, db)
      BY <2>2 DEF Commit, Inv, DigestInv
    <3>2. db.nextId \in Nat
      BY DEF Inv, DigestInv, Sound, DbTyped
    <3>. QED BY <3>1, <3>2 DEF Extends, Live
  <2>3. ASSUME NEW i \in Live(db), NEW s \in Statuses,
               PutStatus(i, s) \/ PutStatusCutShort(i, s)
        PROVE  Dead
    <3>1. db' = WithStatus(db, i, s)
      BY <2>3 DEF PutStatus, PutStatusCutShort
    <3>. QED BY <3>1 DEF WithStatus, Db, Live
  <2>4. CASE DeleteProject
    <3>1. db' = WithoutIssues(db, OfProject(db, admin.project))
      BY <2>4 DEF DeleteProject
    <3>. QED BY <3>1 DEF WithoutIssues, Keep, Db, Live
  <2>5. CASE RenameProject
    <3>1. db' = db \/ db' = Moved(db, admin.project, admin.new)
      BY <2>5 DEF RenameProject
    <3>. QED BY <3>1 DEF Moved, Db, Live
  <2>6. CASE \/ Ingest \/ Abort \/ TakeBatch \/ BeginTx \/ UpsertNext \/ Rollback
             \/ WebhookRecv \/ Crash \/ UNCHANGED vars
    BY <2>1, <2>6 DEF Ingest, Receive, Send, Push, Finish, Abort, Disconnect, TakeBatch,
                      BeginTx, UpsertNext, Rollback, WebhookRecv, Crash, vars
  <2>7. ASSUME NEW p \in Projects, NEW q \in Projects,
               CreateProject(p) \/ CheckDelete(p) \/ CheckRename(p, q)
        PROVE  Dead
    BY <2>1, <2>7 DEF CreateProject, CheckDelete, CheckRename
  <2>. QED BY <2>2, <2>3, <2>4, <2>5, <2>6, <2>7 DEF Next, Digest, Triage, Console
<1>. QED BY <1>1, InvAlways, PTL DEF Spec, DeadIdsStayDead

----------------------------------------------------------------------------
(***************************************************************************)
(* The open transaction                                                    *)
(***************************************************************************)

\* A step that neither the digest task, the database nor its clients see.
Unseen == UNCHANGED <<db, digest, fanout, unsent>> /\ tally'["settled"] = tally["settled"]

\* A status change, sent to the clients or not.
StatusChange ==
  \E i \in Live(db), s \in Statuses : PutStatus(i, s) \/ PutStatusCutShort(i, s)

\* The steps that are seen.
LEMMA SeenSteps ==
  ASSUME ConsoleInv, [Next]_vars
  PROVE  \/ Unseen
         \/ TakeBatch \/ BeginTx \/ UpsertNext \/ Commit \/ Rollback
         \/ StatusChange \/ DeleteProject \/ RenameProject
         \/ Crash
<1>1. ASSUME NEW h \in Handlers, Send(h) \/ Push(h) PROVE Unseen
  <2>1. tally' = tally \/ Count("accepted", 1)
    BY <1>1 DEF Send, Push
  <2>2. tally'["settled"] = tally["settled"]
    BY <2>1, CountFact DEF ConsoleInv
  <2>. QED BY <1>1, <2>2 DEF Unseen, Send, Push, output
<1>2. ASSUME NEW h \in Handlers, Receive(h) \/ Finish(h) \/ Disconnect(h) PROVE Unseen
  BY <1>2 DEF Unseen, Receive, Finish, Disconnect, output
<1>3. CASE WebhookRecv \/ UNCHANGED vars
  BY <1>3 DEF Unseen, WebhookRecv, vars, output
<1>4. ASSUME NEW p \in Projects, NEW q \in Projects,
             CreateProject(p) \/ CheckDelete(p) \/ CheckRename(p, q)
      PROVE  Unseen
  BY <1>4 DEF Unseen, CreateProject, CheckDelete, CheckRename, output
<1>. QED BY <1>1, <1>2, <1>3, <1>4
         DEF Next, Ingest, Abort, Digest, Triage, Console, StatusChange

\* Nothing outside the transaction writes while it is open.
LEMMA OthersWait ==
  ASSUME StatusChange \/ DeleteProject \/ RenameProject
  PROVE  dpc # "tx" /\ UNCHANGED digest
BY DEF StatusChange, PutStatus, PutStatusCutShort, DeleteProject, RenameProject, ConnFree

\* The event the next statement is about, and the statement.
LEMMA UpsertNextFact ==
  ASSUME DigestInv, UpsertNext
  PROVE  LET r == batch[Len(results) + 1] IN
         /\ r \in Rec
         /\ Len(results) \in Nat /\ Len(results) + 1 <= Len(batch)
         /\ dpc = "tx"
         /\ work' = Upserted(work, r)
         /\ results' = Append(results, UpsertResult(work, r))
         /\ UNCHANGED <<dpc, batch, db, fanout, unsent, tally>>
<1>1. Len(results) \in Nat /\ Len(batch) \in Nat
  BY LenProperties DEF DigestInv
<1>2. Len(results) < Len(batch)
  BY DEF UpsertNext
<1>3. Len(results) + 1 \in 1 .. Len(batch)
  BY <1>1, <1>2
<1>4. batch[Len(results) + 1] \in Rec
  BY <1>3, ElementOfSeq DEF DigestInv
<1>. QED BY <1>1, <1>3, <1>4 DEF UpsertNext, output

\* Counts cover events in the committed database and in the transaction's, and
\* the transaction has recorded occurrences and nothing else.
TxInv ==
  /\ Covered(db)
  /\ dpc = "tx" => Covered(work) /\ Builds(work, db)

\* Every step keeps it.
LEMMA TxStep ==
  ASSUME Inv, TxInv, [Next]_vars
  PROVE  TxInv'
<1> USE DEF TxInv
<1>1. CASE Unseen
  BY <1>1 DEF Unseen, digest
<1>2. CASE TakeBatch
  BY <1>2 DEF TakeBatch
<1>3. CASE BeginTx
  BY <1>3, BuildsItself DEF BeginTx
<1>4. CASE UpsertNext
  BY <1>4, UpsertNextFact, UpsertCovered, UpsertBuilds DEF Inv, DigestInv, Sound
<1>5. CASE Commit
  BY <1>5 DEF Commit, EndBatch
<1>6. CASE Rollback
  BY <1>6 DEF Rollback, EndBatch
<1>7. CASE StatusChange
  <2>1. PICK i \in Live(db), s \in Statuses : db' = WithStatus(db, i, s)
    BY <1>7 DEF StatusChange, PutStatus, PutStatusCutShort
  <2>. QED BY <1>7, <2>1, OthersWait, StatementsCovered DEF Inv, DigestInv, Sound, digest
<1>8. CASE DeleteProject
  <2>1. db' = WithoutIssues(db, OfProject(db, admin.project))
    BY <1>8 DEF DeleteProject
  <2>. QED BY <1>8, <2>1, OthersWait, StatementsCovered DEF Inv, DigestInv, Sound, digest
<1>9. CASE RenameProject
  <2>1. db' = db \/ db' = Moved(db, admin.project, admin.new)
    BY <1>9 DEF RenameProject
  <2>. QED BY <1>9, <2>1, OthersWait, StatementsCovered DEF Inv, DigestInv, Sound, digest
<1>10. CASE Crash
  BY <1>10 DEF Crash
<1>. QED BY <1>1, <1>2, <1>3, <1>4, <1>5, <1>6, <1>7, <1>8, <1>9, <1>10, SeenSteps DEF Inv

\* So it holds for ever.
LEMMA TxAlways == Spec => []TxInv
<1>1. Init => TxInv
  <2>1. Stored(EmptyDb) = {} /\ Live(EmptyDb) = {}
    BY DEF EmptyDb, Db, NoRows, Stored, Live
  <2>. QED BY <2>1, FS_EmptySet DEF Init, TxInv, Covered, CountsCover
<1>. QED BY <1>1, TxStep, InvAlways, PTL DEF Spec

\* No issue ever shows fewer occurrences than it stores events, whatever is
\* triaged, renamed or deleted between whatever batches.
THEOREM CountsAlwaysCover == Spec => []CountsCoverEvents
<1>1. TxInv => CountsCoverEvents
  BY DEF TxInv, Covered, CountsCoverEvents
<1>. QED BY <1>1, TxAlways, PTL

\* A batch leaves every issue it counts in the status an operator last gave it,
\* reopened if that was "resolved": no decision is overwritten by a transaction
\* that was open when it was taken.
THEOREM TriageAlwaysKept == Spec => IngestKeepsTriage
<1>1. Inv /\ TxInv /\ [Next]_vars => [KeepsTriage]_vars
  <2> SUFFICES ASSUME Inv, TxInv, [Next]_vars PROVE KeepsTriage
    OBVIOUS
  <2>1. ASSUME \A i \in Live(db) \cap Live(db)' : db'.issues[i].count = db.issues[i].count
        PROVE  KeepsTriage
    BY <2>1 DEF KeepsTriage, Counted
  <2>2. CASE db' = db
    BY <2>1, <2>2
  <2>3. CASE Commit
    <3>1. db' = work /\ Builds(work, db)
      BY <2>3 DEF Commit, TxInv
    <3>. QED BY <3>1 DEF Builds, After, Reopened, KeepsTriage, Counted
  <2>4. CASE StatusChange
    <3>1. PICK i \in Live(db), s \in Statuses : db' = WithStatus(db, i, s)
      BY <2>4 DEF StatusChange, PutStatus, PutStatusCutShort
    <3>2. db'.issues = [db.issues EXCEPT ![i].status = s]
      BY <3>1 DEF WithStatus, Db
    <3>. QED BY <2>1, <3>2 DEF Inv, DigestInv, Sound, DbTyped, IssueRow, Live
  <2>5. CASE DeleteProject
    <3>1. db' = WithoutIssues(db, OfProject(db, admin.project))
      BY <2>5 DEF DeleteProject
    <3>. QED BY <2>1, <3>1 DEF WithoutIssues, Keep, Db, Live
  <2>6. CASE db' = Moved(db, admin.project, admin.new)
    BY <2>1, <2>6 DEF Moved, Db, Live, Inv, DigestInv, Sound, DbTyped, IssueRow
  <2>. QED BY <2>2, <2>3, <2>4, <2>5, <2>6, SeenSteps
           DEF Inv, Unseen, TakeBatch, BeginTx, UpsertNext, Rollback, Crash, RenameProject
<1>. QED BY <1>1, InvAlways, TxAlways, PTL DEF Spec, IngestKeepsTriage

----------------------------------------------------------------------------
(***************************************************************************)
(* What the clients hold                                                   *)
(***************************************************************************)

\* No messages change nothing.
LEMMA BroadcastNone ==
  ASSUME NEW view, ViewTyped(view)
  PROVE  Broadcast(view, <<>>) = view
<1>1. DOMAIN <<>> = {}
  OBVIOUS
<1>2. Broadcast(view, <<>>) = [i \in DOMAIN view |-> view[i]]
  BY <1>1 DEF Broadcast
<1>. QED BY <1>2 DEF ViewTyped

\* One message more sets one row.
LEMMA BroadcastOneMore ==
  ASSUME NEW view, NEW msgs \in Seq(RowResult), NEW msg \in RowResult
  PROVE  Broadcast(view, Append(msgs, msg)) =
           Assign(Broadcast(view, msgs), msg.id, msg.issue)
<1> DEFINE more == Append(msgs, msg)
           n == Len(msgs)
           about(i) == {k \in DOMAIN msgs : msgs[k].id = i}
           aboutMore(i) == {k \in DOMAIN more : more[k].id = i}
           last(i) == CHOOSE k \in about(i) : \A m \in about(i) : m <= k
           lastMore(i) == CHOOSE k \in aboutMore(i) : \A m \in aboutMore(i) : m <= k
           ids == {msgs[k].id : k \in DOMAIN msgs}
           idsMore == {more[k].id : k \in DOMAIN more}
           before == Broadcast(view, msgs)
           after == Broadcast(view, more)
<1>1. DOMAIN msgs = 1 .. n /\ n \in Nat
  BY LenProperties
<1>2. /\ DOMAIN more = 1 .. n + 1
      /\ \A k \in 1 .. n : more[k] = msgs[k]
      /\ more[n + 1] = msg
  BY <1>1, AppendProperties, LenProperties
<1>3. /\ before = [i \in DOMAIN view \cup ids |->
                     IF about(i) = {} THEN view[i] ELSE msgs[last(i)].issue]
      /\ after = [i \in DOMAIN view \cup idsMore |->
                    IF aboutMore(i) = {} THEN view[i] ELSE more[lastMore(i)].issue]
  BY DEF Broadcast
<1> HIDE DEF more, n, before, after
<1>4. idsMore = ids \cup {msg.id}
  <2>1. \A k \in DOMAIN more : k \in DOMAIN msgs \/ k = n + 1
    BY <1>1, <1>2
  <2>2. \A k \in DOMAIN msgs : k \in DOMAIN more /\ more[k] = msgs[k]
    BY <1>1, <1>2
  <2>3. n + 1 \in DOMAIN more
    BY <1>1, <1>2
  <2>. QED BY <1>2, <2>1, <2>2, <2>3
<1>5. lastMore(msg.id) = n + 1 /\ aboutMore(msg.id) # {}
  <2>1. n + 1 \in aboutMore(msg.id)
    BY <1>1, <1>2
  <2>2. aboutMore(msg.id) \subseteq 1 .. n + 1
    BY <1>2
  <2>3. \A k \in aboutMore(msg.id) :
          (\A m \in aboutMore(msg.id) : m <= k) <=> k = n + 1
    BY <1>1, <2>1, <2>2
  <2> HIDE DEF aboutMore
  <2>. QED BY <2>1, <2>3
<1>6. ASSUME NEW i, i # msg.id PROVE aboutMore(i) = about(i)
  BY <1>1, <1>2, <1>6
<1>7. ASSUME NEW i, i # msg.id, about(i) # {}
      PROVE  last(i) \in DOMAIN msgs /\ lastMore(i) = last(i)
  <2>1. about(i) \subseteq 1 .. n
    BY <1>1
  <2>2. \E k \in about(i) : \A m \in about(i) : m <= k
    BY <1>1, <1>7, <2>1, LastMember
  <2>3. last(i) \in about(i)
    BY <2>2
  <2>. QED BY <1>6, <1>7, <2>3
<1>8. ASSUME NEW i \in DOMAIN view \cup idsMore
      PROVE  after[i] = IF i = msg.id THEN msg.issue ELSE before[i]
  <2>1. CASE i = msg.id
    <3>1. aboutMore(i) # {} /\ lastMore(i) = n + 1
      BY <1>5, <2>1
    <3>2. after[i] = more[lastMore(i)].issue
      BY <1>3, <3>1
    <3>. QED BY <1>2, <2>1, <3>1, <3>2
  <2>2. CASE i # msg.id /\ about(i) = {}
    BY <1>3, <1>4, <1>6, <2>2
  <2>3. CASE i # msg.id /\ about(i) # {}
    <3>1. last(i) \in 1 .. n /\ lastMore(i) = last(i) /\ aboutMore(i) = about(i)
      BY <1>1, <1>6, <1>7, <2>3
    <3>2. after[i] = more[last(i)].issue
      BY <1>3, <2>3, <3>1
    <3>3. before[i] = msgs[last(i)].issue
      BY <1>3, <1>4, <2>3
    <3>. QED BY <1>2, <2>3, <3>1, <3>2, <3>3
  <2>. QED BY <2>1, <2>2, <2>3
<1>9. DOMAIN before = DOMAIN view \cup ids /\ DOMAIN after = DOMAIN before \cup {msg.id}
  BY <1>3, <1>4
<1>10. after = [i \in DOMAIN view \cup idsMore |-> after[i]]
  BY <1>3
<1>11. after = Assign(before, msg.id, msg.issue)
  BY <1>4, <1>8, <1>9, <1>10 DEF Assign
<1>. QED BY <1>11 DEF before, after, more

\* The ids that messages are about.
About(msgs) == {msgs[n].id : n \in DOMAIN msgs}

\* view holds the rows of d for the live issues it knows, those under the ids
\* in missed excepted, but for the project.
Mirrors(view, d, missed) ==
  \A i \in (DOMAIN view \cap Live(d)) \ missed :
    [view[i] EXCEPT !.project = d.issues[i].project] = d.issues[i]

\* It does after one occurrence more, with its message.
LEMMA UpsertMirrored ==
  ASSUME NEW d, DbTyped(d), NEW r \in Rec, NEW view, NEW missed,
         Mirrors(view, d, missed)
  PROVE  LET res == UpsertResult(d, r)
         IN  Mirrors(Assign(view, res.id, res.issue), Upserted(d, r), missed \ {res.id})
<1> DEFINE u == Upserted(d, r)
           id == TargetId(d, r)
           row == TargetRow(d, r)
           after == Assign(view, id, row)
<1>1. UpsertResult(d, r).id = id /\ UpsertResult(d, r).issue = row
  BY DEF UpsertResult
<1>2. /\ Live(u) = Live(d) \cup {id}
      /\ \A i \in Live(u) : u.issues[i] = IF i = id THEN row ELSE d.issues[i]
  BY UpsertedFact
<1>3. row \in IssueRow
  BY TargetRowTyped
<1>4. /\ DOMAIN after = DOMAIN view \cup {id}
      /\ \A i \in DOMAIN after : after[i] = IF i = id THEN row ELSE view[i]
  BY DEF Assign
<1> HIDE DEF u, id, row, after
<1>5. [row EXCEPT !.project = row.project] = row
  BY <1>3 DEF IssueRow
<1>6. Mirrors(after, u, missed \ {id})
  BY <1>2, <1>4, <1>5 DEF Mirrors
<1>. QED BY <1>1, <1>6 DEF after, u

\* The ids that msgs are about, after one message more.
LEMMA AboutOneMore ==
  ASSUME NEW msgs \in Seq(RowResult), NEW msg \in RowResult
  PROVE  About(Append(msgs, msg)) = About(msgs) \cup {msg.id}
<1> DEFINE more == Append(msgs, msg)
           n == Len(msgs)
<1>1. DOMAIN msgs = 1 .. n /\ n \in Nat
  BY LenProperties
<1>2. /\ DOMAIN more = 1 .. n + 1
      /\ \A k \in 1 .. n : more[k] = msgs[k]
      /\ more[n + 1] = msg
  BY <1>1, AppendProperties, LenProperties
<1> HIDE DEF more, n
<1>3. \A k \in DOMAIN more : k \in DOMAIN msgs \/ k = n + 1
  BY <1>1, <1>2
<1>4. \A k \in DOMAIN msgs : k \in DOMAIN more /\ more[k] = msgs[k]
  BY <1>1, <1>2
<1>5. n + 1 \in DOMAIN more
  BY <1>1, <1>2
<1>6. About(more) = About(msgs) \cup {msg.id}
  BY <1>2, <1>3, <1>4, <1>5 DEF About
<1>. QED BY <1>6 DEF more

\* The clients hold the committed rows but for the changes nobody was told of;
\* and with the messages of the open transaction they would hold its rows, the
\* ones it tells of among them.
FanoutInv ==
  /\ Mirrors(fanout, db, unsent)
  /\ dpc = "tx" => Mirrors(Broadcast(fanout, results), work, unsent \ About(results))

\* Every step keeps the clients' view.
LEMMA FanoutStep ==
  ASSUME Inv, FanoutInv, [Next]_vars
  PROVE  FanoutInv'
<1> USE DEF FanoutInv
<1>1. /\ Mirrors(fanout, db, unsent)
      /\ dpc = "tx" => Mirrors(Broadcast(fanout, results), work, unsent \ About(results))
  OBVIOUS
<1>2. DbTyped(db) /\ DbTyped(work) /\ ViewTyped(fanout) /\ results \in Seq(RowResult)
  BY DEF Inv, DigestInv, OutputInv, Sound
<1>3. CASE Unseen
  BY <1>1, <1>3 DEF Unseen, digest
<1>4. CASE TakeBatch
  BY <1>1, <1>4 DEF TakeBatch, output
<1>5. CASE BeginTx
  <2>1. /\ dpc # "tx" /\ results = <<>> /\ work' = db
        /\ UNCHANGED <<results, fanout, unsent, db>>
    BY <1>5 DEF BeginTx, Inv, DigestInv, output
  <2>2. About(<<>>) = {}
    BY DEF About
  <2>. QED BY <1>1, <1>2, <2>1, <2>2, BroadcastNone
<1>6. CASE UpsertNext
  <2> DEFINE r == batch[Len(results) + 1]
             res == UpsertResult(work, r)
  <2>1. /\ r \in Rec /\ work' = Upserted(work, r) /\ results' = Append(results, res)
        /\ UNCHANGED <<db, fanout, unsent>> /\ dpc = "tx"
    BY <1>6, UpsertNextFact DEF Inv
  <2> HIDE DEF r
  <2>2. res \in RowResult
    BY <1>2, <2>1, UpsertResultTyped
  <2>3. Broadcast(fanout', results') = Assign(Broadcast(fanout, results), res.id, res.issue)
    BY <1>2, <2>1, <2>2, BroadcastOneMore
  <2>4. Mirrors(Assign(Broadcast(fanout, results), res.id, res.issue), work',
                (unsent \ About(results)) \ {res.id})
    BY <1>1, <1>2, <2>1, UpsertMirrored
  <2>5. unsent \ About(results') = (unsent \ About(results)) \ {res.id}
    BY <1>2, <2>1, <2>2, AboutOneMore
  <2>. QED BY <1>1, <2>1, <2>3, <2>4, <2>5
<1>7. CASE Commit
  BY <1>1, <1>7 DEF Commit, EndBatch, About
<1>8. CASE Rollback
  BY <1>1, <1>8 DEF Rollback, EndBatch, output
<1>9. CASE StatusChange
  <2>1. PICK i \in Live(db), s \in Statuses : PutStatus(i, s) \/ PutStatusCutShort(i, s)
    BY <1>9 DEF StatusChange
  <2>2. db' = WithStatus(db, i, s) /\ dpc' # "tx"
    BY <2>1 DEF PutStatus, PutStatusCutShort, ConnFree, digest
  <2>3. /\ Live(db') = Live(db)
        /\ \A j \in Live(db) : db'.issues[j] =
             IF j = i THEN [db.issues[i] EXCEPT !.status = s] ELSE db.issues[j]
    BY <1>2, <2>2 DEF WithStatus, Db, DbTyped, Live
  <2>4. CASE PutStatus(i, s)
    <3>1. fanout' = Assign(fanout, i, db'.issues[i]) /\ unsent' = unsent \ {i}
      BY <2>4 DEF PutStatus
    <3>2. DbTyped(db')
      BY <1>2, <2>2, WithStatusSound
    <3>3. [db'.issues[i] EXCEPT !.project = db'.issues[i].project] = db'.issues[i]
      BY <2>3, <3>2 DEF DbTyped, IssueRow
    <3>4. /\ DOMAIN fanout' = DOMAIN fanout \cup {i}
          /\ \A j \in DOMAIN fanout' : fanout'[j] = IF j = i THEN db'.issues[i] ELSE fanout[j]
      BY <3>1 DEF Assign
    <3>5. Mirrors(fanout', db', unsent')
      BY <1>1, <2>3, <3>1, <3>3, <3>4 DEF Mirrors
    <3>. QED BY <2>2, <3>5
  <2>5. CASE PutStatusCutShort(i, s)
    <3>1. fanout' = fanout /\ unsent' = unsent \cup {i}
      BY <2>5 DEF PutStatusCutShort
    <3>2. Mirrors(fanout', db', unsent')
      BY <1>1, <2>3, <3>1 DEF Mirrors
    <3>. QED BY <2>2, <3>2
  <2>. QED BY <2>1, <2>4, <2>5
<1>10. CASE DeleteProject
  <2>1. /\ db' = WithoutIssues(db, OfProject(db, admin.project)) /\ fanout' = fanout
        /\ unsent' = unsent /\ dpc' # "tx"
    BY <1>10 DEF DeleteProject, ConnFree, digest, output
  <2>2. Live(db') \subseteq Live(db) /\ \A j \in Live(db') : db'.issues[j] = db.issues[j]
    BY <2>1 DEF WithoutIssues, Keep, Db, Live
  <2>. QED BY <1>1, <2>1, <2>2 DEF Mirrors
<1>11. CASE RenameProject
  <2>1. /\ db' = db \/ db' = Moved(db, admin.project, admin.new)
        /\ fanout' = fanout /\ unsent' = unsent /\ dpc' # "tx"
    BY <1>11 DEF RenameProject, ConnFree, digest, output
  <2>2. CASE db' = Moved(db, admin.project, admin.new)
    <3>1. /\ Live(db') = Live(db)
          /\ \A j \in Live(db) : db'.issues[j] =
               IF db.issues[j].project = admin.project
                 THEN [db.issues[j] EXCEPT !.project = admin.new] ELSE db.issues[j]
      BY <2>2 DEF Moved, Db, Live
    <3>2. ASSUME NEW j \in (DOMAIN fanout \cap Live(db)) \ unsent
          PROVE  [fanout[j] EXCEPT !.project = db'.issues[j].project] = db'.issues[j]
      <4>1. fanout[j] \in IssueRow /\ db.issues[j] \in IssueRow
        BY <1>2 DEF ViewTyped, DbTyped
      <4>2. [fanout[j] EXCEPT !.project = db.issues[j].project] = db.issues[j]
        BY <1>1 DEF Mirrors
      <4>3. \A p : [fanout[j] EXCEPT !.project = p] = [db.issues[j] EXCEPT !.project = p]
        BY <4>1, <4>2 DEF IssueRow
      <4>4. [db.issues[j] EXCEPT !.project = db'.issues[j].project] = db'.issues[j]
        BY <3>1, <4>1 DEF IssueRow
      <4>. QED BY <4>3, <4>4
    <3>. QED BY <2>1, <3>1, <3>2 DEF Mirrors
  <2>. QED BY <1>1, <2>1, <2>2
<1>12. CASE Crash
  BY <1>12 DEF Crash, Mirrors, NoRows
<1>. QED BY <1>3, <1>4, <1>5, <1>6, <1>7, <1>8, <1>9, <1>10, <1>11, <1>12, SeenSteps DEF Inv

\* Whoever applies every message holds the committed row of each live issue it
\* heard of, however triage, batches, roll-backs and restarts interleave: the
\* digest task and the triage handlers broadcast in the order they commit.  Only
\* the changes that aborted triage requests left untold are missing.
THEOREM FanoutFollowsDb == Spec => []FanoutEndsAtDb
<1>1. Init => FanoutInv
  BY DEF Init, FanoutInv, Mirrors, NoRows
<1>2. FanoutInv => FanoutEndsAtDb
  BY DEF FanoutInv, Mirrors, FanoutEndsAtDb
<1>. QED BY <1>1, <1>2, FanoutStep, InvAlways, PTL DEF Spec

----------------------------------------------------------------------------
(***************************************************************************)
(* What a commit alerts of                                                 *)
(***************************************************************************)

\* The results of a batch that alert.
AlertsIn(rs) == {n \in DOMAIN rs : Alerting(rs[n])}

\* The triggers owed for what the database w has over d.
Due(w, d) ==
  {[id |-> i, kind |-> "new"] : i \in Live(w) \ Live(d)}
    \cup {[id |-> i, kind |-> "regression"] :
            i \in {j \in Live(d) \cap Live(w) :
                     d.issues[j].status = "resolved"
                       /\ w.issues[j].count # d.issues[j].count}}

\* The alerting results are those triggers, once each.
Announced(rs, due) ==
  /\ \A n \in AlertsIn(rs) : TriggerOf(rs[n]) \in due
  /\ \A t \in due : \E n \in AlertsIn(rs) : TriggerOf(rs[n]) = t
  /\ \A m, n \in AlertsIn(rs) : TriggerOf(rs[m]) = TriggerOf(rs[n]) => m = n

\* There are as many of one as of the other.
LEMMA AnnouncedCount ==
  ASSUME NEW rs \in Seq(RowResult), NEW due, Announced(rs, due)
  PROVE  Cardinality(due) = Cardinality(AlertsIn(rs))
<1> DEFINE f == [n \in AlertsIn(rs) |-> TriggerOf(rs[n])]
<1>1. IsFiniteSet(AlertsIn(rs))
  <2>1. AlertsIn(rs) \subseteq 1 .. Len(rs) /\ Len(rs) \in Nat
    BY LenProperties DEF AlertsIn
  <2>. QED BY <2>1, UpToFinite
<1>2. f \in Bijection(AlertsIn(rs), due)
  <2>1. f \in [AlertsIn(rs) -> due]
    BY DEF Announced
  <2>2. \A m, n \in AlertsIn(rs) : f[m] = f[n] => m = n
    BY DEF Announced
  <2>3. \A t \in due : \E n \in AlertsIn(rs) : f[n] = t
    BY DEF Announced
  <2>. QED BY <2>1, <2>2, <2>3 DEF Bijection, Injection, Surjection, IsInjective
<1>3. ExistsBijection(AlertsIn(rs), due)
  BY <1>2 DEF ExistsBijection
<1>. QED BY <1>1, <1>3, FS_Bijection

\* One result more.
LEMMA AnnouncedOneMore ==
  ASSUME NEW rs \in Seq(RowResult), NEW res \in RowResult, NEW due, Announced(rs, due)
  PROVE  /\ Alerting(res) /\ TriggerOf(res) \notin due
              => Announced(Append(rs, res), due \cup {TriggerOf(res)})
         /\ ~Alerting(res) => Announced(Append(rs, res), due)
<1> DEFINE n == Len(rs)
           more == Append(rs, res)
<1>1. DOMAIN rs = 1 .. n /\ n \in Nat
  BY LenProperties
<1>2. /\ DOMAIN more = 1 .. n + 1
      /\ \A k \in 1 .. n : more[k] = rs[k]
      /\ more[n + 1] = res
  BY <1>1, AppendProperties, LenProperties
<1> HIDE DEF n, more
<1>3. /\ n + 1 \notin AlertsIn(rs)
      /\ \A k \in AlertsIn(rs) : more[k] = rs[k]
      /\ AlertsIn(more) = IF Alerting(res) THEN AlertsIn(rs) \cup {n + 1} ELSE AlertsIn(rs)
  <2>1. \A k : k \in DOMAIN more <=> k \in DOMAIN rs \/ k = n + 1
    BY <1>1, <1>2
  <2>2. n + 1 \notin DOMAIN rs
    BY <1>1
  <2>. QED BY <1>1, <1>2, <2>1, <2>2 DEF AlertsIn
<1>4. \A k \in AlertsIn(rs) :
        TriggerOf(more[k]) = TriggerOf(rs[k]) /\ TriggerOf(rs[k]) \in due
  BY <1>3 DEF Announced
<1>5. CASE ~Alerting(res)
  BY <1>3, <1>4, <1>5 DEF Announced, more
<1>6. CASE Alerting(res) /\ TriggerOf(res) \notin due
  <2> DEFINE all == due \cup {TriggerOf(res)}
  <2>1. \A k \in AlertsIn(more) :
          TriggerOf(more[k]) = IF k = n + 1 THEN TriggerOf(res) ELSE TriggerOf(rs[k])
    BY <1>2, <1>3, <1>6
  <2>2. \A k \in AlertsIn(more) : TriggerOf(more[k]) \in all
    BY <1>3, <1>4, <1>6, <2>1
  <2>3. \A t \in all : \E k \in AlertsIn(more) : TriggerOf(more[k]) = t
    <3>1. \A t \in due : \E k \in AlertsIn(rs) : TriggerOf(more[k]) = t
      BY <1>4 DEF Announced
    <3>. QED BY <1>2, <1>3, <1>6, <3>1
  <2>4. \A j, k \in AlertsIn(more) : TriggerOf(more[j]) = TriggerOf(more[k]) => j = k
    <3>1. \A j, k \in AlertsIn(rs) : TriggerOf(more[j]) = TriggerOf(more[k]) => j = k
      BY <1>4 DEF Announced
    <3>. QED BY <1>2, <1>3, <1>4, <1>6, <3>1
  <2>. QED BY <1>6, <2>2, <2>3, <2>4 DEF Announced, more
<1>. QED BY <1>5, <1>6

\* One occurrence more owes a trigger exactly when its result alerts.
LEMMA DueOneMore ==
  ASSUME NEW d, DbTyped(d), NEW w, DbTyped(w), Builds(w, d), NEW r \in Rec
  PROVE  LET res == UpsertResult(w, r)
             now == Due(Upserted(w, r), d)
         IN /\ Alerting(res) => /\ TriggerOf(res) \notin Due(w, d)
                                /\ now = Due(w, d) \cup {TriggerOf(res)}
            /\ ~Alerting(res) => now = Due(w, d)
<1> DEFINE u == Upserted(w, r)
           id == TargetId(w, r)
           res == UpsertResult(w, r)
           row == TargetRow(w, r)
           Reopens(e, i) == /\ i \in Live(d) \cap Live(e)
                            /\ d.issues[i].status = "resolved"
                            /\ e.issues[i].count # d.issues[i].count
           New(i) == [id |-> i, kind |-> "new"]
           Regression(i) == [id |-> i, kind |-> "regression"]
<1>1. /\ Live(u) = Live(w) \cup {id}
      /\ \A i \in Live(u) : u.issues[i] = IF i = id THEN row ELSE w.issues[i]
      /\ Creates(w, r) => id \notin Live(w)
  BY UpsertedFact
<1>2. /\ res.id = id /\ res.created = Creates(w, r) /\ res.regressed = Regresses(w, r)
      /\ TriggerOf(res) = [id |-> id, kind |-> IF Creates(w, r) THEN "new" ELSE "regression"]
  BY DEF UpsertResult, TriggerOf
<1>3. \A e : Due(e, d) = {New(i) : i \in Live(e) \ Live(d)}
                           \cup {Regression(i) : i \in {j \in Live(d) \cap Live(e) : Reopens(e, j)}}
  BY DEF Due
<1>4. \A e, i : /\ New(i) \in Due(e, d) <=> i \in Live(e) \ Live(d)
                /\ Regression(i) \in Due(e, d) <=> Reopens(e, i)
  BY <1>3
<1> HIDE DEF u, id, res, row
<1>5. CASE Creates(w, r)
  <2>1. id \notin Live(w) /\ id \notin Live(d)
    BY <1>1, <1>5 DEF Builds
  <2>2. Alerting(res) /\ TriggerOf(res) = New(id)
    BY <1>2, <1>5 DEF Alerting
  <2>3. New(id) \notin Due(w, d)
    BY <1>4, <2>1
  <2>4. Live(u) \ Live(d) = (Live(w) \ Live(d)) \cup {id}
    BY <1>1, <2>1
  <2>5. \A i : Reopens(u, i) <=> Reopens(w, i)
    BY <1>1, <2>1
  <2>6. Due(u, d) = Due(w, d) \cup {New(id)}
    BY <1>3, <2>4, <2>5
  <2>. QED BY <2>2, <2>3, <2>6 DEF u, res
<1>6. CASE ~Creates(w, r)
  <2> DEFINE old == w.issues[id]
  <2>1. /\ id \in Live(w) /\ old \in IssueRow /\ row.count = old.count + 1
    BY <1>6, TargetIdFact, TargetRowFact DEF id, row
  <2>2. Live(u) = Live(w)
    BY <1>1, <2>1
  <2>3. \A i : i # id => (Reopens(u, i) <=> Reopens(w, i))
    BY <1>1, <2>2
  <2>4. ASSUME id \in Live(d)
        PROVE  /\ d.issues[id].count \in Nat /\ old.count \in Nat
               /\ d.issues[id].count <= old.count
               /\ row.count # d.issues[id].count
               /\ old.status = "resolved"
                    <=> d.issues[id].status = "resolved" /\ old.count = d.issues[id].count
    <3>1. d.issues[id].count \in Nat /\ old.count \in Nat
      BY <2>1, <2>4 DEF DbTyped, IssueRow
    <3>2. After(d.issues[id], old)
      BY <2>4 DEF Builds
    <3>. QED BY <2>1, <3>1, <3>2 DEF After, Reopened
  <2>5. id \notin Live(d) => old.status # "resolved"
    BY <2>1 DEF Builds
  <2>6. Alerting(res) <=> old.status = "resolved"
    BY <1>2, <1>6 DEF Alerting, Regresses, id
  <2>7. CASE old.status = "resolved"
    <3>1. id \in Live(d) /\ ~Reopens(w, id) /\ Reopens(u, id)
      BY <1>1, <2>1, <2>2, <2>4, <2>5, <2>7
    <3>2. Alerting(res) /\ TriggerOf(res) = Regression(id)
      BY <1>2, <1>6, <2>6, <2>7
    <3>3. Regression(id) \notin Due(w, d)
      BY <1>4, <3>1
    <3>4. {j \in Live(d) \cap Live(u) : Reopens(u, j)}
            = {j \in Live(d) \cap Live(w) : Reopens(w, j)} \cup {id}
      BY <2>2, <2>3, <3>1
    <3>5. Due(u, d) = Due(w, d) \cup {Regression(id)}
      BY <1>3, <2>2, <3>4
    <3>. QED BY <3>2, <3>3, <3>5 DEF u, res
  <2>8. CASE old.status # "resolved"
    <3>1. Reopens(u, id) <=> Reopens(w, id)
      BY <1>1, <2>1, <2>2, <2>4, <2>8
    <3>2. {j \in Live(d) \cap Live(u) : Reopens(u, j)}
            = {j \in Live(d) \cap Live(w) : Reopens(w, j)}
      BY <2>2, <2>3, <3>1
    <3>3. Due(u, d) = Due(w, d)
      BY <1>3, <2>2, <3>2
    <3>. QED BY <2>6, <2>8, <3>3 DEF u, res
  <2>. QED BY <2>7, <2>8
<1>. QED BY <1>5, <1>6

\* The results so far are what the transaction owes alerts for.
AlertsInv == dpc = "tx" => Announced(results, Due(work, db))

\* Every step keeps it.
LEMMA AlertsStep ==
  ASSUME Inv, TxInv, AlertsInv, [Next]_vars
  PROVE  AlertsInv'
<1> USE DEF AlertsInv
<1>1. CASE Unseen
  BY <1>1 DEF Unseen, digest
<1>2. CASE BeginTx
  <2>1. results' = <<>> /\ work' = db' /\ dpc # "tx"
    BY <1>2 DEF BeginTx, Inv, DigestInv
  <2>2. Due(db', db') = {} /\ AlertsIn(<<>>) = {}
    BY DEF Due, AlertsIn
  <2>. QED BY <2>1, <2>2 DEF Announced
<1>3. CASE UpsertNext
  <2> DEFINE r == batch[Len(results) + 1]
             res == UpsertResult(work, r)
  <2>1. /\ r \in Rec /\ work' = Upserted(work, r) /\ results' = Append(results, res)
        /\ UNCHANGED db /\ dpc = "tx"
    BY <1>3, UpsertNextFact DEF Inv
  <2> HIDE DEF r
  <2>2. DbTyped(db) /\ DbTyped(work) /\ Builds(work, db) /\ results \in Seq(RowResult)
    BY <2>1 DEF Inv, DigestInv, Sound, TxInv
  <2>3. res \in RowResult
    BY <2>1, <2>2, UpsertResultTyped
  <2>4. /\ Alerting(res) => /\ TriggerOf(res) \notin Due(work, db)
                            /\ Due(work', db) = Due(work, db) \cup {TriggerOf(res)}
        /\ ~Alerting(res) => Due(work', db) = Due(work, db)
    BY <2>1, <2>2, DueOneMore
  <2> HIDE DEF res
  <2>. QED BY <2>1, <2>2, <2>3, <2>4, AnnouncedOneMore
<1>4. CASE TakeBatch \/ Commit \/ Rollback \/ Crash
  BY <1>4 DEF TakeBatch, Commit, Rollback, EndBatch, Crash
<1>5. CASE StatusChange \/ DeleteProject \/ RenameProject
  BY <1>5, OthersWait DEF digest
<1>. QED BY <1>1, <1>2, <1>3, <1>4, <1>5, SeenSteps DEF Inv

\* So it holds for ever.
LEMMA AlertsAlways == Spec => []AlertsInv
<1>1. Init => AlertsInv
  BY DEF Init, AlertsInv
<1>. QED BY <1>1, AlertsStep, InvAlways, TxAlways, PTL DEF Spec

\* A commit offers the webhook channel one trigger per issue it makes and one
\* per resolved issue it reopens, however often the batch meets the issue, and
\* of those the channel takes as many as it has room for.
THEOREM AlertsAlwaysMatch == Spec => AlertsMatchChanges
<1> DEFINE Matches == tally["settled"]' > tally["settled"] => AlertsOfCommit
<1>1. Inv /\ TxInv /\ AlertsInv /\ [Next]_vars => [Matches]_vars
  <2> SUFFICES ASSUME Inv, TxInv, AlertsInv, [Next]_vars PROVE Matches
    OBVIOUS
  <2>1. tally["settled"] \in Nat
    BY DEF Inv, ConsoleInv
  <2>2. CASE tally'["settled"] = tally["settled"] \/ tally'["settled"] = 0
    BY <2>1, <2>2
  <2>3. CASE Rollback
    <3>1. Len(batch) \in Nat /\ Count("dropped", Len(batch))
      BY <2>3, LenProperties DEF Rollback, EndBatch, Inv, DigestInv
    <3>. QED BY <2>2, <3>1, CountFact DEF Inv, ConsoleInv
  <2>4. CASE Commit
    <3> DEFINE room == Smaller(Cardinality(AlertsIn(results)), WebhookCap - Len(webhooks))
               added == SubSeq(webhooks', Len(webhooks) + 1, Len(webhooks'))
               due == Due(work, db)
    <3>1. /\ db' = work /\ webhooks' = Offered(webhooks, results)
          /\ Announced(results, due)
      BY <2>4 DEF Commit, AlertsInv
    <3>2. /\ webhooks' \in Seq(Trigger)
          /\ room \in Nat /\ Len(webhooks) \in Nat
          /\ Len(webhooks') = Len(webhooks) + room
          /\ \A n \in 1 .. room :
               /\ Nth(AlertsIn(results), n) \in AlertsIn(results)
               /\ webhooks'[Len(webhooks) + n] = TriggerOf(results[Nth(AlertsIn(results), n)])
          /\ \A m, n \in 1 .. room :
               Nth(AlertsIn(results), m) = Nth(AlertsIn(results), n) => m = n
      BY <3>1, OfferedFact DEF Inv, OutputInv, DigestInv, AlertsIn
    <3>3. due = {[id |-> i, kind |-> "new"] : i \in NewIssues}
                  \cup {[id |-> i, kind |-> "regression"] : i \in ReopenedIssues}
      <4>1. NewIssues = Live(work) \ Live(db)
        BY <3>1 DEF NewIssues, Live
      <4>2. ReopenedIssues = {j \in Live(db) \cap Live(work) :
                                db.issues[j].status = "resolved"
                                  /\ work.issues[j].count # db.issues[j].count}
        BY <3>1 DEF ReopenedIssues, Counted, Live
      <4>. QED BY <4>1, <4>2 DEF Due
    <3>4. Cardinality(due) = Cardinality(AlertsIn(results))
      BY <3>1, AnnouncedCount DEF Inv, DigestInv
    <3> HIDE DEF room, due
    <3>5. /\ Len(added) = room
          /\ DOMAIN added = 1 .. room
          /\ \A n \in 1 .. room : added[n] = webhooks'[Len(webhooks) + n]
      <4>1. \A a, b \in Nat : a + 1 \in 1 .. a + b + 1 /\ a + b <= a + b
        OBVIOUS
      <4>2. /\ added \in Seq(Trigger)
            /\ Len(added) = room
            /\ \A n \in 1 .. room : added[n] = webhooks'[Len(webhooks) + n]
        BY <3>2, SubSeqProperties
      <4>. QED BY <4>2, LenProperties
    <3>6. {added[n] : n \in DOMAIN added} \subseteq due
      <4>1. \A k \in AlertsIn(results) : TriggerOf(results[k]) \in due
        BY <3>1 DEF Announced
      <4>2. \A n \in 1 .. room : added[n] \in due
        BY <3>2, <3>5, <4>1
      <4>. QED BY <3>5, <4>2
    <3>7. \A m, n \in DOMAIN added : added[m] = added[n] => m = n
      <4>1. \A k, l \in AlertsIn(results) : TriggerOf(results[k]) = TriggerOf(results[l]) => k = l
        BY <3>1 DEF Announced
      <4>2. ASSUME NEW m \in 1 .. room, NEW n \in 1 .. room, added[m] = added[n] PROVE m = n
        <5>1. TriggerOf(results[Nth(AlertsIn(results), m)]) = TriggerOf(results[Nth(AlertsIn(results), n)])
          BY <3>2, <3>5, <4>2
        <5>2. Nth(AlertsIn(results), m) = Nth(AlertsIn(results), n)
          BY <3>2, <4>1, <5>1
        <5>. QED BY <3>2, <5>2
      <4>. QED BY <3>5, <4>2
    <3> HIDE DEF added
    <3>8. Len(added) = Smaller(Cardinality(due), WebhookCap - Len(webhooks))
      BY <3>4, <3>5 DEF room
    <3>. QED BY <3>3, <3>6, <3>7, <3>8 DEF AlertsOfCommit, added
  <2>. QED BY <2>2, <2>3, <2>4, SeenSteps
           DEF Inv, Unseen, TakeBatch, BeginTx, UpsertNext, output, StatusChange,
               PutStatus, PutStatusCutShort, DeleteProject, RenameProject, Crash
<1>. QED BY <1>1, InvAlways, TxAlways, AlertsAlways, PTL DEF Spec, AlertsMatchChanges

----------------------------------------------------------------------------
(***************************************************************************)
(* The database as a ledger                                                *)
(***************************************************************************)

Keys == Ledger!Keys

RowEntry(row) == [status |-> row.status, count |-> row.count]

\* The entry of a key is its row's status and count, or absent.
LEMMA LedgerEntry ==
  ASSUME NEW d, Sound(d), NEW k \in Keys
  PROVE  /\ \A i \in WithKey(d, k[1], k[2]) : LedgerOf(d)[k] = RowEntry(d.issues[i])
         /\ WithKey(d, k[1], k[2]) = {} => LedgerOf(d)[k] = Ledger!Absent
         /\ LedgerOf(d)[k] = Ledger!Absent => WithKey(d, k[1], k[2]) = {}
         /\ LedgerOf(d)[k] \in Ledger!Entry
<1> DEFINE ids == WithKey(d, k[1], k[2])
<1>1. LedgerOf(d)[k] = LET i == CHOOSE j \in ids : TRUE
                       IN IF ids = {} THEN [status |-> "absent", count |-> 0]
                                      ELSE [status |-> d.issues[i].status,
                                            count |-> d.issues[i].count]
  BY DEF LedgerOf, Keys, Ledger!Keys
<1>2. \A i, j \in ids : i = j
  BY DEF Sound, KeysUnique, WithKey
<1>3. \A i \in ids : d.issues[i] \in IssueRow
  BY DEF Sound, DbTyped, WithKey
<1> HIDE DEF ids
<1>4. ASSUME NEW i \in ids
      PROVE  /\ LedgerOf(d)[k] = RowEntry(d.issues[i])
             /\ RowEntry(d.issues[i]) \in Ledger!Entry
             /\ RowEntry(d.issues[i]) # Ledger!Absent
  <2>1. ids # {} /\ (CHOOSE j \in ids : TRUE) = i
    BY <1>2
  <2>2. LedgerOf(d)[k] = RowEntry(d.issues[i])
    BY <1>1, <2>1 DEF RowEntry
  <2>3. d.issues[i].status \in Statuses /\ d.issues[i].count \in Nat \ {0}
    BY <1>3 DEF IssueRow
  <2>. QED BY <2>2, <2>3
           DEF RowEntry, Ledger!Entry, Ledger!Absent, Ledger!Decisions, Statuses
<1>5. ids = {} => LedgerOf(d)[k] = Ledger!Absent /\ Ledger!Absent \in Ledger!Entry
  BY <1>1 DEF Ledger!Absent, Ledger!Entry
<1>. QED BY <1>4, <1>5 DEF ids

\* A ledger is given by its entries.
LEMMA LedgerFunction ==
  ASSUME NEW d
  PROVE  LedgerOf(d) = [k \in Keys |-> LedgerOf(d)[k]]
BY DEF LedgerOf, Keys, Ledger!Keys

\* No occurrence changes nothing; one after n are n + 1.
LEMMA GrownFact ==
  ASSUME NEW entry \in Ledger!Entry, NEW n \in Nat
  PROVE  /\ Ledger!Grown(entry, 0) = entry
         /\ Ledger!Grown(Ledger!Grown(entry, n), 1) = Ledger!Grown(entry, n + 1)
<1>1. /\ entry = [status |-> entry.status, count |-> entry.count]
      /\ entry.count \in Nat
  BY DEF Ledger!Entry, Ledger!Absent
<1>2. Ledger!Grown(entry, 0) = entry
  BY <1>1 DEF Ledger!Grown
<1>3. \A m \in Nat : /\ Ledger!Grown(entry, m).count = entry.count + m
                     /\ m > 0 => Ledger!Grown(entry, m).status =
                          IF entry.status \in {"muted", "ignored"} THEN entry.status
                                                                   ELSE "unresolved"
  BY <1>1 DEF Ledger!Grown
<1>4. \A e : Ledger!Grown(e, 1) =
        [status |-> IF e.status \in {"muted", "ignored"} THEN e.status ELSE "unresolved",
         count |-> e.count + 1]
  BY DEF Ledger!Grown
<1>5. Ledger!Grown(entry, n + 1) =
        [status |-> IF entry.status \in {"muted", "ignored"} THEN entry.status
                                                             ELSE "unresolved",
         count |-> entry.count + (n + 1)]
  BY <1>1 DEF Ledger!Grown
<1>6. CASE n = 0
  BY <1>1, <1>2, <1>4, <1>5, <1>6
<1>7. CASE n # 0
  <2> DEFINE g == Ledger!Grown(entry, n)
  <2>1. g.count = entry.count + n
        /\ g.status = IF entry.status \in {"muted", "ignored"} THEN entry.status
                                                               ELSE "unresolved"
    BY <1>3, <1>7
  <2>2. Ledger!Grown(g, 1) =
          [status |-> IF g.status \in {"muted", "ignored"} THEN g.status ELSE "unresolved",
           count |-> g.count + 1]
    BY <1>4
  <2> HIDE DEF g
  <2>3. Ledger!Grown(g, 1) = Ledger!Grown(entry, n + 1)
    BY <1>1, <1>5, <2>1, <2>2
  <2>. QED BY <1>2, <2>3 DEF g
<1>. QED BY <1>6, <1>7

\* The ledger key of an event.
KeyOf(r) == <<r.project, FpOf[r.eid]>>

\* An upsert is one occurrence of its event's key.
LEMMA UpsertGrows ==
  ASSUME NEW d, Sound(d), NEW r \in Rec, NEW k \in Keys
  PROVE  LedgerOf(Upserted(d, r))[k] =
           Ledger!Grown(LedgerOf(d)[k], IF k = KeyOf(r) THEN 1 ELSE 0)
<1> DEFINE u == Upserted(d, r)
           id == TargetId(d, r)
           row == TargetRow(d, r)
           ids == WithKey(d, k[1], k[2])
           now == WithKey(u, k[1], k[2])
<1>1. Sound(u)
  BY UpsertTyped, UpsertSound DEF Sound
<1>2. /\ Live(u) = Live(d) \cup {id}
      /\ \A i \in Live(u) : u.issues[i] = IF i = id THEN row ELSE d.issues[i]
      /\ Creates(d, r) => id \notin Live(d)
  BY UpsertedFact DEF Sound
<1>3. row.project = r.project /\ row.fp = FpOf[r.eid]
  BY TargetRowKey DEF Sound
<1>4. k = KeyOf(r) <=> k[1] = r.project /\ k[2] = FpOf[r.eid]
  BY DEF KeyOf, Keys, Ledger!Keys
<1>5. ~Creates(d, r) => /\ id \in Live(d)
                        /\ d.issues[id].project = r.project /\ d.issues[id].fp = FpOf[r.eid]
                        /\ row.status = Reopened(d.issues[id].status)
                        /\ row.count = d.issues[id].count + 1
  BY TargetIdFact, TargetRowFact DEF Sound
<1>6. Creates(d, r) => row.status = "unresolved" /\ row.count = 1
  BY DEF TargetRow, NewIssue
<1>7. /\ \A i \in ids : LedgerOf(d)[k] = RowEntry(d.issues[i])
      /\ ids = {} => LedgerOf(d)[k] = Ledger!Absent
      /\ LedgerOf(d)[k] \in Ledger!Entry
  BY LedgerEntry DEF Sound
<1>8. /\ \A i \in now : LedgerOf(u)[k] = RowEntry(u.issues[i])
      /\ now = {} => LedgerOf(u)[k] = Ledger!Absent
  BY <1>1, LedgerEntry
<1> HIDE DEF u, id, row
<1>9. CASE k # KeyOf(r)
  <2>1. now = ids /\ \A i \in ids : u.issues[i] = d.issues[i]
    BY <1>2, <1>3, <1>4, <1>5, <1>9 DEF WithKey
  <2>2. LedgerOf(u)[k] = LedgerOf(d)[k]
    BY <1>7, <1>8, <2>1
  <2>3. Ledger!Grown(LedgerOf(d)[k], 0) = LedgerOf(d)[k]
    BY <1>7, GrownFact
  <2>. QED BY <1>9, <2>2, <2>3 DEF u
<1>10. CASE k = KeyOf(r)
  <2>1. id \in now /\ u.issues[id] = row
    BY <1>2, <1>3, <1>4, <1>10 DEF WithKey
  <2>2. LedgerOf(u)[k] = [status |-> row.status, count |-> row.count]
    BY <1>8, <2>1 DEF RowEntry
  <2>3. CASE Creates(d, r)
    <3>1. ids = {}
      BY <1>4, <1>10, <2>3 DEF Creates
    <3>2. LedgerOf(d)[k] = [status |-> "absent", count |-> 0]
      BY <1>7, <3>1 DEF Ledger!Absent
    <3>3. Ledger!Grown(LedgerOf(d)[k], 1) = [status |-> "unresolved", count |-> 1]
      BY <3>2 DEF Ledger!Grown
    <3>. QED BY <1>6, <1>10, <2>2, <2>3, <3>3 DEF u
  <2>4. CASE ~Creates(d, r)
    <3> DEFINE old == d.issues[id]
    <3>1. id \in ids
      BY <1>4, <1>5, <1>10, <2>4 DEF WithKey
    <3>2. LedgerOf(d)[k] = [status |-> old.status, count |-> old.count]
      BY <1>7, <3>1 DEF RowEntry
    <3>3. old.status \in Statuses
      BY <1>5, <2>4 DEF Sound, DbTyped, IssueRow
    <3>4. Ledger!Grown(LedgerOf(d)[k], 1) =
            [status |-> IF old.status \in {"muted", "ignored"} THEN old.status
                                                               ELSE "unresolved",
             count |-> old.count + 1]
      BY <3>2 DEF Ledger!Grown
    <3>. QED BY <1>5, <1>10, <2>2, <2>4, <3>3, <3>4 DEF u, Reopened, Statuses
  <2>. QED BY <2>3, <2>4
<1>. QED BY <1>9, <1>10

\* The positions among the first n of a batch whose event is of key k.
Hits(b, n, k) == {j \in 1 .. n : KeyOf(b[j]) = k}

\* One position more.
LEMMA HitsOneMore ==
  ASSUME NEW b, NEW n \in Nat, NEW k
  PROVE  /\ Cardinality(Hits(b, n, k)) \in Nat
         /\ Cardinality(Hits(b, n + 1, k)) =
              Cardinality(Hits(b, n, k)) + (IF KeyOf(b[n + 1]) = k THEN 1 ELSE 0)
         /\ Cardinality(Hits(b, 0, k)) = 0
<1>1. IsFiniteSet(Hits(b, n, k)) /\ Cardinality(Hits(b, n, k)) \in Nat
  <2>1. Hits(b, n, k) \subseteq 1 .. n
    BY DEF Hits
  <2>. QED BY <2>1, UpToFinite
<1>2. n + 1 \notin Hits(b, n, k)
  BY DEF Hits
<1>3. Hits(b, n + 1, k) = IF KeyOf(b[n + 1]) = k THEN Hits(b, n, k) \cup {n + 1}
                                                ELSE Hits(b, n, k)
  BY DEF Hits
<1>4. Hits(b, 0, k) = {}
  BY DEF Hits
<1>5. Cardinality(Hits(b, 0, k)) = 0
  BY <1>4, FS_EmptySet
<1>6. CASE KeyOf(b[n + 1]) = k
  <2>1. Cardinality(Hits(b, n, k) \cup {n + 1}) = Cardinality(Hits(b, n, k)) + 1
    BY <1>1, <1>2, FS_AddElement
  <2>. QED BY <1>1, <1>3, <1>5, <1>6, <2>1
<1>7. CASE KeyOf(b[n + 1]) # k
  BY <1>1, <1>3, <1>5, <1>7
<1>. QED BY <1>6, <1>7

----------------------------------------------------------------------------
(***************************************************************************)
(* Refinement                                                              *)
(***************************************************************************)

\* What the open transaction has made of the ledger; a batch under way is not
\* empty; a rename is of one name to another.
LedgerInv ==
  /\ dpc = "tx" =>
       \A k \in Keys : LedgerOf(work)[k] =
         Ledger!Grown(LedgerOf(db)[k], Cardinality(Hits(batch, Len(results), k)))
  /\ dpc # "recv" => batch # <<>>
  /\ admin.op = "rename" => admin.project # admin.new

\* Nothing but the checks and the end of a console operation touches it.
LEMMA AdminSteps ==
  ASSUME [Next]_vars
  PROVE  \/ admin' = admin
         \/ admin' = NoAdmin
         \/ \E p \in Projects : admin' = [op |-> "delete", project |-> p]
         \/ \E p, q \in Projects :
              p # q /\ admin' = [op |-> "rename", project |-> p, new |-> q]
BY DEF Next, Ingest, Receive, Send, Push, Finish, Abort, Disconnect, Digest, TakeBatch,
       BeginTx, UpsertNext, Commit, Rollback, WebhookRecv, Triage, PutStatus,
       PutStatusCutShort, Console, CreateProject, CheckDelete, CheckRename, DeleteProject,
       RenameProject, Crash, vars

\* Every step keeps it.
LEMMA LedgerInvStep ==
  ASSUME Inv, LedgerInv, [Next]_vars
  PROVE  LedgerInv'
<1>1. admin'.op = "rename" => admin'.project # admin'.new
  BY AdminSteps DEF LedgerInv, NoAdmin
<1> DEFINE Grows == \A k \in Keys : LedgerOf(work)[k] =
                      Ledger!Grown(LedgerOf(db)[k], Cardinality(Hits(batch, Len(results), k)))
           Rest == /\ dpc = "tx" => Grows
                   /\ dpc # "recv" => batch # <<>>
<1>2. Rest
  BY DEF LedgerInv
<1>3. CASE Unseen
  BY <1>2, <1>1, <1>3 DEF Unseen, digest, LedgerInv
<1>4. CASE TakeBatch
  <2> DEFINE n == Smaller(Len(queue), BatchSize)
  <2>1. /\ queue # <<>> /\ queue \in Seq(Rec)
        /\ dpc' = "begin" /\ batch' = SubSeq(queue, 1, n)
    BY <1>4 DEF TakeBatch, Inv, ChannelInv
  <2>2. Len(queue) \in Nat \ {0}
    BY <2>1, LenProperties, EmptySeq
  <2>3. n \in Nat /\ n > 0
    BY <2>2, PipelineAssumption DEF Smaller
  <2>4. Len(batch') = n
    BY <2>1, TakeFact
  <2>5. batch' # <<>>
    BY <2>3, <2>4, EmptySeq
  <2>. QED BY <1>1, <2>1, <2>5 DEF LedgerInv
<1>5. CASE BeginTx
  <2>1. /\ dpc = "begin" /\ dpc' = "tx" /\ batch' = batch /\ db' = db /\ work' = db
        /\ results' = <<>>
    BY <1>5 DEF BeginTx, Inv, DigestInv
  <2>2. \A k \in Keys : /\ LedgerOf(db)[k] \in Ledger!Entry
                        /\ Cardinality(Hits(batch, 0, k)) = 0
    BY LedgerEntry, HitsOneMore DEF Inv, DigestInv
  <2>3. \A k \in Keys : LedgerOf(db)[k] = Ledger!Grown(LedgerOf(db)[k], 0)
    BY <2>2, GrownFact
  <2>4. Len(results') = 0
    BY <2>1, EmptySeq
  <2>. QED BY <1>1, <1>2, <2>1, <2>2, <2>3, <2>4 DEF LedgerInv
<1>6. CASE UpsertNext
  <2> DEFINE n == Len(results)
             r == batch[n + 1]
             hits(k) == Cardinality(Hits(batch, n, k))
  <2>1. /\ r \in Rec /\ n \in Nat
        /\ work' = Upserted(work, r) /\ results' = Append(results, UpsertResult(work, r))
        /\ UNCHANGED <<dpc, db, batch>> /\ dpc = "tx"
    BY <1>6, UpsertNextFact DEF Inv
  <2>2. Sound(work) /\ Sound(db) /\ results \in Seq(RowResult)
    BY DEF Inv, DigestInv
  <2>3. UpsertResult(work, r) \in RowResult
    BY <2>1, <2>2, UpsertResultTyped DEF Sound
  <2>4. Len(results') = n + 1
    BY <2>1, <2>2, <2>3, AppendProperties
  <2>5. ASSUME NEW k \in Keys
        PROVE  LedgerOf(work')[k] =
                 Ledger!Grown(LedgerOf(db)[k], Cardinality(Hits(batch, n + 1, k)))
    <3>1. LedgerOf(work)[k] = Ledger!Grown(LedgerOf(db)[k], hits(k))
      BY <1>2, <2>1
    <3>2. LedgerOf(work')[k] =
            Ledger!Grown(LedgerOf(work)[k], IF k = KeyOf(r) THEN 1 ELSE 0)
      BY <2>1, <2>2, UpsertGrows
    <3>3. /\ hits(k) \in Nat
          /\ Cardinality(Hits(batch, n + 1, k)) = hits(k) + (IF KeyOf(r) = k THEN 1 ELSE 0)
      <4>1. n \in Nat
        BY <2>1
      <4>2. /\ Cardinality(Hits(batch, n, k)) \in Nat
            /\ Cardinality(Hits(batch, n + 1, k)) =
                 Cardinality(Hits(batch, n, k)) + (IF KeyOf(batch[n + 1]) = k THEN 1 ELSE 0)
        <5> HIDE DEF n
        <5>. QED BY <4>1, HitsOneMore
      <4>. QED BY <4>2
    <3>4. LedgerOf(db)[k] \in Ledger!Entry /\ LedgerOf(work)[k] \in Ledger!Entry
      BY <2>2, LedgerEntry
    <3> HIDE DEF hits, r, n
    <3>5. CASE k = KeyOf(r)
      BY <3>1, <3>2, <3>3, <3>4, <3>5, GrownFact
    <3>6. CASE k # KeyOf(r)
      <4>1. LedgerOf(work')[k] = LedgerOf(work)[k]
        BY <3>2, <3>4, <3>6, GrownFact
      <4>. QED BY <3>1, <3>3, <3>6, <4>1
    <3>. QED BY <3>5, <3>6
  <2>. QED BY <1>1, <1>2, <2>1, <2>4, <2>5 DEF LedgerInv
<1>7. CASE Commit \/ Rollback \/ Crash
  BY <1>1, <1>7 DEF Commit, Rollback, EndBatch, Crash, LedgerInv
<1>8. CASE StatusChange \/ DeleteProject \/ RenameProject
  <2>1. dpc' # "tx" /\ UNCHANGED digest
    BY <1>8, OthersWait DEF digest
  <2>. QED BY <1>1, <1>2, <2>1 DEF LedgerInv, digest
<1>. QED BY <1>3, <1>4, <1>5, <1>6, <1>7, <1>8, SeenSteps DEF Inv

\* So it holds for ever.
LEMMA LedgerInvAlways == Spec => []LedgerInv
<1>1. Init => LedgerInv
  BY DEF Init, LedgerInv, NoAdmin
<1>. QED BY <1>1, LedgerInvStep, InvAlways, PTL DEF Spec

\* Rows that keep their status and count keep the entry.
LEMMA EntryKept ==
  ASSUME NEW d, Sound(d), NEW u, Sound(u), NEW k \in Keys, NEW m \in Keys,
         WithKey(u, k[1], k[2]) = WithKey(d, m[1], m[2]),
         \A i \in WithKey(d, m[1], m[2]) : RowEntry(u.issues[i]) = RowEntry(d.issues[i])
  PROVE  LedgerOf(u)[k] = LedgerOf(d)[m]
BY LedgerEntry

\* The ledger's module counts as this one does.
LEMMA LedgerCounts ==
  ASSUME NEW S
  PROVE  Ledger!Cardinality(S) = Cardinality(S)
BY DEF Ledger!Cardinality, Cardinality

\* A commit records its batch.
LEMMA CommitRecords ==
  ASSUME Inv, LedgerInv, Commit
  PROVE  Ledger!Record
<1> DEFINE n == Len(batch)
           at == [j \in 1 .. n |-> KeyOf(batch[j])]
<1>1. /\ dpc = "tx" /\ Len(results) = n /\ db' = work /\ Count("settled", n)
  BY DEF Commit, EndBatch
<1>2. n \in 1 .. BatchSize
  <2>1. n \in Nat /\ n <= BatchSize /\ batch # <<>> /\ batch \in Seq(Rec)
    BY <1>1, LenProperties DEF Inv, DigestInv, LedgerInv
  <2>2. n # 0
    BY <2>1, EmptySeq
  <2>. QED BY <2>1, <2>2, PipelineAssumption
<1>3. at \in [1 .. n -> Keys]
  <2>1. \A j \in 1 .. n : batch[j] \in Rec
    BY ElementOfSeq DEF Inv, DigestInv
  <2>2. \A j \in 1 .. n : KeyOf(batch[j]) \in Keys
    BY <2>1, FpOfAssumption DEF KeyOf, Rec, Keys, Ledger!Keys
  <2>. QED BY <2>2
<1>4. tally'["settled"] = tally["settled"] + n
  BY <1>1, <1>2, CountFact DEF Inv, ConsoleInv
<1>5. \A k \in Keys : LedgerOf(db')[k] =
        Ledger!Grown(LedgerOf(db)[k], Cardinality({j \in 1 .. n : at[j] = k}))
  <2>1. \A k : Hits(batch, n, k) = {j \in 1 .. n : at[j] = k}
    BY DEF Hits
  <2>. QED BY <1>1, <2>1 DEF LedgerInv
<1> HIDE DEF n, at
<1>6. LedgerOf(db') = [k \in Keys |->
        Ledger!Grown(LedgerOf(db)[k], Cardinality({j \in 1 .. n : at[j] = k}))]
  BY <1>5, LedgerFunction
<1>. QED BY <1>2, <1>3, <1>4, <1>6, LedgerCounts DEF Ledger!Record, Keys

\* A status change is an operator's decision about the issue's key.
LEMMA StatusChangeDecides ==
  ASSUME Inv, StatusChange
  PROVE  \E k \in Keys, s \in Ledger!Decisions : Ledger!Decide(k, s)
<1>1. PICK i \in Live(db), s \in Statuses :
        db' = WithStatus(db, i, s) /\ tally' = tally
  BY DEF StatusChange, PutStatus, PutStatusCutShort
<1> DEFINE row == db.issues[i]
           k == <<row.project, row.fp>>
           old == LedgerOf(db)
           new == LedgerOf(db')
<1>2. row \in IssueRow /\ Sound(db)
  BY DEF Inv, DigestInv, Sound, DbTyped
<1>3. Sound(db')
  BY <1>1, <1>2, WithStatusSound DEF Sound
<1>4. k \in Keys /\ s \in Ledger!Decisions
  BY <1>2 DEF IssueRow, Keys, Ledger!Keys, Statuses, Ledger!Decisions
<1>5. /\ Live(db') = Live(db)
      /\ \A j \in Live(db) : db'.issues[j] = IF j = i THEN [row EXCEPT !.status = s]
                                                      ELSE db.issues[j]
  BY <1>1, <1>2 DEF WithStatus, Db, Live, Sound, DbTyped
<1>6. /\ db'.issues[i].project = row.project /\ db'.issues[i].fp = row.fp
      /\ RowEntry(db'.issues[i]) = [status |-> s, count |-> row.count]
  BY <1>2, <1>5 DEF IssueRow, RowEntry
<1>7. \A m \in Keys : WithKey(db', m[1], m[2]) = WithKey(db, m[1], m[2])
  BY <1>5, <1>6 DEF WithKey
<1>8. i \in WithKey(db, k[1], k[2])
  BY DEF WithKey
<1>9. /\ old[k] = RowEntry(row) /\ old[k] # Ledger!Absent
      /\ new[k] = [status |-> s, count |-> row.count]
  <2>1. new[k] = RowEntry(db'.issues[i])
    BY <1>3, <1>4, <1>7, <1>8, LedgerEntry
  <2>. QED BY <1>2, <1>4, <1>6, <1>8, <2>1, LedgerEntry
<1>10. ASSUME NEW m \in Keys, m # k PROVE new[m] = old[m]
  <2>1. i \notin WithKey(db, m[1], m[2])
    BY <1>10 DEF WithKey, Keys, Ledger!Keys
  <2>. QED BY <1>2, <1>3, <1>5, <1>7, <2>1, EntryKept DEF WithKey
<1>11. old = [m \in Keys |-> old[m]] /\ new = [m \in Keys |-> new[m]]
  BY LedgerFunction
<1> HIDE DEF k, old, new
<1>12. new = [old EXCEPT ![k].status = s]
  <2>1. new[k] = [old[k] EXCEPT !.status = s]
    BY <1>9 DEF RowEntry
  <2>. QED BY <1>4, <1>10, <1>11, <2>1
<1>. QED BY <1>1, <1>4, <1>9, <1>12 DEF Ledger!Decide, old, new

\* Deleting a project forgets it.
LEMMA DeleteForgets ==
  ASSUME Inv, DeleteProject
  PROVE  \E p \in Projects : Ledger!Forget(p)
<1> DEFINE p == admin.project
           gone == OfProject(db, p)
<1>1. db' = WithoutIssues(db, gone) /\ tally' = tally /\ admin.op = "delete"
  BY DEF DeleteProject
<1>2. p \in Projects
  BY <1>1 DEF Inv, ConsoleInv, AdminTyped, NoAdmin
<1>3. Sound(db) /\ Sound(db')
  BY <1>1, WithoutIssuesSound DEF Inv, DigestInv, Sound
<1>4. /\ Live(db') = Live(db) \ gone
      /\ \A i \in Live(db') : db'.issues[i] = db.issues[i]
  BY <1>1 DEF WithoutIssues, Keep, Db, Live
<1>5. ASSUME NEW k \in Keys
      PROVE  LedgerOf(db')[k] = IF k[1] = p THEN Ledger!Absent ELSE LedgerOf(db)[k]
  <2>1. CASE k[1] = p
    <3>1. WithKey(db', k[1], k[2]) = {}
      BY <1>4, <2>1 DEF WithKey, OfProject
    <3>. QED BY <1>3, <2>1, <3>1, LedgerEntry
  <2>2. CASE k[1] # p
    <3>1. /\ WithKey(db', k[1], k[2]) = WithKey(db, k[1], k[2])
          /\ \A i \in WithKey(db, k[1], k[2]) : db'.issues[i] = db.issues[i]
      BY <1>4, <2>2 DEF WithKey, OfProject
    <3>. QED BY <1>3, <2>2, <3>1, EntryKept
  <2>. QED BY <2>1, <2>2
<1> HIDE DEF p
<1>6. LedgerOf(db') =
        [k \in Keys |-> IF k[1] = p THEN Ledger!Absent ELSE LedgerOf(db)[k]]
  BY <1>5, LedgerFunction
<1>. QED BY <1>1, <1>2, <1>6 DEF Ledger!Forget, Keys

\* A rename moves the project's entries, or is rolled back.
LEMMA RenameMoves ==
  ASSUME Inv, LedgerInv, RenameProject
  PROVE  \/ UNCHANGED <<db, tally>>
         \/ \E p, q \in Projects : p # q /\ Ledger!Rename(p, q)
<1> DEFINE p == admin.project
           q == admin.new
<1>1. /\ tally' = tally /\ admin.op = "rename"
      /\ db' = db \/ (db' = Moved(db, p, q) /\ ~MoveConflicts(db, p, q))
  BY DEF RenameProject
<1>2. p \in Projects /\ q \in Projects /\ p # q
  BY <1>1 DEF Inv, ConsoleInv, AdminTyped, NoAdmin, LedgerInv
<1> HIDE DEF p, q
<1> SUFFICES ASSUME db' = Moved(db, p, q), ~MoveConflicts(db, p, q)
             PROVE  Ledger!Rename(p, q)
  BY <1>1, <1>2
<1>3. Sound(db) /\ Sound(db')
  BY <1>2, MovedSound DEF Inv, DigestInv, Sound
<1> DEFINE old == LedgerOf(db)
           new == LedgerOf(db')
           of(name, f) == WithKey(db, name, f)
<1>4. /\ Live(db') = Live(db)
      /\ \A i \in Live(db) :
           /\ db'.issues[i].project =
                IF db.issues[i].project = p THEN q ELSE db.issues[i].project
           /\ db'.issues[i].fp = db.issues[i].fp
           /\ RowEntry(db'.issues[i]) = RowEntry(db.issues[i])
  <2>1. \A i \in Live(db) : db.issues[i] \in IssueRow
    BY <1>3 DEF Sound, DbTyped
  <2>. QED BY <2>1 DEF Moved, Db, Live, RowEntry, IssueRow
<1>5. \A f \in Fingerprints : of(p, f) = {} \/ of(q, f) = {}
  BY DEF WithKey, MoveConflicts, OfProject
<1>6. \A f \in Fingerprints : <<p, f>> \in Keys /\ <<q, f>> \in Keys
  BY <1>2 DEF Keys, Ledger!Keys
<1>7. \A f \in Fingerprints :
        /\ old[<<p, f>>] = Ledger!Absent <=> of(p, f) = {}
        /\ old[<<q, f>>] = Ledger!Absent <=> of(q, f) = {}
  BY <1>3, <1>6, LedgerEntry
<1>8. ASSUME NEW k \in Keys, k[1] = p PROVE new[k] = Ledger!Absent
  <2>1. WithKey(db', k[1], k[2]) = {}
    BY <1>2, <1>4, <1>8 DEF WithKey
  <2>. QED BY <1>3, <2>1, LedgerEntry
<1>9. ASSUME NEW k \in Keys, k[1] = q
      PROVE  new[k] = IF old[k] = Ledger!Absent THEN old[<<p, k[2]>>] ELSE old[k]
  <2>1. k[2] \in Fingerprints /\ k = <<q, k[2]>>
    BY <1>9 DEF Keys, Ledger!Keys
  <2>2. WithKey(db', k[1], k[2]) = of(p, k[2]) \cup of(q, k[2])
    BY <1>4, <1>9 DEF WithKey
  <2>3. \A i \in of(p, k[2]) \cup of(q, k[2]) :
          RowEntry(db'.issues[i]) = RowEntry(db.issues[i])
    BY <1>4 DEF WithKey
  <2>4. CASE of(q, k[2]) = {}
    <3>1. old[k] = Ledger!Absent
      BY <1>7, <2>1, <2>4
    <3>2. new[k] = old[<<p, k[2]>>]
      BY <1>3, <1>6, <2>1, <2>2, <2>3, <2>4, EntryKept
    <3>. QED BY <3>1, <3>2
  <2>5. CASE of(q, k[2]) # {}
    <3>1. old[k] # Ledger!Absent /\ of(p, k[2]) = {}
      BY <1>5, <1>7, <2>1, <2>5
    <3>2. new[k] = old[k]
      BY <1>3, <1>9, <2>2, <2>3, <3>1, EntryKept
    <3>. QED BY <3>1, <3>2
  <2>. QED BY <2>4, <2>5
<1>10. ASSUME NEW k \in Keys, k[1] # p, k[1] # q PROVE new[k] = old[k]
  <2>1. /\ WithKey(db', k[1], k[2]) = WithKey(db, k[1], k[2])
        /\ \A i \in WithKey(db, k[1], k[2]) :
             RowEntry(db'.issues[i]) = RowEntry(db.issues[i])
    BY <1>4, <1>10 DEF WithKey
  <2>. QED BY <1>3, <2>1, EntryKept
<1>11. \A k \in Keys : new[k] =
         CASE k[1] = p -> Ledger!Absent
           [] k[1] = q /\ old[k] = Ledger!Absent -> old[<<p, k[2]>>]
           [] OTHER -> old[k]
  <2> HIDE DEF old, new
  <2>. QED BY <1>2, <1>8, <1>9, <1>10
<1>12. new = [k \in Keys |->
         CASE k[1] = p -> Ledger!Absent
           [] k[1] = q /\ old[k] = Ledger!Absent -> old[<<p, k[2]>>]
           [] OTHER -> old[k]]
  <2>1. new = [k \in Keys |-> new[k]]
    BY LedgerFunction
  <2> HIDE DEF old, new
  <2>. QED BY <1>11, <2>1
<1>. QED BY <1>1, <1>5, <1>7, <1>12 DEF Ledger!Rename, Keys

\* Handlers, channel, batches, transactions, roll-backs, aborted requests and
\* restarts implement the ledger: what the committed database shows per project
\* and fingerprint changes by whole batches, by operators' decisions and by the
\* console's operations, and by nothing else.
THEOREM ImplementsLedger == Spec => LedgerSpec
<1>1. Init => Ledger!Init
  <2> SUFFICES ASSUME Init PROVE Ledger!Init
    OBVIOUS
  <2>1. Sound(EmptyDb) /\ db = EmptyDb /\ tally["settled"] = 0
    BY EmptyDbSound DEF Init, Sound
  <2>2. \A k \in Keys : WithKey(EmptyDb, k[1], k[2]) = {}
    BY DEF WithKey, EmptyDb, Db, NoRows, Live
  <2>3. \A k \in Keys : LedgerOf(db)[k] = Ledger!Absent
    BY <2>1, <2>2, LedgerEntry
  <2>4. LedgerOf(db) = [k \in Keys |-> Ledger!Absent]
    BY <2>3, LedgerFunction
  <2>. QED BY <2>1, <2>4 DEF Ledger!Init, Keys
<1>2. Inv /\ LedgerInv /\ [Next]_vars
        => [Ledger!Next]_<<LedgerOf(db), tally["settled"]>>
  <2> DEFINE Stutters == UNCHANGED <<LedgerOf(db), tally["settled"]>>
  <2> SUFFICES ASSUME Inv, LedgerInv, [Next]_vars PROVE Ledger!Next \/ Stutters
    OBVIOUS
  <2>1. CASE Unseen
    BY <2>1 DEF Unseen
  <2>2. CASE TakeBatch \/ BeginTx \/ UpsertNext
    BY <2>2 DEF TakeBatch, BeginTx, UpsertNext
  <2>3. CASE Commit
    BY <2>3, CommitRecords DEF Ledger!Next
  <2>4. CASE Rollback
    <3>1. db' = db /\ Count("dropped", Len(batch))
      BY <2>4 DEF Rollback, EndBatch
    <3>2. Len(batch) \in Nat
      BY LenProperties DEF Inv, DigestInv
    <3>3. tally'["settled"] = tally["settled"]
      BY <3>1, <3>2, CountFact DEF Inv, ConsoleInv
    <3>. QED BY <3>1, <3>3
  <2>5. CASE StatusChange
    BY <2>5, StatusChangeDecides DEF Ledger!Next, Keys
  <2>6. CASE DeleteProject
    BY <2>6, DeleteForgets DEF Ledger!Next
  <2>7. CASE RenameProject
    BY <2>7, RenameMoves DEF Ledger!Next
  <2>8. CASE Crash
    BY <2>8 DEF Crash, Ledger!Next, Ledger!Restart
  <2>. QED BY <2>1, <2>2, <2>3, <2>4, <2>5, <2>6, <2>7, <2>8, SeenSteps DEF Inv
<1>. QED BY <1>1, <1>2, InvAlways, LedgerInvAlways, PTL DEF Spec, LedgerSpec, Ledger!Spec
============================================================================
