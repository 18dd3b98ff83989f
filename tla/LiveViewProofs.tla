--------------------------- MODULE LiveViewProofs ---------------------------
(***************************************************************************)
(* What holds of LiveView for any number of sockets, issues and messages   *)
(* and all capacities: the types, with every cursor inside the log, how    *)
(* many sockets a page may have, and what a page shows once it has handled *)
(* all it was sent.                                                        *)
(***************************************************************************)
EXTENDS LiveView, FiniteSetTheorems, SequenceTheorems, NaturalsInduction,
        WellFoundedInduction, TLAPS

----------------------------------------------------------------------------
(***************************************************************************)
(* Types, as sets                                                          *)
(***************************************************************************)

VersionMaps == UNION {[ids -> Nat \ {0}] : ids \in SUBSET Ids}

Tasks == [pc : Phases, cursor : Nat, snapshot : VersionMaps]

Frames ==
  [type : {"snapshot"}, rows : VersionMaps] \cup [type : {"issue"}, issue : Messages]

StoreTyped ==
  /\ rows \in VersionMaps /\ DOMAIN rows \subseteq born
  /\ born \subseteq Ids
  /\ log \in Seq(Messages)

SessionsTyped ==
  /\ session \in [Sockets -> Tasks]
  /\ \A k \in Sockets : /\ session[k].cursor <= Len(log)
                        /\ session[k].pc = "down" => session[k] = Down

WiresTyped ==
  /\ wire \in [Sockets -> Seq(Frames)]
  /\ \A k \in Sockets : Len(wire[k]) <= WireCap

PageTyped ==
  /\ page \in Page
  /\ page.socket = NoSocket \/ page.socket \in Live
  /\ view \in VersionMaps

Typed ==
  /\ StoreTyped /\ SessionsTyped /\ WiresTyped /\ PageTyped
  /\ stale \in [Sockets -> SUBSET Ids]
  /\ spent \in [Outside -> Nat]

----------------------------------------------------------------------------
(***************************************************************************)
(* Version maps, tasks and frames                                          *)
(***************************************************************************)

\* A function from ids to versions is a version map, and conversely.
LEMMA VersionMapsAre ==
  ASSUME NEW f
  PROVE  f \in VersionMaps <=> IsVersionMap(f)
BY DEF VersionMaps, IsVersionMap

\* A function from some ids to versions is a version map.
LEMMA MapTyped ==
  ASSUME NEW ids \in SUBSET Ids, NEW f \in [ids -> Nat \ {0}]
  PROVE  f \in VersionMaps
BY DEF VersionMaps

\* The empty table, and what is left of one, are tables.
LEMMA SmallerMap ==
  /\ NoRows \in VersionMaps
  /\ \A f \in VersionMaps : \A gone : [i \in DOMAIN f \ gone |-> f[i]] \in VersionMaps
<1>1. NoRows \in [{} -> Nat \ {0}]
  BY DEF NoRows
<1>2. ASSUME NEW f \in VersionMaps, NEW gone
      PROVE  /\ DOMAIN f \ gone \in SUBSET Ids
             /\ [i \in DOMAIN f \ gone |-> f[i]] \in [DOMAIN f \ gone -> Nat \ {0}]
  BY <1>2, VersionMapsAre DEF IsVersionMap
<1>. QED
  BY <1>1, <1>2, MapTyped

\* So is one with an entry written (IssuesStore.upsert).
LEMMA PutTyped ==
  ASSUME NEW f \in VersionMaps, NEW i \in Ids, NEW v \in Nat \ {0}
  PROVE  Put(f, i, v) \in VersionMaps
<1>1. DOMAIN f \cup {i} \in SUBSET Ids
  BY VersionMapsAre DEF IsVersionMap
<1>2. Put(f, i, v) \in [DOMAIN f \cup {i} -> Nat \ {0}]
  BY VersionMapsAre DEF IsVersionMap, Put
<1>. QED
  BY <1>1, <1>2, MapTyped

\* A socket that is not there and one that opens have tasks.
LEMMA NewTasks ==
  /\ Down \in Tasks /\ Down.pc = "down" /\ Down.cursor = 0
  /\ Opening \in Tasks /\ Opening.pc = "opening" /\ Opening.cursor = 0
BY SmallerMap DEF Down, Opening, Tasks, Phases

\* The types as sets are those of TypeOK.
LEMMA TypedIsTypeOK == Typed => TypeOK
<1>. SUFFICES ASSUME Typed PROVE TypeOK
  OBVIOUS
<1>. USE DEF Typed, StoreTyped, SessionsTyped, WiresTyped, PageTyped
<1>1. \A k \in Sockets : IsSession(session[k])
  BY VersionMapsAre DEF IsSession, Tasks
<1>2. \A k \in Sockets : \A n \in 1 .. Len(wire[k]) : IsFrame(wire[k][n])
  <2>1. \A frame \in Frames : IsFrame(frame)
    BY VersionMapsAre DEF Frames, IsFrame
  <2>2. \A k \in Sockets : \A n \in 1 .. Len(wire[k]) : wire[k][n] \in Frames
    OBVIOUS
  <2>. QED
    BY <2>1, <2>2
<1>. QED
  BY <1>1, <1>2, VersionMapsAre DEF TypeOK

----------------------------------------------------------------------------
(***************************************************************************)
(* The writers                                                             *)
(***************************************************************************)

\* A commit that turns the table into another one and sends messages leaves
\* types.
LEMMA WriteTyped ==
  ASSUME Typed, rows' \in VersionMaps, DOMAIN rows' \subseteq born',
         born' \subseteq Ids, log' \in Seq(Messages), Len(log) <= Len(log'),
         stale' \in [Sockets -> SUBSET Ids], spent' \in [Outside -> Nat],
         UNCHANGED <<session, wire, page, view>>
  PROVE  Typed'
<1>1. \A k \in Sockets : session[k].cursor <= Len(log')
  BY DEF Typed, SessionsTyped, StoreTyped, Tasks
<1>. QED
  BY <1>1 DEF Typed, StoreTyped, SessionsTyped, WiresTyped, PageTyped, Live

\* A step spent keeps the count of steps typed.
LEMMA SpendTyped ==
  ASSUME spent \in [Outside -> Nat], NEW kind \in Outside, Spend(kind)
  PROVE  spent' \in [Outside -> Nat]
BY DEF Spend, Outside

\* Ids that become visible again keep the sets of stale ids typed.
LEMMA HealTyped ==
  ASSUME stale \in [Sockets -> SUBSET Ids], NEW ids, Heal(ids)
  PROVE  stale' \in [Sockets -> SUBSET Ids]
BY DEF Heal

\* Versions only grow, from one on.
LEMMA NextVersionTyped ==
  ASSUME rows \in VersionMaps, NEW i
  PROVE  NextVersion(i) \in Nat \ {0}
BY DEF NextVersion, VersionMaps

\* The digest task's batch.
LEMMA DigestTyped ==
  ASSUME Typed, NEW n \in 1 .. BatchSize, NEW ids \in [1 .. n -> Ids], DigestCommit(ids)
  PROVE  Typed'
<1> DEFINE upTo(m) == Cardinality({l \in 1 .. m : ids[l] = ids[m]})
           version(m) == NextVersion(ids[m]) + upTo(m) - 1
           touched == {ids[m] : m \in DOMAIN ids}
           times(i) == Cardinality({m \in DOMAIN ids : ids[m] = i})
           final(i) == NextVersion(i) + times(i) - 1
           sent == [m \in DOMAIN ids |-> Message(ids[m], version(m))]
<1>1. n \in Nat /\ DOMAIN ids = 1 .. n
  BY LiveViewAssumption
<1>2. \A m \in 1 .. n : upTo(m) \in Nat \ {0}
  <2>. SUFFICES ASSUME NEW m \in 1 .. n PROVE upTo(m) \in Nat \ {0}
    OBVIOUS
  <2>1. IsFiniteSet({l \in 1 .. m : ids[l] = ids[m]})
    BY <1>1, FS_Interval, FS_Subset
  <2>2. m \in {l \in 1 .. m : ids[l] = ids[m]}
    BY <1>1
  <2>. QED
    BY <2>1, <2>2, FS_EmptySet, FS_CardinalityType
<1>3. \A i \in touched : times(i) \in Nat \ {0}
  <2>. SUFFICES ASSUME NEW m \in DOMAIN ids PROVE times(ids[m]) \in Nat \ {0}
    OBVIOUS
  <2>1. IsFiniteSet({l \in DOMAIN ids : ids[l] = ids[m]})
    BY <1>1, FS_Interval, FS_Subset
  <2>2. m \in {l \in DOMAIN ids : ids[l] = ids[m]}
    OBVIOUS
  <2>. QED
    BY <2>1, <2>2, FS_EmptySet, FS_CardinalityType
<1>4. touched \subseteq Ids
  OBVIOUS
<1>5. rows' \in VersionMaps /\ DOMAIN rows' = DOMAIN rows \cup touched
  <2>1. \A i \in touched : final(i) \in Nat \ {0}
    <3>. SUFFICES ASSUME NEW i \in touched PROVE final(i) \in Nat \ {0}
      OBVIOUS
    <3>1. NextVersion(i) \in Nat \ {0} /\ times(i) \in Nat \ {0}
      BY <1>3, NextVersionTyped DEF Typed, StoreTyped
    <3>. HIDE DEF times
    <3>. QED
      BY <3>1
  <2>2. rows' = [i \in DOMAIN rows \cup touched |-> IF i \in touched THEN final(i) ELSE rows[i]]
    BY DEF DigestCommit
  <2>. HIDE DEF touched, final
  <2>3. rows \in [DOMAIN rows -> Nat \ {0}] /\ DOMAIN rows \in SUBSET Ids
    BY VersionMapsAre DEF Typed, StoreTyped, IsVersionMap
  <2>4. rows' \in [DOMAIN rows \cup touched -> Nat \ {0}]
    BY <2>1, <2>2, <2>3
  <2>. QED
    BY <1>4, <2>3, <2>4, MapTyped
<1>6. sent \in Seq(Messages) /\ Len(sent) = n
  <2>1. \A m \in 1 .. n : version(m) \in Nat \ {0}
    BY <1>1, <1>2, NextVersionTyped DEF Typed, StoreTyped
  <2>2. \A m \in 1 .. n : Message(ids[m], version(m)) \in Messages
    BY <1>1, <2>1 DEF Message, Messages
  <2>. HIDE DEF version
  <2>. QED
    BY <1>1, <2>2
<1>7. log' = log \o sent
  BY DEF DigestCommit
<1>8. log' \in Seq(Messages) /\ Len(log) <= Len(log')
  <2>. HIDE DEF sent
  <2>. QED
    BY <1>1, <1>6, <1>7 DEF Typed, StoreTyped
<1>9. /\ DOMAIN rows' \subseteq born' /\ born' \subseteq Ids
      /\ stale' \in [Sockets -> SUBSET Ids]
      /\ spent' \in [Outside -> Nat]
      /\ UNCHANGED <<session, wire, page, view>>
  <2>1. Spend("change") /\ Heal(touched) /\ born' = born \cup touched
    BY DEF DigestCommit
  <2>. QED
    BY <1>4, <1>5, <2>1, SpendTyped, HealTyped
       DEF DigestCommit, Typed, StoreTyped, Outside
<1>. QED
  BY <1>5, <1>8, <1>9, WriteTyped

\* The other commits.
LEMMA WritesTyped == ASSUME Typed, Write PROVE Typed'
<1>1. ASSUME NEW i \in Ids, PutStatus(i) PROVE Typed'
  <2>1. /\ i \in DOMAIN rows /\ rows' = [rows EXCEPT ![i] = @ + 1]
        /\ Spend("change") /\ Heal({i})
        /\ log' = Append(log, Message(i, rows'[i]))
        /\ UNCHANGED <<born, session, wire, page, view>>
    BY <1>1 DEF PutStatus
  <2>2. rows' \in VersionMaps /\ DOMAIN rows' = DOMAIN rows /\ rows'[i] \in Nat \ {0}
    BY <2>1 DEF Typed, StoreTyped, VersionMaps
  <2>3. Message(i, rows'[i]) \in Messages
    BY <2>2 DEF Message, Messages
  <2>4. log' \in Seq(Messages) /\ Len(log) <= Len(log')
    BY <2>1, <2>3 DEF Typed, StoreTyped
  <2>. QED
    BY <2>1, <2>2, <2>4, WriteTyped, SpendTyped, HealTyped DEF Typed, StoreTyped, Outside
<1>2. ASSUME NEW i \in Ids, SilentChange(i) PROVE Typed'
  <2>1. /\ i \in DOMAIN rows /\ rows' = [rows EXCEPT ![i] = @ + 1]
        /\ Spend("silent")
        /\ stale' = [k \in Sockets |-> stale[k] \cup {i}]
        /\ UNCHANGED <<born, log, session, wire, page, view>>
    BY <1>2 DEF SilentChange
  <2>2. rows' \in VersionMaps /\ DOMAIN rows' = DOMAIN rows
    BY <2>1 DEF Typed, StoreTyped, VersionMaps
  <2>3. log' \in Seq(Messages) /\ Len(log) <= Len(log')
    BY <2>1 DEF Typed, StoreTyped
  <2>4. stale' \in [Sockets -> SUBSET Ids]
    BY <2>1 DEF Typed
  <2>. QED
    BY <2>1, <2>2, <2>3, <2>4, WriteTyped, SpendTyped DEF Typed, StoreTyped, Outside
<1>3. ASSUME NEW gone, Remove(gone) PROVE Typed'
  <2>1. /\ rows' = [i \in DOMAIN rows \ gone |-> rows[i]]
        /\ Spend("remove") /\ Heal(gone)
        /\ UNCHANGED <<born, log, session, wire, page, view>>
    BY <1>3 DEF Remove
  <2>2. rows' \in VersionMaps /\ DOMAIN rows' \subseteq DOMAIN rows
    BY <2>1, SmallerMap DEF Typed, StoreTyped
  <2>3. log' \in Seq(Messages) /\ Len(log) <= Len(log')
    BY <2>1 DEF Typed, StoreTyped
  <2>. QED
    BY <2>1, <2>2, <2>3, WriteTyped, SpendTyped, HealTyped DEF Typed, StoreTyped, Outside
<1>. QED
  BY <1>1, <1>2, <1>3, DigestTyped DEF Write

----------------------------------------------------------------------------
(***************************************************************************)
(* The sessions                                                            *)
(***************************************************************************)

\* Ids of messages and of frames are ids.
LEMMA PendingTyped ==
  ASSUME Typed, NEW k \in Sockets
  PROVE  Pending(k) \subseteq Ids /\ Owed(k) \subseteq Ids
<1>1. \A n \in session[k].cursor + 1 .. Len(log) : log[n].id \in Ids
  <2>1. \A n \in session[k].cursor + 1 .. Len(log) : n \in 1 .. Len(log)
    BY DEF Typed, SessionsTyped, StoreTyped, Tasks
  <2>2. \A n \in 1 .. Len(log) : log[n] \in Messages
    BY DEF Typed, StoreTyped
  <2>. QED
    BY <2>1, <2>2 DEF Messages
<1>2. \A n \in DOMAIN wire[k] : wire[k][n].type = "issue" => wire[k][n].issue.id \in Ids
  <2>1. \A n \in DOMAIN wire[k] : wire[k][n] \in Frames
    BY DEF Typed, WiresTyped
  <2>. QED
    BY <2>1 DEF Frames, Messages
<1>. QED
  BY <1>1, <1>2 DEF Pending, Owed, Typed

\* A step of a session that is there leaves the store and the page alone.
LEMMA ServeKeepsTypes ==
  ASSUME Typed, NEW k \in Sockets, session[k].pc # "down",
         session' \in [Sockets -> Tasks], \A j \in Sockets \ {k} : session'[j] = session[j],
         session'[k].pc # "down", session'[k].cursor <= Len(log),
         wire' \in [Sockets -> Seq(Frames)], \A j \in Sockets : Len(wire'[j]) <= WireCap,
         stale' \in [Sockets -> SUBSET Ids],
         UNCHANGED <<store, log, page, view, spent>>
  PROVE  Typed' /\ Live' = Live
<1>0. UNCHANGED <<rows, born, log, page, view, spent>>
  BY DEF store
<1>1. SessionsTyped'
  <2>1. \A j \in Sockets : /\ session'[j].cursor <= Len(log)
                           /\ session'[j].pc = "down" => session'[j] = Down
    BY DEF Typed, SessionsTyped
  <2>. QED
    BY <1>0, <2>1 DEF SessionsTyped
<1>2. Live' = Live
  BY DEF Live
<1>3. StoreTyped' /\ PageTyped' /\ WiresTyped'
  BY <1>0, <1>2 DEF Typed, StoreTyped, WiresTyped, PageTyped
<1>. QED
  BY <1>0, <1>1, <1>2, <1>3 DEF Typed

\* A frame written while there is room for it.
LEMMA FrameTyped ==
  ASSUME Typed, NEW k \in Sockets, Len(wire[k]) < WireCap, NEW frame \in Frames,
         wire' = [wire EXCEPT ![k] = Append(@, frame)]
  PROVE  wire' \in [Sockets -> Seq(Frames)] /\ \A j \in Sockets : Len(wire'[j]) <= WireCap
<1>1. Append(wire[k], frame) \in Seq(Frames) /\ Len(Append(wire[k], frame)) = Len(wire[k]) + 1
  BY DEF Typed, WiresTyped
<1>2. WireCap \in Nat
  BY LiveViewAssumption
<1>. QED
  BY <1>1, <1>2 DEF Typed, WiresTyped

\* Oldest and the cursors lie in the log.
LEMMA CursorTyped ==
  ASSUME Typed, NEW k \in Sockets
  PROVE  /\ session[k] \in Tasks /\ session[k].cursor \in 0 .. Len(log)
         /\ Len(log) \in Nat /\ Oldest \in 0 .. Len(log)
<1>1. session[k] \in Tasks /\ session[k].cursor \in 0 .. Len(log) /\ Len(log) \in Nat
  BY DEF Typed, SessionsTyped, StoreTyped, Tasks
<1>2. Oldest \in 0 .. Len(log)
  BY <1>1, LiveViewAssumption DEF Oldest
<1>. QED
  BY <1>1, <1>2

\* What the daemon and the browser do on a socket ends and begins none.
LEMMA ServeTyped ==
  ASSUME Typed, NEW k \in Sockets, Serve(k)
  PROVE  Typed' /\ Live' = Live
<1>. DEFINE task == session[k]
<1>0. /\ task \in Tasks /\ task.cursor \in 0 .. Len(log) /\ Len(log) \in Nat
      /\ Oldest \in 0 .. Len(log)
  BY CursorTyped
<1>w. wire \in [Sockets -> Seq(Frames)] /\ \A j \in Sockets : Len(wire[j]) <= WireCap
  BY DEF Typed, WiresTyped
<1>s. stale \in [Sockets -> SUBSET Ids] /\ session \in [Sockets -> Tasks]
  BY DEF Typed, SessionsTyped
<1>p. {"loaded", "streaming", "subscribed"} \subseteq Phases
  BY DEF Phases
<1>1. CASE Subscribe(k)
  <2> DEFINE next == [pc |-> "subscribed", cursor |-> Len(log), snapshot |-> NoRows]
  <2>1. next \in Tasks /\ next.pc # "down" /\ next.cursor <= Len(log)
    BY <1>0, SmallerMap DEF Tasks, Phases
  <2>2. /\ task.pc # "down" /\ session' = [session EXCEPT ![k] = next]
        /\ stale' \in [Sockets -> SUBSET Ids]
        /\ UNCHANGED <<store, log, wire, page, view, spent>>
    BY <1>1, <1>s DEF Subscribe
  <2>. HIDE DEF next
  <2>9. /\ session' \in [Sockets -> Tasks] /\ session'[k] = next
        /\ \A j \in Sockets \ {k} : session'[j] = session[j]
    BY <1>s, <2>1, <2>2
  <2>. QED
    BY <1>0, <1>w, <2>1, <2>2, <2>9, ServeKeepsTypes
<1>2. CASE LoadIssues(k)
  <2> DEFINE next == [task EXCEPT !.pc = "loaded", !.snapshot = rows]
  <2>1. next \in Tasks /\ next.pc # "down" /\ next.cursor = task.cursor
    BY <1>0, <1>p DEF Tasks, Typed, StoreTyped
  <2>2. /\ task.pc # "down" /\ session' = [session EXCEPT ![k] = next]
        /\ stale' \in [Sockets -> SUBSET Ids]
        /\ UNCHANGED <<store, log, wire, page, view, spent>>
    BY <1>2, <1>s DEF LoadIssues
  <2>. HIDE DEF next
  <2>9. /\ session' \in [Sockets -> Tasks] /\ session'[k] = next
        /\ \A j \in Sockets \ {k} : session'[j] = session[j]
    BY <1>s, <2>1, <2>2
  <2>. QED
    BY <1>0, <1>w, <2>1, <2>2, <2>9, ServeKeepsTypes
<1>3. CASE SendSnapshot(k)
  <2> DEFINE next == [task EXCEPT !.pc = "streaming", !.snapshot = NoRows]
             frame == [type |-> "snapshot", rows |-> task.snapshot]
  <2>1. next \in Tasks /\ next.pc # "down" /\ next.cursor = task.cursor
    BY <1>0, <1>p, SmallerMap DEF Tasks
  <2>2. frame \in Frames
    BY <1>0 DEF Tasks, Frames
  <2>3. /\ task.pc # "down" /\ session' = [session EXCEPT ![k] = next]
        /\ Len(wire[k]) < WireCap /\ wire' = [wire EXCEPT ![k] = Append(@, frame)]
        /\ UNCHANGED <<store, log, page, view, stale, spent>>
    BY <1>3 DEF SendSnapshot
  <2>. HIDE DEF next, frame
  <2>9. /\ session' \in [Sockets -> Tasks] /\ session'[k] = next
        /\ \A j \in Sockets \ {k} : session'[j] = session[j]
    BY <1>s, <2>1, <2>3
  <2>4. wire' \in [Sockets -> Seq(Frames)] /\ \A j \in Sockets : Len(wire'[j]) <= WireCap
    BY <2>2, <2>3, FrameTyped
  <2>. QED
    BY <1>0, <1>s, <2>1, <2>3, <2>4, <2>9, ServeKeepsTypes
<1>4. CASE Forward(k)
  <2> DEFINE next == [task EXCEPT !.cursor = task.cursor + 1]
             frame == [type |-> "issue", issue |-> log[task.cursor + 1]]
  <2>0. task.cursor + 1 \in 1 .. Len(log)
    BY <1>0, <1>4 DEF Forward
  <2>1. next \in Tasks /\ next.pc = task.pc /\ next.cursor <= Len(log)
    BY <1>0, <2>0 DEF Tasks
  <2>2. frame \in Frames
    BY <2>0 DEF Frames, Typed, StoreTyped
  <2>3. /\ task.pc = "streaming" /\ session' = [session EXCEPT ![k] = next]
        /\ Len(wire[k]) < WireCap /\ wire' = [wire EXCEPT ![k] = Append(@, frame)]
        /\ UNCHANGED <<store, log, page, view, stale, spent>>
    BY <1>4 DEF Forward, Streaming
  <2>. HIDE DEF next, frame
  <2>9. /\ session' \in [Sockets -> Tasks] /\ session'[k] = next
        /\ \A j \in Sockets \ {k} : session'[j] = session[j]
    BY <1>s, <2>1, <2>3
  <2>4. wire' \in [Sockets -> Seq(Frames)] /\ \A j \in Sockets : Len(wire'[j]) <= WireCap
    BY <2>2, <2>3, FrameTyped
  <2>. QED
    BY <1>0, <1>s, <2>0, <2>1, <2>3, <2>4, <2>9, ServeKeepsTypes
<1>5. CASE Lagged(k)
  <2> DEFINE next == [task EXCEPT !.cursor = Oldest]
  <2>1. next \in Tasks /\ next.pc = task.pc /\ next.cursor = Oldest
    BY <1>0 DEF Tasks
  <2>2. LostIds(task.cursor, Oldest) \subseteq Ids
    <3>1. \A n \in task.cursor + 1 .. Oldest : log[n] \in Messages
      BY <1>0 DEF Typed, StoreTyped
    <3>. QED
      BY <3>1 DEF LostIds, Messages
  <2>3. /\ task.pc = "streaming" /\ session' = [session EXCEPT ![k] = next]
        /\ stale' = [stale EXCEPT ![k] = @ \cup LostIds(task.cursor, Oldest)]
        /\ UNCHANGED <<store, log, wire, page, view, spent>>
    BY <1>5 DEF Lagged, Streaming
  <2>4. stale' \in [Sockets -> SUBSET Ids]
    BY <1>s, <2>2, <2>3
  <2>. HIDE DEF next
  <2>9. /\ session' \in [Sockets -> Tasks] /\ session'[k] = next
        /\ \A j \in Sockets \ {k} : session'[j] = session[j]
    BY <1>s, <2>1, <2>3
  <2>. QED
    BY <1>0, <1>w, <2>1, <2>3, <2>4, <2>9, ServeKeepsTypes
<1>. QED
  BY <1>1, <1>2, <1>3, <1>4, <1>5 DEF Serve

----------------------------------------------------------------------------
(***************************************************************************)
(* The page                                                                *)
(***************************************************************************)

\* onmessage.
LEMMA HandleTyped == ASSUME Typed, NEW k \in Sockets, Handle(k) PROVE Typed'
<1>1. /\ wire[k] \in Seq(Frames) /\ wire[k] # <<>>
      /\ wire' = [wire EXCEPT ![k] = Tail(@)] /\ view' = After(view, Head(wire[k]))
      /\ UNCHANGED <<store, log, session, page, stale, spent>>
  BY DEF Handle, Typed, WiresTyped
<1>2. Head(wire[k]) \in Frames /\ Tail(wire[k]) \in Seq(Frames) /\ Len(Tail(wire[k])) = Len(wire[k]) - 1
  BY <1>1
<1>3. After(view, Head(wire[k])) \in VersionMaps
  <2>1. CASE Head(wire[k]).type = "snapshot"
    BY <1>2, <2>1 DEF After, Frames
  <2>2. CASE Head(wire[k]).type # "snapshot"
    <3>1. Head(wire[k]).issue \in Messages
      BY <1>2, <2>2 DEF Frames
    <3>. QED
      BY <3>1, <2>2, PutTyped DEF After, Messages, Typed, PageTyped
  <2>. QED
    BY <2>1, <2>2
<1>4. WiresTyped'
  <2>1. WireCap \in Nat /\ Len(wire[k]) <= WireCap /\ Len(wire[k]) \in Nat
    BY <1>1, LiveViewAssumption DEF Typed, WiresTyped
  <2>. QED
    BY <1>1, <1>2, <2>1 DEF Typed, WiresTyped
<1>5. Live' = Live
  BY <1>1 DEF Live
<1>. QED
  BY <1>1, <1>3, <1>4, <1>5 DEF Typed, StoreTyped, SessionsTyped, PageTyped, store

\* The tables after sockets ended and one was made: those in gone are down,
\* unless they are new, and the others as they were.
LEMMA SessionsStep ==
  ASSUME Typed, NEW gone \in SUBSET Sockets, NEW new \in SUBSET Sockets,
         Sessions(gone, new)
  PROVE  /\ session' \in [Sockets -> Tasks]
         /\ \A k \in Sockets : /\ session'[k].pc = "down" => session'[k] = Down
                               /\ \/ session'[k].cursor = 0
                                  \/ k \notin gone /\ session'[k] = session[k]
         /\ WiresTyped'
         /\ stale' \in [Sockets -> SUBSET Ids]
         /\ Live' = (Live \ gone) \cup new
<1>1. session' = [k \in Sockets |-> IF k \in new THEN Opening
                                    ELSE IF k \in gone THEN Down ELSE session[k]]
  BY DEF Sessions
<1>2. /\ session' \in [Sockets -> Tasks]
      /\ \A k \in Sockets : /\ session'[k].pc = "down" => session'[k] = Down
                            /\ \/ session'[k].cursor = 0
                               \/ k \notin gone /\ session'[k] = session[k]
  BY <1>1, NewTasks DEF Typed, SessionsTyped
<1>3. Live' = (Live \ gone) \cup new
  BY <1>1, NewTasks DEF Live
<1>4. WiresTyped'
  <2>1. <<>> \in Seq(Frames) /\ Len(<<>>) = 0 /\ WireCap \in Nat
    BY LiveViewAssumption
  <2>. QED
    BY <2>1 DEF Sessions, Typed, WiresTyped
<1>5. stale' \in [Sockets -> SUBSET Ids]
  <2>1. UNION {Owed(j) : j \in gone} \subseteq Ids
    BY PendingTyped
  <2>. QED
    BY <2>1 DEF Sessions, Abandon, Typed
<1>. QED
  BY <1>2, <1>3, <1>4, <1>5

\* Such a step leaves types if the page is left with a socket that is there.
LEMMA SessionsKeepTypes ==
  ASSUME Typed, NEW gone \in SUBSET Sockets, NEW new \in SUBSET Sockets,
         Sessions(gone, new), page' \in Page,
         page'.socket = NoSocket \/ page'.socket \in (Live \ gone) \cup new,
         spent' \in [Outside -> Nat], UNCHANGED <<store, view>>,
         log' = log \/ (gone = Live /\ log' = <<>>)
  PROVE  Typed' /\ Live' = (Live \ gone) \cup new
<1>0. UNCHANGED <<rows, born, view>>
  BY DEF store
<1>1. log' \in Seq(Messages) /\ Len(log') \in Nat
  <2>1. log \in Seq(Messages) /\ <<>> \in Seq(Messages)
    BY DEF Typed, StoreTyped
  <2>2. log' \in Seq(Messages)
    BY <2>1
  <2>. QED
    BY <2>2
<1>2. \A k \in Sockets : session'[k].cursor <= Len(log')
  <2>. SUFFICES ASSUME NEW k \in Sockets PROVE session'[k].cursor <= Len(log')
    OBVIOUS
  <2>1. CASE session'[k].cursor = 0
    BY <1>1, <2>1
  <2>2. CASE k \notin gone /\ session'[k] = session[k] /\ log' = log
    BY <2>2 DEF Typed, SessionsTyped
  <2>3. CASE k \notin Live /\ session'[k] = session[k]
    BY <1>1, <2>3, NewTasks DEF Typed, SessionsTyped, Live
  <2>. QED
    BY <2>1, <2>2, <2>3, SessionsStep
<1>3. SessionsTyped'
  BY <1>2, SessionsStep DEF SessionsTyped
<1>4. StoreTyped'
  BY <1>0, <1>1 DEF Typed, StoreTyped
<1>5. Live' = (Live \ gone) \cup new
  BY SessionsStep
<1>6. PageTyped'
  BY <1>0, <1>5 DEF Typed, PageTyped
<1>. QED
  BY <1>3, <1>4, <1>5, <1>6, SessionsStep DEF Typed

----------------------------------------------------------------------------
(***************************************************************************)
(* The page's sockets                                                      *)
(***************************************************************************)

\* The sockets beside the page's own, and a timer that is set although it has
\* one, each come from a socket that told late of its end.
Extra == Cardinality(Live \ {page.socket})

Beside == IF page.timer /\ page.socket # NoSocket THEN 1 ELSE 0

Spare == Extra + Beside <= page.late

\* Sockets can be counted, also without one of them.
LEMMA LiveFinite ==
  \A S \in SUBSET Sockets :
    /\ IsFiniteSet(S) /\ Cardinality(S) \in Nat
    /\ \A k \in S : /\ Cardinality(S \ {k}) = Cardinality(S) - 1
                    /\ Cardinality(S) - 1 \in Nat
<1>. SUFFICES ASSUME NEW S \in SUBSET Sockets
     PROVE  /\ IsFiniteSet(S) /\ Cardinality(S) \in Nat
            /\ \A k \in S : /\ Cardinality(S \ {k}) = Cardinality(S) - 1
                            /\ Cardinality(S) - 1 \in Nat
  OBVIOUS
<1>1. IsFiniteSet(S) /\ Cardinality(S) \in Nat
  BY LiveViewAssumption, FS_Subset, FS_CardinalityType
<1>2. \A k \in S : Cardinality(S \ {k}) = Cardinality(S) - 1 /\ IsFiniteSet(S \ {k})
  BY <1>1, FS_RemoveElement
<1>3. \A k \in S : Cardinality(S \ {k}) \in Nat
  BY <1>2, FS_CardinalityType
<1>. QED
  BY <1>1, <1>2, <1>3

\* What the page holds.
LEMMA PageFacts ==
  ASSUME Typed
  PROVE  /\ page \in Page /\ page.late \in Nat /\ page.closing \in Nat
         /\ page.timer \in BOOLEAN /\ page.wanted \in BOOLEAN
         /\ page.socket = NoSocket \/ page.socket \in Live
         /\ Live \in SUBSET Sockets /\ NoSocket \notin Sockets
         /\ Extra \in Nat
<1>1. /\ page \in Page /\ page.late \in Nat /\ page.closing \in Nat
      /\ page.timer \in BOOLEAN /\ page.wanted \in BOOLEAN
      /\ page.socket = NoSocket \/ page.socket \in Live
  BY DEF Typed, PageTyped, Page
<1>2. Live \in SUBSET Sockets /\ NoSocket \notin Sockets
  BY LiveViewAssumption DEF Live
<1>3. Live \ {page.socket} \in SUBSET Sockets
  BY <1>2
<1>. QED
  BY <1>1, <1>2, <1>3, LiveFinite DEF Extra

\* A slot is found where there is one.
LEMMA FreeSocketIs ==
  ASSUME Live # Sockets
  PROVE  FreeSocket \in Sockets \ Live
BY DEF FreeSocket, Live

\* connect() closes the socket and clears the timer before it opens another.
LEMMA ConnectKeeps ==
  ASSUME Typed, Spare, NEW other \in BOOLEAN, Connect(other)
  PROVE  Typed' /\ Spare'
<1> DEFINE old == {page.socket} \ {NoSocket}
           new == IF old # {} THEN page.socket ELSE FreeSocket
<1>1. /\ old # {} \/ Live # Sockets
      /\ Spend("connect") /\ Sessions(old, {new})
      /\ page' = [page EXCEPT !.socket = new, !.wanted = TRUE, !.timer = FALSE]
      /\ UNCHANGED <<store, log, view>>
  BY DEF Connect
<1>2. old \in SUBSET Sockets /\ new \in Sockets
  BY <1>1, PageFacts, FreeSocketIs
<1>3. /\ page' \in Page /\ page'.socket = new /\ page'.timer = FALSE
      /\ page'.late = page.late
  BY <1>1, <1>2, PageFacts DEF Page
<1>4. spent' \in [Outside -> Nat]
  BY <1>1, SpendTyped DEF Typed, Outside
<1>5. ((Live \ old) \cup {new}) \ {new} = Live \ {page.socket}
  BY <1>1, PageFacts, FreeSocketIs
<1>. HIDE DEF old, new
<1>6. Typed' /\ Live' = (Live \ old) \cup {new}
  BY <1>1, <1>2, <1>3, <1>4, SessionsKeepTypes
<1>7. Extra' = Extra /\ Beside' = 0
  BY <1>3, <1>5, <1>6 DEF Extra, Beside
<1>. QED
  BY <1>3, <1>6, <1>7, PageFacts DEF Spare, Beside

\* disconnect() leaves the closed socket to tell of its end later.
LEMMA DisconnectKeeps ==
  ASSUME Typed, Spare, Disconnect
  PROVE  Typed' /\ Spare'
<1> DEFINE old == {page.socket} \ {NoSocket}
<1>1. /\ Spend("leave") /\ Sessions(old, {})
      /\ page' = [page EXCEPT !.socket = NoSocket, !.wanted = FALSE, !.timer = FALSE,
                              !.closing = @ + Cardinality(old)]
      /\ UNCHANGED <<store, log, view>>
  BY DEF Disconnect
<1>2. old \in SUBSET Sockets /\ Cardinality(old) \in Nat
  BY PageFacts, LiveFinite
<1>3. /\ page' \in Page /\ page'.socket = NoSocket /\ page'.timer = FALSE
      /\ page'.late = page.late
  <2> DEFINE count == page.closing + Cardinality(old)
  <2>1. count \in Nat
    BY <1>2, PageFacts
  <2>2. page' = [page EXCEPT !.socket = NoSocket, !.wanted = FALSE, !.timer = FALSE,
                             !.closing = count]
    BY <1>1
  <2>. HIDE DEF count, old
  <2>. QED
    BY <2>1, <2>2, PageFacts DEF Page
<1>4. spent' \in [Outside -> Nat]
  BY <1>1, SpendTyped DEF Typed, Outside
<1>5. ((Live \ old) \cup {}) \ {NoSocket} = Live \ {page.socket}
  BY PageFacts
<1>. HIDE DEF old
<1>6. Typed' /\ Live' = (Live \ old) \cup {}
  BY <1>1, <1>2, <1>3, <1>4, SessionsKeepTypes
<1>7. Extra' = Extra /\ Beside' = 0
  BY <1>3, <1>5, <1>6 DEF Extra, Beside
<1>. QED
  BY <1>3, <1>6, <1>7, PageFacts DEF Spare, Beside

\* A late onclose may set the timer beside the page's socket, and is counted.
LEMMA ClosedLateKeeps ==
  ASSUME Typed, Spare, ClosedLate
  PROVE  Typed' /\ Spare'
<1>1. /\ page.closing > 0
      /\ page' = [page EXCEPT !.closing = @ - 1, !.timer = @ \/ page.wanted,
                              !.late = IF page.wanted THEN @ + 1 ELSE @]
      /\ UNCHANGED <<store, log, session, wire, view, stale, spent>>
  BY DEF ClosedLate
<1>2. /\ page' \in Page /\ page'.socket = page.socket
      /\ page'.timer = (page.timer \/ page.wanted)
      /\ page'.late = IF page.wanted THEN page.late + 1 ELSE page.late
  <2> DEFINE closing == page.closing - 1
             timer == page.timer \/ page.wanted
             late == IF page.wanted THEN page.late + 1 ELSE page.late
  <2>1. closing \in Nat /\ late \in Nat
    BY <1>1, PageFacts
  <2>2. timer \in BOOLEAN
    BY PageFacts
  <2>3. page' = [page EXCEPT !.closing = closing, !.timer = timer, !.late = late]
    BY <1>1
  <2>. HIDE DEF closing, timer, late
  <2>4. /\ page' \in Page /\ page'.socket = page.socket /\ page'.timer = timer
        /\ page'.late = late
    BY <2>1, <2>2, <2>3, PageFacts DEF Page
  <2>. QED
    BY <2>4 DEF timer, late
<1>3. Live' = Live
  BY <1>1 DEF Live
<1>4. Typed'
  BY <1>1, <1>2, <1>3
     DEF Typed, StoreTyped, SessionsTyped, WiresTyped, PageTyped, store
<1>5. Extra' = Extra
  BY <1>2, <1>3 DEF Extra
<1>. QED
  BY <1>2, <1>4, <1>5, PageFacts DEF Spare, Beside

\* The timer makes way for the socket it opens.
LEMMA ReconnectKeeps ==
  ASSUME Typed, Spare, Reconnect
  PROVE  Typed' /\ Spare'
<1>1. /\ page.timer /\ Live # Sockets /\ Sessions({}, {FreeSocket})
      /\ page' = [page EXCEPT !.timer = FALSE, !.socket = FreeSocket]
      /\ UNCHANGED <<store, log, view, spent>>
  BY DEF Reconnect
<1>2. FreeSocket \in Sockets \ Live
  BY <1>1, FreeSocketIs
<1>3. /\ page' \in Page /\ page'.socket = FreeSocket /\ page'.timer = FALSE
      /\ page'.late = page.late
  BY <1>1, <1>2, PageFacts DEF Page
<1>4. Typed' /\ Live' = (Live \ {}) \cup {FreeSocket}
  <2>. HIDE DEF FreeSocket
  <2>1. {} \in SUBSET Sockets /\ {FreeSocket} \in SUBSET Sockets /\ spent' \in [Outside -> Nat]
    BY <1>1, <1>2 DEF Typed
  <2>. QED
    BY <1>1, <1>3, <2>1, SessionsKeepTypes
<1>5. Extra' = Cardinality(Live) /\ Beside' = 0
  BY <1>2, <1>3, <1>4 DEF Extra, Beside
<1>6. Cardinality(Live) <= page.late
  <2>1. CASE page.socket = NoSocket
    <3>1. Live \ {page.socket} = Live
      BY <2>1, PageFacts
    <3>. QED
      BY <2>1, <3>1, PageFacts DEF Spare, Extra, Beside
  <2>2. CASE page.socket \in Live
    <3>1. Extra = Cardinality(Live) - 1 /\ Cardinality(Live) \in Nat
      BY <2>2, PageFacts, LiveFinite DEF Extra
    <3>2. Beside = 1
      BY <1>1, <2>2, PageFacts DEF Beside
    <3>. QED
      BY <3>1, <3>2, PageFacts DEF Spare
  <2>. QED
    BY <2>1, <2>2, PageFacts
<1>. QED
  BY <1>3, <1>4, <1>5, <1>6, LiveFinite, PageFacts DEF Spare

\* onclose of the sockets in gone.
LEMMA OnCloseLeaves ==
  ASSUME Typed, NEW gone \in SUBSET Sockets, OnClose(gone)
  PROVE  /\ page' \in Page /\ page'.late = page.late
         /\ page'.socket = IF page.socket \in gone THEN NoSocket ELSE page.socket
BY PageFacts DEF OnClose, Page

\* A socket's end makes way for the timer.
LEMMA CloseKeeps ==
  ASSUME Typed, Spare, NEW k \in Sockets, Close(k)
  PROVE  Typed' /\ Spare'
<1>1. /\ k \in Live /\ Spend("close") /\ Sessions({k}, {}) /\ OnClose({k})
      /\ UNCHANGED <<store, log, view>>
  BY DEF Close
<1>2. spent' \in [Outside -> Nat]
  BY <1>1, SpendTyped DEF Typed, Outside
<1>3. /\ page' \in Page /\ page'.late = page.late
      /\ page'.socket = IF page.socket = k THEN NoSocket ELSE page.socket
  BY <1>1, OnCloseLeaves
<1>4. Typed' /\ Live' = (Live \ {k}) \cup {}
  <2>1. page'.socket = NoSocket \/ page'.socket \in (Live \ {k}) \cup {}
    BY <1>3, PageFacts
  <2>2. {k} \in SUBSET Sockets /\ {} \in SUBSET Sockets
    OBVIOUS
  <2>. QED
    BY <1>1, <1>2, <1>3, <2>1, <2>2, SessionsKeepTypes
<1>5. CASE page.socket = k
  <2>1. Extra' = Extra /\ Beside' = 0
    BY <1>3, <1>4, <1>5, PageFacts DEF Extra, Beside
  <2>. QED
    BY <1>3, <1>4, <2>1, PageFacts DEF Spare, Beside
<1>6. CASE page.socket # k
  <2>1. Live' \ {page'.socket} = (Live \ {page.socket}) \ {k}
    BY <1>3, <1>4, <1>6
  <2>2. Extra' = Extra - 1
    BY <1>1, <1>6, <2>1, PageFacts, LiveFinite DEF Extra
  <2>3. Beside' \in {0, 1} /\ Beside \in {0, 1}
    BY DEF Beside
  <2>. QED
    BY <1>3, <1>4, <2>2, <2>3, PageFacts DEF Spare
<1>. QED
  BY <1>5, <1>6

\* A restart ends every session, not the sockets' accounts.
LEMMA RestartKeeps ==
  ASSUME Typed, Spare, Restart
  PROVE  Typed' /\ Spare'
<1>1. /\ Spend("restart") /\ Sessions(Live, {}) /\ log' = <<>> /\ UNCHANGED <<store, view>>
      /\ IF Live = {} THEN UNCHANGED page ELSE OnClose(Live)
  BY DEF Restart
<1>2. spent' \in [Outside -> Nat]
  BY <1>1, SpendTyped DEF Typed, Outside
<1>3. page' \in Page /\ page'.late = page.late /\ page'.socket = NoSocket
  <2>1. CASE Live = {}
    BY <1>1, <2>1, PageFacts
  <2>2. CASE Live # {}
    BY <1>1, <2>2, OnCloseLeaves, PageFacts
  <2>. QED
    BY <2>1, <2>2
<1>4. Typed' /\ Live' = (Live \ Live) \cup {}
  <2>1. Live \in SUBSET Sockets /\ {} \in SUBSET Sockets
    BY PageFacts
  <2>. QED
    BY <1>1, <1>2, <1>3, <2>1, SessionsKeepTypes
<1>5. Extra' = 0 /\ Beside' = 0
  <2>1. (Live \ {page.socket})' = {}
    BY <1>4
  <2>. QED
    BY <1>3, <2>1, FS_EmptySet DEF Extra, Beside
<1>. QED
  BY <1>3, <1>4, <1>5, PageFacts DEF Spare

----------------------------------------------------------------------------
(***************************************************************************)
(* Types and sockets: the theorems                                         *)
(***************************************************************************)

\* What a page starts with.
LEMMA InitKeeps == Init => Typed /\ Spare
<1> DEFINE first == CHOOSE k \in Sockets : TRUE
<1>. SUFFICES ASSUME Init PROVE Typed /\ Spare
  OBVIOUS
<1>1. first \in Sockets
  BY LiveViewAssumption
<1>2. /\ rows = NoRows /\ view = NoRows /\ born = {} /\ log = <<>>
      /\ session = [k \in Sockets |-> IF k = first THEN Opening ELSE Down]
      /\ wire = [k \in Sockets |-> <<>>]
      /\ page = [socket |-> first, wanted |-> TRUE, timer |-> FALSE,
                 closing |-> 0, late |-> 0]
      /\ stale = [k \in Sockets |-> {}]
      /\ spent = [kind \in Outside |-> 0]
  BY DEF Init
<1>. HIDE DEF first
<1>3. Live = {first}
  BY <1>1, <1>2, NewTasks DEF Live
<1>4. StoreTyped
  BY <1>2, SmallerMap DEF StoreTyped, NoRows
<1>5. SessionsTyped
  <2>1. Len(log) = 0
    BY <1>2
  <2>2. \A k \in Sockets : session[k] \in Tasks /\ session[k].cursor = 0
    BY <1>2, NewTasks
  <2>. QED
    BY <1>2, <2>1, <2>2, NewTasks DEF SessionsTyped
<1>6. WiresTyped
  BY <1>2, LiveViewAssumption DEF WiresTyped
<1>7. PageTyped
  BY <1>1, <1>2, <1>3, SmallerMap DEF PageTyped, Page
<1>8. Spare
  <2>1. Live \ {page.socket} = {}
    BY <1>2, <1>3
  <2>2. page.timer = FALSE /\ page.late = 0
    BY <1>2
  <2>3. Extra = 0 /\ Beside = 0
    BY <2>1, <2>2, FS_EmptySet DEF Extra, Beside
  <2>. QED
    BY <2>2, <2>3 DEF Spare
<1>. QED
  BY <1>2, <1>4, <1>5, <1>6, <1>7, <1>8 DEF Typed

\* Steps that leave the sessions' phases and the page alone leave its sockets.
LEMMA SpareUnmoved ==
  ASSUME Spare, Live' = Live, page' = page
  PROVE  Spare'
BY DEF Spare, Extra, Beside

\* What holds at every step.
LEMMA NextKeeps ==
  ASSUME Typed, Spare, [Next]_vars
  PROVE  Typed' /\ Spare'
<1>1. CASE Write
  <2>1. session' = session /\ page' = page
    BY <1>1 DEF Write, DigestCommit, PutStatus, SilentChange, Remove
  <2>2. Live' = Live
    BY <2>1 DEF Live
  <2>. QED
    BY <1>1, <2>1, <2>2, WritesTyped, SpareUnmoved
<1>2. ASSUME NEW k \in Sockets, Serve(k) PROVE Typed' /\ Spare'
  <2>1. page' = page
    BY <1>2 DEF Serve, Subscribe, LoadIssues, SendSnapshot, Forward, Lagged
  <2>. QED
    BY <1>2, <2>1, ServeTyped, SpareUnmoved
<1>3. ASSUME NEW k \in Sockets, Handle(k) PROVE Typed' /\ Spare'
  <2>1. page' = page /\ Live' = Live
    BY <1>3 DEF Handle, Live
  <2>. QED
    BY <1>3, <2>1, HandleTyped, SpareUnmoved
<1>4. CASE UNCHANGED vars
  BY <1>4 DEF vars, store, Typed, StoreTyped, SessionsTyped, WiresTyped, PageTyped, Live,
              Spare, Extra, Beside
<1>. QED
  BY <1>1, <1>2, <1>3, <1>4, ConnectKeeps, DisconnectKeeps, ClosedLateKeeps,
     ReconnectKeeps, CloseKeeps, RestartKeeps DEF Next

\* The sockets beside the page's own are accounted for, so all are.
LEMMA SpareIsEnough == Typed /\ Spare => OneSocket
<1>. SUFFICES ASSUME Typed, Spare PROVE OneSocket
  OBVIOUS
<1>1. CASE page.socket = NoSocket
  <2>1. Live \ {page.socket} = Live
    BY <1>1, PageFacts
  <2>. QED
    BY <1>1, <2>1, PageFacts DEF Spare, Extra, Beside, OneSocket
<1>2. CASE page.socket \in Live
  <2>1. Extra = Cardinality(Live) - 1 /\ Cardinality(Live) \in Nat
    BY <1>2, PageFacts, LiveFinite DEF Extra
  <2>. QED
    BY <1>2, <2>1, PageFacts DEF Spare, Beside, OneSocket
<1>. QED
  BY <1>1, <1>2, PageFacts

\* Every variable has its type: among others, no cursor is past the newest
\* message, also after a restart, and a page never takes a dead socket for its
\* own (ws.rs:106-155, ws.ts:25-152).
THEOREM LiveViewTyped == Spec => []TypeOK
<1>1. Typed /\ Spare /\ [Next]_vars => (Typed /\ Spare)'
  BY NextKeeps
<1>. QED
  BY <1>1, InitKeeps, TypedIsTypeOK, PTL DEF Spec

\* A page has one socket, and no timer beside it, but for one more from each
\* socket that told of its end after the next connect() (ws.ts:102-119).
THEOREM SocketsAccountedFor == Spec => []OneSocket
<1>1. Typed /\ Spare /\ [Next]_vars => (Typed /\ Spare)'
  BY NextKeeps
<1>. QED
  BY <1>1, InitKeeps, SpareIsEnough, PTL DEF Spec

----------------------------------------------------------------------------
(***************************************************************************)
(* What a page will show                                                   *)
(***************************************************************************)

\* The frame decides what the page shows of i.
Mentions(frame, i) == frame.type = "snapshot" \/ frame.issue.id = i

\* It shows version v.
Gives(frame, i, v) ==
  IF frame.type = "snapshot" THEN i \in DOMAIN frame.rows /\ frame.rows[i] = v
                             ELSE frame.issue = Message(i, v)

\* The last frame about i gives version v.
EndsWith(frames, i, v) ==
  \E n \in 1 .. Len(frames) :
    /\ Gives(frames[n], i, v)
    /\ \A m \in n + 1 .. Len(frames) : ~Mentions(frames[m], i)

OnWire(frames, i) == \E n \in 1 .. Len(frames) : Mentions(frames[n], i)

\* The messages of lg after cursor c are about i, the last with version v.
Ahead(lg, c, i) == \E n \in c + 1 .. Len(lg) : lg[n].id = i

LastIs(lg, c, i, v) ==
  \E n \in c + 1 .. Len(lg) :
    /\ lg[n] = Message(i, v)
    /\ \A m \in n + 1 .. Len(lg) : lg[m].id # i

\* Of every row of tbl but the stale ones, what a session has still to tell the
\* page, if anything, ends with the row as it is.
EndsCurrent(task, frames, st, lg, tbl) ==
  \A i \in DOMAIN tbl \ st :
    IF Ahead(lg, task.cursor, i)
      THEN task.pc \in {"subscribed", "loaded", "streaming"} =>
             LastIs(lg, task.cursor, i, tbl[i])
      ELSE /\ task.pc = "loaded" =>
                i \in DOMAIN task.snapshot /\ task.snapshot[i] = tbl[i]
           /\ OnWire(frames, i) => EndsWith(frames, i, tbl[i])

\* The snapshot is the first frame a session writes, and the only one.
SnapshotFirst(task, frames) ==
  /\ task.pc # "streaming" => Len(frames) = 0
  /\ \A n \in 2 .. Len(frames) : frames[n].type = "issue"

\* A session that has not changed what the page shows yet.
Fresh(task, frames) ==
  \/ task.pc # "streaming"
  \/ Len(frames) > 0 /\ frames[1].type = "snapshot"

\* i is one of the ids the session has still to bring up to date.
Owes(task, frames, st, lg, i) ==
  \/ Ahead(lg, task.cursor, i)
  \/ i \in st
  \/ \E n \in 1 .. Len(frames) : frames[n].type = "issue" /\ frames[n].issue.id = i

\* Some session has told the page of i, and none that has told it anything has
\* to tell it more.
Told(i) ==
  /\ \E k \in Live : ~Fresh(session[k], wire[k])
  /\ \A k \in Live : \/ Fresh(session[k], wire[k])
                     \/ ~Owes(session[k], wire[k], stale[k], log, i)

ViewInv ==
  /\ \A k \in Sockets : /\ EndsCurrent(session[k], wire[k], stale[k], log, rows)
                        /\ SnapshotFirst(session[k], wire[k])
  /\ \A i \in DOMAIN rows : Told(i) => Shows(i)

\* The model's own sets, so said.
LEMMA PendingIs ==
  ASSUME Typed, NEW k \in Sockets, NEW i
  PROVE  /\ i \in Pending(k) <=> Ahead(log, session[k].cursor, i)
         /\ i \in Owed(k) <=> Owes(session[k], wire[k], stale[k], log, i)
<1>1. i \in Pending(k) <=> Ahead(log, session[k].cursor, i)
  BY DEF Pending, Ahead
<1>2. DOMAIN wire[k] = 1 .. Len(wire[k])
  BY DEF Typed, WiresTyped
<1>. QED BY <1>1, <1>2 DEF Owed, Owes

----------------------------------------------------------------------------
(***************************************************************************)
(* Frames                                                                  *)
(***************************************************************************)

\* One frame more.
LEMMA FrameAdded ==
  ASSUME NEW frames \in Seq(Frames), NEW frame \in Frames
  PROVE  LET more == Append(frames, frame) IN
         /\ Len(more) = Len(frames) + 1 /\ Len(frames) \in Nat
         /\ more[Len(more)] = frame
         /\ \A n \in 1 .. Len(frames) : more[n] = frames[n]
         /\ \A i, v : Gives(frame, i, v) => EndsWith(more, i, v)
         /\ \A i : OnWire(more, i) <=> OnWire(frames, i) \/ Mentions(frame, i)
         /\ \A i, v : ~Mentions(frame, i) /\ EndsWith(frames, i, v) => EndsWith(more, i, v)
<1> DEFINE more == Append(frames, frame)
<1>1. /\ Len(more) = Len(frames) + 1 /\ Len(frames) \in Nat
      /\ more[Len(more)] = frame
      /\ \A n \in 1 .. Len(frames) : more[n] = frames[n]
  OBVIOUS
<1> HIDE DEF more
<1>2. \A i, v : Gives(frame, i, v) => EndsWith(more, i, v)
  BY <1>1 DEF EndsWith
<1>3. \A i : OnWire(more, i) <=> OnWire(frames, i) \/ Mentions(frame, i)
  <2>1. \A n \in 1 .. Len(more) : n \in 1 .. Len(frames) \/ n = Len(more)
    BY <1>1
  <2>. QED BY <1>1, <2>1 DEF OnWire
<1>4. ASSUME NEW i, NEW v, ~Mentions(frame, i), EndsWith(frames, i, v)
      PROVE  EndsWith(more, i, v)
  <2>1. PICK n \in 1 .. Len(frames) :
          /\ Gives(frames[n], i, v)
          /\ \A m \in n + 1 .. Len(frames) : ~Mentions(frames[m], i)
    BY <1>4 DEF EndsWith
  <2>2. n \in 1 .. Len(more) /\ more[n] = frames[n]
    BY <1>1
  <2>3. \A m \in n + 1 .. Len(more) : m \in n + 1 .. Len(frames) \/ m = Len(more)
    BY <1>1
  <2>4. \A m \in n + 1 .. Len(more) : ~Mentions(more[m], i)
    BY <1>1, <1>4, <2>1, <2>3
  <2>. QED BY <2>1, <2>2, <2>4 DEF EndsWith
<1>. QED BY <1>1, <1>2, <1>3, <1>4 DEF more

\* One frame less.
LEMMA FrameRead ==
  ASSUME NEW frames \in Seq(Frames), frames # <<>>
  PROVE  LET rest == Tail(frames) IN
         /\ Len(rest) = Len(frames) - 1 /\ Len(rest) \in Nat
         /\ Head(frames) = frames[1] /\ Head(frames) \in Frames
         /\ \A n \in 1 .. Len(rest) : rest[n] = frames[n + 1] /\ n + 1 \in 1 .. Len(frames)
         /\ \A i : OnWire(frames, i) <=> OnWire(rest, i) \/ Mentions(Head(frames), i)
         /\ \A i, v : EndsWith(frames, i, v) =>
              IF OnWire(rest, i) THEN EndsWith(rest, i, v) ELSE Gives(Head(frames), i, v)
<1> DEFINE rest == Tail(frames)
<1>1. /\ Len(rest) = Len(frames) - 1 /\ Len(rest) \in Nat /\ Len(frames) \in Nat
      /\ Head(frames) = frames[1] /\ Head(frames) \in Frames
      /\ \A n \in 1 .. Len(rest) : rest[n] = frames[n + 1] /\ n + 1 \in 1 .. Len(frames)
  OBVIOUS
<1> HIDE DEF rest
<1>2. \A n \in 1 .. Len(frames) : n = 1 \/ (n - 1 \in 1 .. Len(rest) /\ rest[n - 1] = frames[n])
  BY <1>1
<1>3. 1 \in 1 .. Len(frames)
  BY <1>1
<1>4. \A i : OnWire(frames, i) <=> OnWire(rest, i) \/ Mentions(Head(frames), i)
  BY <1>1, <1>2, <1>3 DEF OnWire
<1>5. \A frame, i, v : Gives(frame, i, v) => Mentions(frame, i)
  BY DEF Gives, Mentions, Message
<1>6. ASSUME NEW i, NEW v, EndsWith(frames, i, v)
      PROVE  IF OnWire(rest, i) THEN EndsWith(rest, i, v) ELSE Gives(Head(frames), i, v)
  <2>1. PICK n \in 1 .. Len(frames) :
          /\ Gives(frames[n], i, v)
          /\ \A m \in n + 1 .. Len(frames) : ~Mentions(frames[m], i)
    BY <1>6 DEF EndsWith
  <2>2. CASE n = 1
    <3>1. \A m \in 1 .. Len(rest) : m + 1 \in 2 .. Len(frames)
      BY <1>1
    <3>2. ~OnWire(rest, i)
      BY <1>1, <2>1, <2>2, <3>1 DEF OnWire
    <3>. QED BY <1>1, <2>1, <2>2, <3>2
  <2>3. CASE n # 1
    <3>1. n - 1 \in 1 .. Len(rest) /\ rest[n - 1] = frames[n]
      BY <1>2, <2>3
    <3>2. \A m \in (n - 1) + 1 .. Len(rest) : m + 1 \in n + 1 .. Len(frames)
                                               /\ rest[m] = frames[m + 1]
      BY <1>1, <3>1
    <3>3. EndsWith(rest, i, v)
      BY <2>1, <3>1, <3>2 DEF EndsWith
    <3>4. OnWire(rest, i)
      BY <1>5, <2>1, <3>1 DEF OnWire
    <3>. QED BY <3>3, <3>4
  <2>. QED BY <2>2, <2>3
<1>. QED BY <1>1, <1>4, <1>6 DEF rest

----------------------------------------------------------------------------
(***************************************************************************)
(* Messages                                                                *)
(***************************************************************************)

\* More messages: a session has still to send those it had, then these.
LEMMA MoreMessages ==
  ASSUME NEW lg \in Seq(Messages), NEW more \in Seq(Messages), NEW c \in 0 .. Len(lg)
  PROVE  LET all == lg \o more
             Says(i) == \E n \in 1 .. Len(more) : more[n].id = i
         IN
         /\ \A i : Ahead(all, c, i) <=> Ahead(lg, c, i) \/ Says(i)
         /\ \A i, v : ~Says(i) /\ LastIs(lg, c, i, v) => LastIs(all, c, i, v)
         /\ \A i, v : \A n \in 1 .. Len(more) :
              /\ more[n] = Message(i, v)
              /\ \A m \in n + 1 .. Len(more) : more[m].id # i
              => LastIs(all, c, i, v)
<1> DEFINE all == lg \o more
           Says(i) == \E n \in 1 .. Len(more) : more[n].id = i
<1>1. /\ Len(all) = Len(lg) + Len(more) /\ Len(lg) \in Nat /\ Len(more) \in Nat
      /\ \A n \in 1 .. Len(lg) : all[n] = lg[n]
      /\ \A n \in 1 .. Len(more) : all[Len(lg) + n] = more[n]
  OBVIOUS
<1> HIDE DEF all
<1>2. \A n \in 1 .. Len(all) : n \notin 1 .. Len(lg) =>
        n - Len(lg) \in 1 .. Len(more) /\ all[n] = more[n - Len(lg)]
  <2>. SUFFICES ASSUME NEW n \in 1 .. Len(all), n \notin 1 .. Len(lg)
       PROVE  n - Len(lg) \in 1 .. Len(more) /\ all[n] = more[n - Len(lg)]
    OBVIOUS
  <2>1. n - Len(lg) \in 1 .. Len(more) /\ n = Len(lg) + (n - Len(lg))
    BY <1>1
  <2>. QED BY <1>1, <2>1
<1>3. ASSUME NEW i PROVE Ahead(all, c, i) <=> Ahead(lg, c, i) \/ Says(i)
  <2>1. ASSUME Ahead(all, c, i) PROVE Ahead(lg, c, i) \/ Says(i)
    <3>1. PICK n \in c + 1 .. Len(all) : all[n].id = i
      BY <2>1 DEF Ahead
    <3>2. CASE n \in 1 .. Len(lg)
      <4>1. n \in c + 1 .. Len(lg) /\ all[n] = lg[n]
        BY <1>1, <3>2
      <4>. QED BY <3>1, <4>1 DEF Ahead
    <3>3. CASE n \notin 1 .. Len(lg)
      <4>1. n \in 1 .. Len(all)
        BY <1>1
      <4>. QED BY <1>2, <3>1, <3>3, <4>1
    <3>. QED BY <3>2, <3>3
  <2>2. ASSUME Ahead(lg, c, i) PROVE Ahead(all, c, i)
    <3>1. \A n \in c + 1 .. Len(lg) : n \in c + 1 .. Len(all) /\ all[n] = lg[n]
      BY <1>1
    <3>. QED BY <2>2, <3>1 DEF Ahead
  <2>3. ASSUME Says(i) PROVE Ahead(all, c, i)
    <3>1. \A n \in 1 .. Len(more) : Len(lg) + n \in c + 1 .. Len(all)
      BY <1>1
    <3>. QED BY <1>1, <2>3, <3>1 DEF Ahead
  <2>. QED BY <2>1, <2>2, <2>3
<1>4. ASSUME NEW i, NEW v, ~Says(i), LastIs(lg, c, i, v) PROVE LastIs(all, c, i, v)
  <2>1. PICK n \in c + 1 .. Len(lg) :
          lg[n] = Message(i, v) /\ \A m \in n + 1 .. Len(lg) : lg[m].id # i
    BY <1>4 DEF LastIs
  <2>2. n \in c + 1 .. Len(all) /\ all[n] = lg[n]
    BY <1>1
  <2>3. ASSUME NEW m \in n + 1 .. Len(all) PROVE all[m].id # i
    <3>1. m \in 1 .. Len(all)
      BY <1>1, <2>2
    <3>2. CASE m \in 1 .. Len(lg)
      <4>1. m \in n + 1 .. Len(lg) /\ all[m] = lg[m]
        BY <1>1, <3>2
      <4>. QED BY <2>1, <4>1
    <3>3. CASE m \notin 1 .. Len(lg)
      BY <1>2, <1>4, <3>1, <3>3
    <3>. QED BY <3>2, <3>3
  <2>. QED BY <2>1, <2>2, <2>3 DEF LastIs
<1>5. ASSUME NEW i, NEW v, NEW n \in 1 .. Len(more), more[n] = Message(i, v),
             \A m \in n + 1 .. Len(more) : more[m].id # i
      PROVE  LastIs(all, c, i, v)
  <2>1. Len(lg) + n \in c + 1 .. Len(all) /\ all[Len(lg) + n] = Message(i, v)
    BY <1>1, <1>5
  <2>2. ASSUME NEW m \in (Len(lg) + n) + 1 .. Len(all) PROVE all[m].id # i
    <3>1. m \in 1 .. Len(all) /\ m \notin 1 .. Len(lg)
      BY <1>1
    <3>2. m - Len(lg) \in n + 1 .. Len(more) /\ all[m] = more[m - Len(lg)]
      BY <1>1, <1>2, <3>1
    <3>. QED BY <1>5, <3>2
  <2>. QED BY <2>1, <2>2 DEF LastIs
<1>. QED BY <1>3, <1>4, <1>5 DEF all

\* A session that goes on from cursor d: of the ids it had messages about, some
\* it has no more of.
LEMMA CursorMoved ==
  ASSUME NEW lg \in Seq(Messages), NEW c \in 0 .. Len(lg), NEW d \in c .. Len(lg)
  PROVE  LET Passed(i) == \E n \in c + 1 .. d : lg[n].id = i IN
         /\ \A i : Ahead(lg, c, i) <=> Ahead(lg, d, i) \/ Passed(i)
         /\ \A i, v : Ahead(lg, d, i) /\ LastIs(lg, c, i, v) => LastIs(lg, d, i, v)
<1> DEFINE Passed(i) == \E n \in c + 1 .. d : lg[n].id = i
<1>1. Len(lg) \in Nat
  OBVIOUS
<1>2. /\ \A n \in c + 1 .. Len(lg) : n \in c + 1 .. d \/ n \in d + 1 .. Len(lg)
      /\ \A n \in d + 1 .. Len(lg) : n \in c + 1 .. Len(lg)
      /\ \A n \in c + 1 .. d : n \in c + 1 .. Len(lg)
  BY <1>1
<1>3. \A i : Ahead(lg, c, i) <=> Ahead(lg, d, i) \/ Passed(i)
  BY <1>2 DEF Ahead
<1>4. ASSUME NEW i, NEW v, Ahead(lg, d, i), LastIs(lg, c, i, v)
      PROVE  LastIs(lg, d, i, v)
  <2>1. PICK n \in c + 1 .. Len(lg) :
          lg[n] = Message(i, v) /\ \A m \in n + 1 .. Len(lg) : lg[m].id # i
    BY <1>4 DEF LastIs
  <2>2. PICK m \in d + 1 .. Len(lg) : lg[m].id = i
    BY <1>4 DEF Ahead
  <2>3. m \notin n + 1 .. Len(lg)
    BY <2>1, <2>2
  <2>4. n \in d + 1 .. Len(lg)
    BY <1>1, <2>3
  <2>. QED BY <2>1, <2>4 DEF LastIs
<1>. QED BY <1>3, <1>4

\* A number that is the largest in a set of positions has none after it.
LEMMA LastPosition ==
  ASSUME NEW len \in Nat, NEW S \in SUBSET (1 .. len), S # {}
  PROVE  \E n \in S : \A m \in S : m <= n
<1> DEFINE T == {len - n : n \in S}
<1>1. T \subseteq Nat /\ T # {}
  <2>1. \A n \in S : n \in Nat /\ n <= len
    OBVIOUS
  <2>2. \A n \in S : len - n \in Nat
    BY <2>1
  <2>. QED BY <2>2
<1>2. PICK t \in T : \A u \in T : <<u, t>> \notin OpToRel(<, Nat)
  BY <1>1, NatLessThanWellFounded, WFMin
<1>3. \A u \in T : ~(u < t)
  BY <1>1, <1>2 DEF OpToRel
<1>4. PICK n \in S : t = len - n
  OBVIOUS
<1>5. ASSUME NEW m \in S PROVE m <= n
  <2>1. len - m \in T
    OBVIOUS
  <2>2. ~(len - m < len - n)
    BY <1>3, <1>4, <2>1
  <2>. QED BY <2>2
<1>. QED BY <1>5

----------------------------------------------------------------------------
(***************************************************************************)
(* The invariant, step by step: the writers                                *)
(***************************************************************************)

\* A commit keeps the invariant if of each row it leaves, each session is told
\* last the row as it is now, or knows itself behind, or nothing changed.
LEMMA WriteKeepsView ==
  ASSUME Typed, ViewInv, UNCHANGED <<session, wire, view>>,
         \A i \in DOMAIN rows' :
           \/ \A k \in Sockets : i \in stale'[k]
           \/ \A k \in Sockets : /\ Ahead(log', session[k].cursor, i)
                                 /\ LastIs(log', session[k].cursor, i, rows'[i])
           \/ /\ i \in DOMAIN rows /\ rows'[i] = rows[i]
              /\ \A k \in Sockets :
                   /\ i \in stale'[k] <=> i \in stale[k]
                   /\ Ahead(log', session[k].cursor, i) <=> Ahead(log, session[k].cursor, i)
                   /\ LastIs(log, session[k].cursor, i, rows[i])
                        => LastIs(log', session[k].cursor, i, rows[i])
  PROVE  ViewInv'
<1> DEFINE Behind(i) == \A k \in Sockets : i \in stale'[k]
           Sent(i) == \A k \in Sockets : /\ Ahead(log', session[k].cursor, i)
                                         /\ LastIs(log', session[k].cursor, i, rows'[i])
           Same(i) == /\ i \in DOMAIN rows /\ rows'[i] = rows[i]
                      /\ \A k \in Sockets :
                           /\ i \in stale'[k] <=> i \in stale[k]
                           /\ Ahead(log', session[k].cursor, i)
                                <=> Ahead(log, session[k].cursor, i)
                           /\ LastIs(log, session[k].cursor, i, rows[i])
                                => LastIs(log', session[k].cursor, i, rows[i])
<1>1. \A i \in DOMAIN rows' : Behind(i) \/ Sent(i) \/ Same(i)
  OBVIOUS
<1>2. ASSUME NEW k \in Sockets
      PROVE  EndsCurrent(session[k], wire[k], stale'[k], log', rows')
  <2>1. ASSUME NEW i \in DOMAIN rows' \ stale'[k]
        PROVE  IF Ahead(log', session[k].cursor, i)
                 THEN session[k].pc \in {"subscribed", "loaded", "streaming"} =>
                        LastIs(log', session[k].cursor, i, rows'[i])
                 ELSE /\ session[k].pc = "loaded" =>
                           i \in DOMAIN session[k].snapshot /\ session[k].snapshot[i] = rows'[i]
                      /\ OnWire(wire[k], i) => EndsWith(wire[k], i, rows'[i])
    <3>1. Sent(i) \/ Same(i)
      BY <1>1, <2>1
    <3>2. CASE Sent(i)
      BY <3>2
    <3>3. CASE Same(i)
      <4>1. i \in DOMAIN rows \ stale[k]
        BY <2>1, <3>3
      <4>2. EndsCurrent(session[k], wire[k], stale[k], log, rows)
        BY DEF ViewInv
      <4>. QED BY <3>3, <4>1, <4>2 DEF EndsCurrent
    <3>. QED BY <3>1, <3>2, <3>3
  <2>. HIDE DEF Behind, Sent, Same
  <2>. QED BY <2>1 DEF EndsCurrent
<1>3. ASSUME NEW i \in DOMAIN rows', Told(i)' PROVE Shows(i)'
  <2>1. Live' = Live /\ Live \subseteq Sockets
    BY DEF Live
  <2>2. PICK k \in Live : ~Fresh(session[k], wire[k])
    BY <1>3, <2>1 DEF Told
  <2>3. ~Owes(session[k], wire[k], stale'[k], log', i)
    BY <1>3, <2>1, <2>2 DEF Told
  <2>4. Same(i)
    <3>1. i \notin stale'[k] /\ ~Ahead(log', session[k].cursor, i)
      BY <2>3 DEF Owes
    <3>. QED BY <1>1, <2>1, <3>1
  <2>5. \A j \in Sockets : Owes(session[j], wire[j], stale[j], log, i)
                             => Owes(session[j], wire[j], stale'[j], log', i)
    BY <2>4 DEF Owes
  <2>6. Told(i)
    BY <1>3, <2>1, <2>5 DEF Told
  <2>. QED BY <2>4, <2>6 DEF ViewInv, Shows
<1>4. \A k \in Sockets : SnapshotFirst(session[k], wire[k])
  BY DEF ViewInv
<1>. HIDE DEF Behind, Sent, Same
<1>. QED BY <1>2, <1>3, <1>4 DEF ViewInv

\* Sending `more`, the last about each changed id with its new row.
LEMMA SendKeepsView ==
  ASSUME Typed, ViewInv, UNCHANGED <<session, wire, view>>,
         NEW more \in Seq(Messages), log' = log \o more,
         NEW changed, Heal(changed),
         \A n \in 1 .. Len(more) : more[n].id \in changed,
         \A i \in changed : \E n \in 1 .. Len(more) :
           /\ more[n] = Message(i, rows'[i])
           /\ \A m \in n + 1 .. Len(more) : more[m].id # i,
         \A i \in DOMAIN rows' \ changed : i \in DOMAIN rows /\ rows'[i] = rows[i]
  PROVE  ViewInv'
<1> DEFINE Says(i) == \E n \in 1 .. Len(more) : more[n].id = i
<1>1. log \in Seq(Messages) /\ \A k \in Sockets : session[k].cursor \in 0 .. Len(log)
  BY CursorTyped DEF Typed, StoreTyped
<1>2. ASSUME NEW k \in Sockets
      PROVE  LET c == session[k].cursor IN
             /\ \A i : Ahead(log', c, i) <=> Ahead(log, c, i) \/ Says(i)
             /\ \A i, v : ~Says(i) /\ LastIs(log, c, i, v) => LastIs(log', c, i, v)
             /\ \A i, v : \A n \in 1 .. Len(more) :
                  /\ more[n] = Message(i, v)
                  /\ \A m \in n + 1 .. Len(more) : more[m].id # i
                  => LastIs(log', c, i, v)
  <2> DEFINE c == session[k].cursor
  <2>. HIDE DEF c
  <2>1. c \in 0 .. Len(log)
    BY <1>1 DEF c
  <2>2. /\ \A i : Ahead(log', c, i) <=> Ahead(log, c, i) \/ Says(i)
        /\ \A i, v : ~Says(i) /\ LastIs(log, c, i, v) => LastIs(log', c, i, v)
        /\ \A i, v : \A n \in 1 .. Len(more) :
             /\ more[n] = Message(i, v)
             /\ \A m \in n + 1 .. Len(more) : more[m].id # i
             => LastIs(log', c, i, v)
    BY <1>1, <2>1, MoreMessages
  <2>. QED BY <2>2 DEF c
<1>3. \A k \in Sockets : stale'[k] = stale[k] \ changed
  BY DEF Heal
<1>4. ASSUME NEW i \in DOMAIN rows', i \in changed, NEW k \in Sockets
      PROVE  /\ Ahead(log', session[k].cursor, i)
             /\ LastIs(log', session[k].cursor, i, rows'[i])
  <2>1. PICK n \in 1 .. Len(more) :
          /\ more[n] = Message(i, rows'[i])
          /\ \A m \in n + 1 .. Len(more) : more[m].id # i
    BY <1>4
  <2>2. Says(i)
    BY <2>1 DEF Message
  <2>. QED BY <1>2, <2>1, <2>2
<1>5. ASSUME NEW i \in DOMAIN rows', i \notin changed
      PROVE  /\ i \in DOMAIN rows /\ rows'[i] = rows[i]
             /\ \A k \in Sockets :
                  /\ i \in stale'[k] <=> i \in stale[k]
                  /\ Ahead(log', session[k].cursor, i) <=> Ahead(log, session[k].cursor, i)
                  /\ LastIs(log, session[k].cursor, i, rows[i])
                       => LastIs(log', session[k].cursor, i, rows[i])
  <2>1. ~Says(i)
    BY <1>5
  <2>. QED BY <1>2, <1>3, <1>5, <2>1
<1>. HIDE DEF Says
<1>6. \A i \in DOMAIN rows' :
        \/ \A k \in Sockets : i \in stale'[k]
        \/ \A k \in Sockets : /\ Ahead(log', session[k].cursor, i)
                              /\ LastIs(log', session[k].cursor, i, rows'[i])
        \/ /\ i \in DOMAIN rows /\ rows'[i] = rows[i]
           /\ \A k \in Sockets :
                /\ i \in stale'[k] <=> i \in stale[k]
                /\ Ahead(log', session[k].cursor, i) <=> Ahead(log, session[k].cursor, i)
                /\ LastIs(log, session[k].cursor, i, rows[i])
                     => LastIs(log', session[k].cursor, i, rows[i])
  BY <1>4, <1>5
<1>. QED BY <1>6, WriteKeepsView

\* The digest task: the last message about an id counts all its occurrences.
LEMMA DigestKeepsView ==
  ASSUME Typed, ViewInv, NEW n \in 1 .. BatchSize, NEW ids \in [1 .. n -> Ids],
         DigestCommit(ids)
  PROVE  ViewInv'
<1> DEFINE upTo(m) == Cardinality({l \in 1 .. m : ids[l] = ids[m]})
           version(m) == NextVersion(ids[m]) + upTo(m) - 1
           touched == {ids[m] : m \in DOMAIN ids}
           times(i) == Cardinality({m \in DOMAIN ids : ids[m] = i})
           final(i) == NextVersion(i) + times(i) - 1
           sent == [m \in DOMAIN ids |-> Message(ids[m], version(m))]
<1>1. n \in Nat /\ DOMAIN ids = 1 .. n
  BY LiveViewAssumption
<1>2. /\ rows' = [i \in DOMAIN rows \cup touched |-> IF i \in touched THEN final(i) ELSE rows[i]]
      /\ log' = log \o sent
      /\ Heal(touched)
      /\ UNCHANGED <<session, wire, view>>
  BY DEF DigestCommit
<1>3. sent \in Seq(Messages) /\ Len(sent) = n
  <2>1. \A m \in 1 .. n : version(m) \in Nat \ {0}
    <3>. SUFFICES ASSUME NEW m \in 1 .. n PROVE version(m) \in Nat \ {0}
      OBVIOUS
    <3>1. upTo(m) \in Nat \ {0}
      <4>1. IsFiniteSet({l \in 1 .. m : ids[l] = ids[m]})
        BY <1>1, FS_Interval, FS_Subset
      <4>2. m \in {l \in 1 .. m : ids[l] = ids[m]}
        BY <1>1
      <4>. QED BY <4>1, <4>2, FS_EmptySet, FS_CardinalityType
    <3>2. NextVersion(ids[m]) \in Nat \ {0}
      BY NextVersionTyped DEF Typed, StoreTyped
    <3>. HIDE DEF upTo
    <3>. QED BY <3>1, <3>2
  <2>2. \A m \in 1 .. n : Message(ids[m], version(m)) \in Messages
    BY <1>1, <2>1 DEF Message, Messages
  <2>. HIDE DEF version
  <2>. QED BY <1>1, <2>2
<1>4. \A m \in 1 .. n : sent[m] = Message(ids[m], version(m)) /\ sent[m].id = ids[m]
  <2>. HIDE DEF version
  <2>. QED BY <1>1 DEF Message
<1>5. ASSUME NEW i \in touched
      PROVE  \E m \in 1 .. n : /\ sent[m] = Message(i, rows'[i])
                               /\ \A l \in m + 1 .. n : sent[l].id # i
  <2> DEFINE S == {m \in 1 .. n : ids[m] = i}
  <2>1. PICK m \in S : \A l \in S : l <= m
    <3>1. S \in SUBSET (1 .. n) /\ S # {}
      BY <1>1
    <3>. HIDE DEF S
    <3>. QED BY <1>1, <3>1, LastPosition
  <2>2. m \in 1 .. n /\ ids[m] = i
    OBVIOUS
  <2>3. \A l \in m + 1 .. n : l \in 1 .. n /\ l \notin S
    BY <1>1, <2>1, <2>2
  <2>4. {l \in 1 .. m : ids[l] = ids[m]} = {l \in DOMAIN ids : ids[l] = i}
    <3>1. \A l \in 1 .. n : ids[l] = i => l \in 1 .. m
      BY <1>1, <2>1, <2>2
    <3>2. \A l \in 1 .. m : l \in 1 .. n
      BY <1>1, <2>2
    <3>. QED BY <1>1, <2>2, <3>1, <3>2
  <2>5. version(m) = final(i)
    BY <2>2, <2>4
  <2>6. rows'[i] = final(i)
    <3>. HIDE DEF final, touched
    <3>. QED BY <1>2, <1>5
  <2>7. \A l \in m + 1 .. n : sent[l].id # i
    <3>1. \A l \in m + 1 .. n : l \in 1 .. n /\ ids[l] # i
      BY <2>3
    <3>. HIDE DEF sent, S
    <3>. QED BY <1>4, <3>1
  <2>. HIDE DEF sent, version, final, S
  <2>. QED BY <1>4, <2>2, <2>5, <2>6, <2>7
<1>6. /\ \A m \in 1 .. n : sent[m].id \in touched
      /\ \A i \in DOMAIN rows' \ touched : i \in DOMAIN rows /\ rows'[i] = rows[i]
  <2>1. \A m \in 1 .. n : ids[m] \in touched
    BY <1>1
  <2>. HIDE DEF sent, touched, final
  <2>. QED BY <1>2, <1>4, <2>1
<1>. HIDE DEF sent, touched, final
<1>7. /\ \A m \in 1 .. Len(sent) : sent[m].id \in touched
      /\ \A i \in touched : \E m \in 1 .. Len(sent) :
           /\ sent[m] = Message(i, rows'[i])
           /\ \A l \in m + 1 .. Len(sent) : sent[l].id # i
  BY <1>3, <1>5, <1>6
<1>. QED BY <1>2, <1>3, <1>6, <1>7, SendKeepsView

\* The other commits.
LEMMA WritesKeepView == ASSUME Typed, ViewInv, Write PROVE ViewInv'
<1>1. ASSUME NEW i \in Ids, PutStatus(i) PROVE ViewInv'
  <2> DEFINE more == <<Message(i, rows'[i])>>
  <2>1. /\ i \in DOMAIN rows /\ rows' = [rows EXCEPT ![i] = @ + 1]
        /\ Heal({i}) /\ log' = Append(log, Message(i, rows'[i]))
        /\ UNCHANGED <<session, wire, view>>
    BY <1>1 DEF PutStatus
  <2>2. Message(i, rows'[i]) \in Messages
    BY <2>1 DEF Message, Messages, Typed, StoreTyped, VersionMaps
  <2>3. more \in Seq(Messages) /\ log' = log \o more
    BY <2>1, <2>2 DEF Typed, StoreTyped
  <2>4. Len(more) = 1 /\ more[1] = Message(i, rows'[i]) /\ more[1].id = i
    BY DEF Message
  <2>5. \A j \in DOMAIN rows' \ {i} : j \in DOMAIN rows /\ rows'[j] = rows[j]
    BY <2>1
  <2>. HIDE DEF more
  <2>6. /\ \A n \in 1 .. Len(more) : more[n].id \in {i}
        /\ \A j \in {i} : \E n \in 1 .. Len(more) :
             /\ more[n] = Message(j, rows'[j])
             /\ \A m \in n + 1 .. Len(more) : more[m].id # j
    BY <2>4
  <2>. QED BY <2>1, <2>3, <2>5, <2>6, SendKeepsView
<1>2. ASSUME NEW i \in Ids, SilentChange(i) PROVE ViewInv'
  <2>1. /\ rows' = [rows EXCEPT ![i] = @ + 1]
        /\ \A k \in Sockets : stale'[k] = stale[k] \cup {i}
        /\ UNCHANGED <<log, session, wire, view>>
    BY <1>2 DEF SilentChange
  <2>2. \A k \in Sockets : i \in stale'[k]
    BY <2>1
  <2>3. \A j \in DOMAIN rows' : j # i =>
          /\ j \in DOMAIN rows /\ rows'[j] = rows[j]
          /\ \A k \in Sockets : j \in stale'[k] <=> j \in stale[k]
    BY <2>1
  <2>. QED BY <2>1, <2>2, <2>3, WriteKeepsView
<1>3. ASSUME NEW gone, Remove(gone) PROVE ViewInv'
  <2>1. /\ rows' = [i \in DOMAIN rows \ gone |-> rows[i]]
        /\ \A k \in Sockets : stale'[k] = stale[k] \ gone
        /\ UNCHANGED <<log, session, wire, view>>
    BY <1>3 DEF Remove, Heal
  <2>2. \A j \in DOMAIN rows' :
          /\ j \in DOMAIN rows /\ rows'[j] = rows[j]
          /\ \A k \in Sockets : j \in stale'[k] <=> j \in stale[k]
    BY <2>1
  <2>. QED BY <2>1, <2>2, WriteKeepsView
<1>. QED BY <1>1, <1>2, <1>3, DigestKeepsView DEF Write

----------------------------------------------------------------------------
(***************************************************************************)
(* The invariant, step by step: the sessions                               *)
(***************************************************************************)

\* A step of a session keeps the invariant if the session has as much to tell
\* the page after it as before, and has begun to only if it had before.
LEMMA ServeKeepsView ==
  ASSUME Typed, ViewInv, NEW k \in Sockets,
         UNCHANGED <<rows, log, view>>, Live' = Live,
         \A j \in Sockets \ {k} : /\ session'[j] = session[j] /\ wire'[j] = wire[j]
                                  /\ stale'[j] = stale[j],
         EndsCurrent(session'[k], wire'[k], stale'[k], log, rows),
         SnapshotFirst(session'[k], wire'[k]),
         Fresh(session'[k], wire'[k]) <=> Fresh(session[k], wire[k]),
         Fresh(session[k], wire[k]) \/
           \A i \in DOMAIN rows : Owes(session[k], wire[k], stale[k], log, i)
                                    => Owes(session'[k], wire'[k], stale'[k], log, i)
  PROVE  ViewInv'
<1>1. \A j \in Sockets : /\ EndsCurrent(session'[j], wire'[j], stale'[j], log, rows)
                         /\ SnapshotFirst(session'[j], wire'[j])
  BY DEF ViewInv
<1>2. ASSUME NEW i \in DOMAIN rows, Told(i)' PROVE Shows(i)
  <2>1. Live \subseteq Sockets
    BY DEF Live
  <2>2. \A j \in Live : Fresh(session'[j], wire'[j]) <=> Fresh(session[j], wire[j])
    BY <2>1
  <2>3. \A j \in Live : \/ Fresh(session[j], wire[j])
                        \/ ~Owes(session[j], wire[j], stale[j], log, i)
    BY <1>2, <2>1, <2>2 DEF Told
  <2>4. Told(i)
    BY <1>2, <2>2, <2>3 DEF Told
  <2>. QED BY <2>4 DEF ViewInv
<1>3. \A i \in DOMAIN rows' : Shows(i)' <=> Shows(i)
  BY DEF Shows
<1>. QED BY <1>1, <1>2, <1>3 DEF ViewInv

\* A step of a session that ends none and begins none.
LEMMA ServedView == ASSUME Typed, ViewInv, NEW k \in Sockets, Serve(k) PROVE ViewInv'
<1> DEFINE task == session[k]
           frames == wire[k]
<1>0. /\ task \in Tasks /\ task.cursor \in 0 .. Len(log) /\ Len(log) \in Nat
      /\ Oldest \in 0 .. Len(log) /\ log \in Seq(Messages)
      /\ frames \in Seq(Frames) /\ stale \in [Sockets -> SUBSET Ids]
      /\ session \in [Sockets -> Tasks] /\ wire \in [Sockets -> Seq(Frames)]
      /\ DOMAIN rows \subseteq Ids
  BY CursorTyped DEF Typed, StoreTyped, SessionsTyped, WiresTyped
<1>l. Live' = Live
  BY ServeTyped
<1>v. /\ EndsCurrent(task, frames, stale[k], log, rows)
      /\ SnapshotFirst(task, frames)
  BY DEF ViewInv
<1>1. CASE Subscribe(k)
  <2> DEFINE next == [pc |-> "subscribed", cursor |-> Len(log), snapshot |-> NoRows]
  <2>1. /\ task.pc = "opening" /\ session' = [session EXCEPT ![k] = next]
        /\ stale' = [stale EXCEPT ![k] = {}] /\ wire' = wire
        /\ UNCHANGED <<rows, log, view>>
    BY <1>1 DEF Subscribe, store
  <2>2. next.pc = "subscribed" /\ next.cursor = Len(log)
    OBVIOUS
  <2>. HIDE DEF next
  <2>3. session'[k] = next /\ stale'[k] = {} /\ wire'[k] = frames /\ Len(frames) = 0
    BY <1>0, <1>v, <2>1 DEF SnapshotFirst
  <2>4. \A i : ~Ahead(log, next.cursor, i) /\ ~OnWire(frames, i)
    BY <1>0, <2>2, <2>3 DEF Ahead, OnWire
  <2>5. EndsCurrent(next, frames, {}, log, rows)
    BY <2>2, <2>4 DEF EndsCurrent
  <2>6. /\ SnapshotFirst(next, frames) /\ Fresh(next, frames) /\ Fresh(task, frames)
    BY <1>v, <2>1, <2>2, <2>3 DEF SnapshotFirst, Fresh
  <2>7. \A j \in Sockets \ {k} : /\ session'[j] = session[j] /\ wire'[j] = wire[j]
                                 /\ stale'[j] = stale[j]
    BY <2>1
  <2>. QED BY <1>l, <2>1, <2>3, <2>5, <2>6, <2>7, ServeKeepsView
<1>2. CASE LoadIssues(k)
  <2> DEFINE next == [task EXCEPT !.pc = "loaded", !.snapshot = rows]
             left == stale[k] \cap Pending(k)
  <2>1. /\ task.pc = "subscribed" /\ session' = [session EXCEPT ![k] = next]
        /\ stale' = [stale EXCEPT ![k] = left] /\ wire' = wire
        /\ UNCHANGED <<rows, log, view>>
    BY <1>2 DEF LoadIssues, store
  <2>2. next.pc = "loaded" /\ next.cursor = task.cursor /\ next.snapshot = rows
    BY <1>0 DEF Tasks
  <2>4. \A i : i \in left <=> i \in stale[k] /\ Ahead(log, task.cursor, i)
    BY PendingIs
  <2>. HIDE DEF next, left
  <2>3. session'[k] = next /\ stale'[k] = left /\ wire'[k] = frames /\ Len(frames) = 0
    BY <1>0, <1>v, <2>1 DEF SnapshotFirst
  <2>5. EndsCurrent(next, frames, left, log, rows)
    <3>1. \A i : ~OnWire(frames, i)
      BY <2>3 DEF OnWire
    <3>. QED BY <1>v, <2>1, <2>2, <2>4, <3>1 DEF EndsCurrent
  <2>6. /\ SnapshotFirst(next, frames) /\ Fresh(next, frames) /\ Fresh(task, frames)
    BY <1>v, <2>1, <2>2, <2>3 DEF SnapshotFirst, Fresh
  <2>7. \A j \in Sockets \ {k} : /\ session'[j] = session[j] /\ wire'[j] = wire[j]
                                 /\ stale'[j] = stale[j]
    BY <2>1
  <2>. QED BY <1>l, <2>1, <2>3, <2>5, <2>6, <2>7, ServeKeepsView
<1>3. CASE SendSnapshot(k)
  <2> DEFINE next == [task EXCEPT !.pc = "streaming", !.snapshot = NoRows]
             frame == [type |-> "snapshot", rows |-> task.snapshot]
             more == Append(frames, frame)
  <2>1. /\ task.pc = "loaded" /\ session' = [session EXCEPT ![k] = next]
        /\ wire' = [wire EXCEPT ![k] = more] /\ stale' = stale
        /\ UNCHANGED <<rows, log, view>>
    BY <1>3 DEF SendSnapshot, store
  <2>2. next.pc = "streaming" /\ next.cursor = task.cursor
    BY <1>0 DEF Tasks
  <2>4. frame \in Frames /\ frame.type = "snapshot" /\ frame.rows = task.snapshot
    BY <1>0 DEF Tasks, Frames
  <2>. HIDE DEF next, frame
  <2>8. /\ Len(frames) = 0 /\ Len(more) = 1 /\ more[1] = frame
        /\ \A i, v : Gives(frame, i, v) => EndsWith(more, i, v)
    <3>1. Len(frames) = 0
      BY <1>v, <2>1 DEF SnapshotFirst
    <3>2. /\ Len(more) = Len(frames) + 1 /\ more[Len(more)] = frame
          /\ \A i, v : Gives(frame, i, v) => EndsWith(more, i, v)
      BY <1>0, <2>4, FrameAdded
    <3>. HIDE DEF more
    <3>. QED BY <3>1, <3>2
  <2>. HIDE DEF more
  <2>3. session'[k] = next /\ stale'[k] = stale[k] /\ wire'[k] = more
    BY <1>0, <2>1
  <2>5. EndsCurrent(next, more, stale[k], log, rows)
    <3>1. \A i \in DOMAIN rows \ stale[k] : ~Ahead(log, task.cursor, i)
            => i \in DOMAIN frame.rows /\ frame.rows[i] = rows[i]
      BY <1>v, <2>1, <2>4 DEF EndsCurrent
    <3>2. \A i \in DOMAIN rows \ stale[k] : ~Ahead(log, task.cursor, i)
            => EndsWith(more, i, rows[i])
      BY <2>4, <2>8, <3>1 DEF Gives
    <3>. QED BY <1>v, <2>1, <2>2, <3>2 DEF EndsCurrent
  <2>6. /\ SnapshotFirst(next, more) /\ Fresh(next, more) /\ Fresh(task, frames)
    BY <2>1, <2>2, <2>4, <2>8 DEF SnapshotFirst, Fresh
  <2>7. \A j \in Sockets \ {k} : /\ session'[j] = session[j] /\ wire'[j] = wire[j]
                                 /\ stale'[j] = stale[j]
    BY <2>1
  <2>. QED BY <1>l, <2>1, <2>3, <2>5, <2>6, <2>7, ServeKeepsView
<1>4. CASE Forward(k)
  <2> DEFINE c == task.cursor
             d == c + 1
             next == [task EXCEPT !.cursor = d]
             frame == [type |-> "issue", issue |-> log[d]]
             more == Append(frames, frame)
  <2>1. /\ task.pc = "streaming" /\ session' = [session EXCEPT ![k] = next]
        /\ wire' = [wire EXCEPT ![k] = more] /\ stale' = stale
        /\ UNCHANGED <<rows, log, view>> /\ c < Len(log)
    BY <1>4 DEF Forward, Streaming, store
  <2>2. next.pc = "streaming" /\ next.cursor = d
    BY <1>0, <2>1 DEF Tasks
  <2>4. /\ c \in 0 .. Len(log) /\ d \in c .. Len(log) /\ d \in 1 .. Len(log)
        /\ \A n : n \in c + 1 .. d <=> n = d
        /\ d = c + 1
    BY <1>0, <2>1
  <2>5. log[d] \in Messages /\ frame \in Frames /\ frame.type = "issue" /\ frame.issue = log[d]
    BY <1>0, <2>4 DEF Frames
  <2>. HIDE DEF next, frame
  <2>8. /\ Len(more) = Len(frames) + 1 /\ Len(frames) \in Nat
        /\ more[Len(more)] = frame
        /\ \A n \in 1 .. Len(frames) : more[n] = frames[n]
        /\ \A i, v : Gives(frame, i, v) => EndsWith(more, i, v)
        /\ \A i : OnWire(more, i) <=> OnWire(frames, i) \/ Mentions(frame, i)
        /\ \A i, v : ~Mentions(frame, i) /\ EndsWith(frames, i, v) => EndsWith(more, i, v)
    BY <1>0, <2>5, FrameAdded
  <2>. HIDE DEF more, c, d
  <2>9. /\ \A i : Ahead(log, c, i) <=> Ahead(log, d, i) \/ log[d].id = i
        /\ \A i, v : Ahead(log, d, i) /\ LastIs(log, c, i, v) => LastIs(log, d, i, v)
    <3>1. /\ \A i : Ahead(log, c, i) <=>
                      Ahead(log, d, i) \/ \E n \in c + 1 .. d : log[n].id = i
          /\ \A i, v : Ahead(log, d, i) /\ LastIs(log, c, i, v) => LastIs(log, d, i, v)
      BY <1>0, <2>4, CursorMoved
    <3>. QED BY <2>4, <3>1
  <2>10. \A i, v : ~Ahead(log, d, i) /\ LastIs(log, c, i, v) => log[d] = Message(i, v)
    <3>. SUFFICES ASSUME NEW i, NEW v, ~Ahead(log, d, i), LastIs(log, c, i, v)
         PROVE  log[d] = Message(i, v)
      OBVIOUS
    <3>1. PICK n \in c + 1 .. Len(log) : log[n] = Message(i, v)
      BY DEF LastIs
    <3>2. log[n].id = i
      BY <3>1 DEF Message
    <3>3. n = d \/ n \in d + 1 .. Len(log)
      BY <1>0, <2>4
    <3>. QED BY <3>1, <3>2, <3>3 DEF Ahead
  <2>3. session'[k] = next /\ stale'[k] = stale[k] /\ wire'[k] = more
    BY <1>0, <2>1
  <2>11. EndsCurrent(next, more, stale[k], log, rows)
    <3>1. ASSUME NEW i \in DOMAIN rows \ stale[k], Ahead(log, d, i)
          PROVE  LastIs(log, d, i, rows[i])
      BY <1>v, <2>1, <2>9, <3>1 DEF EndsCurrent, c
    <3>2. ASSUME NEW i \in DOMAIN rows \ stale[k], ~Ahead(log, d, i), OnWire(more, i)
          PROVE  EndsWith(more, i, rows[i])
      <4>1. CASE log[d].id = i
        <5>1. LastIs(log, c, i, rows[i])
          BY <1>v, <2>1, <2>9, <3>2, <4>1 DEF EndsCurrent, c
        <5>2. Gives(frame, i, rows[i])
          BY <2>5, <2>10, <3>2, <5>1 DEF Gives
        <5>. QED BY <2>8, <5>2
      <4>2. CASE log[d].id # i
        <5>1. ~Mentions(frame, i) /\ ~Ahead(log, c, i)
          BY <2>5, <2>9, <3>2, <4>2 DEF Mentions
        <5>2. EndsWith(frames, i, rows[i])
          BY <1>v, <2>8, <3>2, <5>1 DEF EndsCurrent, c
        <5>. QED BY <2>8, <5>1, <5>2
      <4>. QED BY <4>1, <4>2
    <3>. QED BY <2>2, <3>1, <3>2 DEF EndsCurrent
  <2>12. SnapshotFirst(next, more)
    <3>1. \A n \in 2 .. Len(more) : n = Len(more) \/ (n \in 2 .. Len(frames) /\ n \in 1 .. Len(frames))
      BY <2>8
    <3>. QED BY <1>v, <2>2, <2>5, <2>8, <3>1 DEF SnapshotFirst
  <2>13. Fresh(next, more) <=> Fresh(task, frames)
    <3>1. CASE Len(frames) = 0
      BY <2>1, <2>2, <2>5, <2>8, <3>1 DEF Fresh
    <3>2. CASE Len(frames) > 0
      <4>1. 1 \in 1 .. Len(frames) /\ Len(more) > 0
        BY <2>8, <3>2
      <4>. QED BY <2>1, <2>2, <2>8, <3>2, <4>1 DEF Fresh
    <3>. QED BY <2>8, <3>1, <3>2
  <2>14. \A i : Owes(task, frames, stale[k], log, i) => Owes(next, more, stale[k], log, i)
    <3>1. Len(more) \in 1 .. Len(more) /\ \A n \in 1 .. Len(frames) : n \in 1 .. Len(more)
      BY <2>8
    <3>2. \A i : Ahead(log, task.cursor, i) => Ahead(log, next.cursor, i) \/ log[d].id = i
      BY <2>2, <2>9 DEF c
    <3>. QED BY <2>5, <2>8, <3>1, <3>2 DEF Owes
  <2>7. \A j \in Sockets \ {k} : /\ session'[j] = session[j] /\ wire'[j] = wire[j]
                                 /\ stale'[j] = stale[j]
    BY <2>1
  <2>. QED BY <1>l, <2>1, <2>3, <2>7, <2>11, <2>12, <2>13, <2>14, ServeKeepsView
<1>5. CASE Lagged(k)
  <2> DEFINE c == task.cursor
             d == Oldest
             next == [task EXCEPT !.cursor = d]
             behind == stale[k] \cup LostIds(c, d)
  <2>1. /\ task.pc = "streaming" /\ session' = [session EXCEPT ![k] = next]
        /\ stale' = [stale EXCEPT ![k] = behind] /\ wire' = wire
        /\ UNCHANGED <<rows, log, view>> /\ c < d
    BY <1>5 DEF Lagged, Streaming, store
  <2>2. next.pc = "streaming" /\ next.cursor = d
    BY <1>0, <2>1 DEF Tasks
  <2>4. c \in 0 .. Len(log) /\ d \in c .. Len(log)
    BY <1>0, <2>1
  <2>5. \A i : i \in LostIds(c, d) <=>
                 (\E n \in c + 1 .. d : log[n].id = i) /\ ~Ahead(log, d, i)
    BY DEF LostIds, Ahead
  <2>. HIDE DEF next, c, d
  <2>6. /\ \A i : Ahead(log, c, i) <=> Ahead(log, d, i) \/ i \in LostIds(c, d)
        /\ \A i, v : Ahead(log, d, i) /\ LastIs(log, c, i, v) => LastIs(log, d, i, v)
    <3>1. /\ \A i : Ahead(log, c, i) <=>
                      Ahead(log, d, i) \/ \E n \in c + 1 .. d : log[n].id = i
          /\ \A i, v : Ahead(log, d, i) /\ LastIs(log, c, i, v) => LastIs(log, d, i, v)
      BY <1>0, <2>4, CursorMoved
    <3>. QED BY <2>5, <3>1
  <2>3. session'[k] = next /\ stale'[k] = behind /\ wire'[k] = frames
    BY <1>0, <2>1
  <2>8. EndsCurrent(next, frames, behind, log, rows)
    <3>1. \A i : Ahead(log, task.cursor, i) <=> Ahead(log, d, i) \/ i \in LostIds(c, d)
      BY <2>6 DEF c
    <3>2. ASSUME NEW i \in DOMAIN rows \ behind, Ahead(log, d, i)
          PROVE  LastIs(log, d, i, rows[i])
      BY <1>v, <2>1, <2>6, <3>1, <3>2 DEF EndsCurrent, c
    <3>3. ASSUME NEW i \in DOMAIN rows \ behind, ~Ahead(log, d, i), OnWire(frames, i)
          PROVE  EndsWith(frames, i, rows[i])
      BY <1>v, <3>1, <3>3 DEF EndsCurrent
    <3>. QED BY <2>2, <3>2, <3>3 DEF EndsCurrent
  <2>9. /\ SnapshotFirst(next, frames) /\ (Fresh(next, frames) <=> Fresh(task, frames))
    BY <1>v, <2>1, <2>2 DEF SnapshotFirst, Fresh
  <2>10. \A i : Owes(task, frames, stale[k], log, i) => Owes(next, frames, behind, log, i)
    <3>1. \A i : Ahead(log, task.cursor, i) => Ahead(log, next.cursor, i) \/ i \in behind
      BY <2>2, <2>6 DEF c
    <3>. QED BY <3>1 DEF Owes
  <2>7. \A j \in Sockets \ {k} : /\ session'[j] = session[j] /\ wire'[j] = wire[j]
                                 /\ stale'[j] = stale[j]
    BY <2>1
  <2>. QED BY <1>l, <2>1, <2>3, <2>7, <2>8, <2>9, <2>10, ServeKeepsView
<1>. QED BY <1>1, <1>2, <1>3, <1>4, <1>5 DEF Serve

----------------------------------------------------------------------------
(***************************************************************************)
(* The invariant, step by step: the page                                   *)
(***************************************************************************)

\* The browser handles a frame: of an id no other frame and no message is
\* about, the page then shows what that frame said.
LEMMA HandledView == ASSUME Typed, ViewInv, NEW k \in Sockets, Handle(k) PROVE ViewInv'
<1> DEFINE task == session[k]
           frames == wire[k]
           frame == Head(frames)
           rest == Tail(frames)
<1>1. /\ frames # <<>> /\ view' = After(view, frame)
      /\ wire' = [wire EXCEPT ![k] = rest]
      /\ UNCHANGED <<rows, log, session, stale>>
  BY DEF Handle, store
<1>0. frames \in Seq(Frames) /\ wire \in [Sockets -> Seq(Frames)]
  BY DEF Typed, WiresTyped
<1>2. /\ EndsCurrent(task, frames, stale[k], log, rows)
      /\ SnapshotFirst(task, frames)
  BY DEF ViewInv
<1>. HIDE DEF frame, rest
<1>3. /\ Len(rest) = Len(frames) - 1 /\ Len(rest) \in Nat
      /\ frame = frames[1] /\ frame \in Frames
      /\ \A n \in 1 .. Len(rest) : rest[n] = frames[n + 1] /\ n + 1 \in 1 .. Len(frames)
      /\ \A i : OnWire(frames, i) <=> OnWire(rest, i) \/ Mentions(frame, i)
      /\ \A i, v : EndsWith(frames, i, v) =>
           IF OnWire(rest, i) THEN EndsWith(rest, i, v) ELSE Gives(frame, i, v)
  BY <1>0, <1>1, FrameRead DEF frame, rest
<1>4. Len(frames) > 0 /\ task.pc = "streaming"
  BY <1>2, <1>3 DEF SnapshotFirst
<1>5. \A n \in 1 .. Len(rest) : rest[n].type = "issue"
  <2>1. \A n \in 1 .. Len(rest) : n + 1 \in 2 .. Len(frames)
    BY <1>3
  <2>. QED BY <1>2, <1>3, <2>1 DEF SnapshotFirst
<1>6. /\ wire'[k] = rest /\ session'[k] = task /\ stale'[k] = stale[k]
      /\ \A j \in Sockets \ {k} : wire'[j] = wire[j]
      /\ Live' = Live /\ k \in Live /\ Live \subseteq Sockets
  BY <1>0, <1>1, <1>4 DEF Live
<1>7. EndsCurrent(task, rest, stale[k], log, rows)
  <2>1. ASSUME NEW i \in DOMAIN rows \ stale[k], ~Ahead(log, task.cursor, i), OnWire(rest, i)
        PROVE  EndsWith(rest, i, rows[i])
    BY <1>2, <1>3, <2>1 DEF EndsCurrent
  <2>. QED BY <1>2, <2>1 DEF EndsCurrent
<1>8. SnapshotFirst(task, rest) /\ ~Fresh(task, rest)
  <2>1. \A n \in 2 .. Len(rest) : n \in 1 .. Len(rest)
    BY <1>3
  <2>2. Len(rest) > 0 => 1 \in 1 .. Len(rest)
    BY <1>3
  <2>. QED BY <1>4, <1>5, <2>1, <2>2 DEF SnapshotFirst, Fresh
<1>9. ASSUME NEW i \in DOMAIN rows, Told(i)' PROVE Shows(i)'
  <2>1. ~Owes(task, rest, stale[k], log, i)
    BY <1>1, <1>6, <1>8, <1>9 DEF Told
  <2>2. ~Ahead(log, task.cursor, i) /\ i \notin stale[k] /\ ~OnWire(rest, i)
    <3>1. ~OnWire(rest, i)
      BY <1>5, <2>1 DEF Owes, OnWire, Mentions
    <3>. QED BY <2>1, <3>1 DEF Owes
  <2>3. CASE Mentions(frame, i)
    <3>1. Gives(frame, i, rows[i])
      BY <1>2, <1>3, <2>2, <2>3 DEF EndsCurrent
    <3>2. CASE frame.type = "snapshot"
      BY <1>1, <3>1, <3>2 DEF Gives, After, Shows
    <3>3. CASE frame.type # "snapshot"
      BY <1>1, <3>1, <3>3 DEF Gives, After, Shows, Put, Message
    <3>. QED BY <3>2, <3>3
  <2>4. CASE ~Mentions(frame, i)
    <3>1. frame.type # "snapshot" /\ frame.issue.id # i /\ frame.type = "issue"
      BY <1>3, <2>4 DEF Mentions, Frames
    <3>2. ~Fresh(task, frames)
      BY <1>3, <1>4, <3>1 DEF Fresh
    <3>3. ~Owes(task, frames, stale[k], log, i)
      <4>1. ~OnWire(frames, i)
        BY <1>3, <2>2, <2>4
      <4>. QED BY <2>2, <4>1 DEF Owes, OnWire, Mentions
    <3>4. \A j \in Live \ {k} : \/ Fresh(session[j], wire[j])
                                \/ ~Owes(session[j], wire[j], stale[j], log, i)
      BY <1>1, <1>6, <1>9 DEF Told
    <3>5. Told(i)
      BY <1>6, <3>2, <3>3, <3>4 DEF Told
    <3>6. Shows(i)
      BY <3>5 DEF ViewInv
    <3>7. i \in DOMAIN view' /\ view'[i] = view[i]
      BY <1>1, <3>1, <3>6 DEF After, Put, Shows
    <3>. QED BY <1>1, <3>6, <3>7 DEF Shows
  <2>. QED BY <2>3, <2>4
<1>10. \A j \in Sockets : /\ EndsCurrent(session'[j], wire'[j], stale'[j], log, rows)
                          /\ SnapshotFirst(session'[j], wire'[j])
  BY <1>1, <1>6, <1>7, <1>8 DEF ViewInv
<1>. QED BY <1>1, <1>9, <1>10 DEF ViewInv

\* Sockets end and one is made: what those that end had still to say, the others
\* answer for.
LEMMA SessionsKeepView ==
  ASSUME Typed, ViewInv, NEW gone \in SUBSET Live, NEW new \in SUBSET Sockets,
         new \cap Live \subseteq gone, Sessions(gone, new),
         UNCHANGED <<rows, view>>, log' = log \/ (gone = Live /\ log' = <<>>)
  PROVE  ViewInv'
<1>0. Live \subseteq Sockets /\ Live' = (Live \ gone) \cup new
  BY SessionsStep DEF Live
<1>1. /\ \A k \in new : session'[k] = Opening
      /\ \A k \in gone \ new : session'[k] = Down
      /\ \A k \in Sockets \ (gone \cup new) : session'[k] = session[k]
      /\ \A k \in gone : wire'[k] = <<>>
      /\ \A k \in Sockets \ gone : /\ wire'[k] = wire[k]
                                   /\ stale'[k] = stale[k] \cup UNION {Owed(j) : j \in gone}
  BY <1>0 DEF Sessions, Abandon
<1>2. \A k \in Sockets \ Live : session[k] = Down /\ Len(wire[k]) = 0
  <2>1. \A k \in Sockets \ Live : session[k] = Down
    BY DEF Typed, SessionsTyped, Live
  <2>. QED BY <2>1, NewTasks DEF ViewInv, SnapshotFirst
<1>3. ASSUME NEW k \in Sockets, k \notin Live \ gone
      PROVE  /\ session'[k] \in {Opening, Down} /\ Len(wire'[k]) = 0
  BY <1>0, <1>1, <1>2, <1>3
<1>4. ASSUME NEW k \in Sockets, k \notin Live \ gone
      PROVE  /\ EndsCurrent(session'[k], wire'[k], stale'[k], log', rows')
             /\ SnapshotFirst(session'[k], wire'[k])
             /\ Fresh(session'[k], wire'[k])
  <2>1. session'[k].pc \in {"opening", "down"} /\ Len(wire'[k]) = 0
    BY <1>3, <1>4, NewTasks
  <2>2. \A i : ~OnWire(wire'[k], i)
    BY <2>1 DEF OnWire
  <2>. QED BY <2>1, <2>2 DEF EndsCurrent, SnapshotFirst, Fresh
<1>5. ASSUME NEW k \in Live \ gone
      PROVE  /\ session'[k] = session[k] /\ wire'[k] = wire[k]
             /\ stale'[k] = stale[k] \cup UNION {Owed(j) : j \in gone}
             /\ log' = log
  BY <1>0, <1>1
<1>6. ASSUME NEW k \in Live \ gone
      PROVE  /\ EndsCurrent(session'[k], wire'[k], stale'[k], log', rows')
             /\ SnapshotFirst(session'[k], wire'[k])
  <2>1. EndsCurrent(session[k], wire[k], stale[k], log, rows) /\ SnapshotFirst(session[k], wire[k])
    BY <1>0 DEF ViewInv
  <2>2. stale[k] \subseteq stale'[k]
    BY <1>5
  <2>3. EndsCurrent(session[k], wire[k], stale'[k], log, rows)
    BY <2>1, <2>2 DEF EndsCurrent
  <2>. QED BY <1>5, <2>1, <2>3
<1>7. ASSUME NEW i \in DOMAIN rows, Told(i)' PROVE Told(i)
  <2>1. PICK k \in Live' : ~Fresh(session'[k], wire'[k])
    BY <1>7 DEF Told
  <2>2. k \in Live \ gone
    BY <1>0, <1>4, <2>1
  <2>3. ~Owes(session[k], wire[k], stale'[k], log, i)
    BY <1>5, <1>7, <2>1, <2>2 DEF Told
  <2>4. ~Fresh(session[k], wire[k])
    BY <1>5, <2>1, <2>2
  <2>5. ASSUME NEW j \in gone PROVE ~Owes(session[j], wire[j], stale[j], log, i)
    <3>1. i \notin Owed(j)
      BY <1>5, <2>2, <2>3 DEF Owes
    <3>. QED BY <1>0, <3>1, PendingIs
  <2>6. ASSUME NEW j \in Live \ gone
        PROVE  \/ Fresh(session[j], wire[j])
               \/ ~Owes(session[j], wire[j], stale[j], log, i)
    <3>1. \/ Fresh(session[j], wire[j])
          \/ ~Owes(session[j], wire[j], stale'[j], log, i)
      BY <1>0, <1>5, <1>7, <2>6 DEF Told
    <3>. QED BY <1>5, <3>1 DEF Owes
  <2>. QED BY <2>2, <2>4, <2>5, <2>6 DEF Told
<1>8. \A i \in DOMAIN rows : Shows(i)' <=> Shows(i)
  BY DEF Shows
<1>. QED BY <1>4, <1>6, <1>7, <1>8 DEF ViewInv

----------------------------------------------------------------------------
(***************************************************************************)
(* What a page shows: the theorem                                          *)
(***************************************************************************)

\* No page has been told anything at the start.
LEMMA InitKeepsView == Init => ViewInv
<1> DEFINE first == CHOOSE k \in Sockets : TRUE
<1>. SUFFICES ASSUME Init PROVE ViewInv
  OBVIOUS
<1>1. /\ rows = NoRows
      /\ session = [k \in Sockets |-> IF k = first THEN Opening ELSE Down]
      /\ wire = [k \in Sockets |-> <<>>]
  BY DEF Init
<1>2. DOMAIN rows = {}
  BY <1>1 DEF NoRows
<1>3. \A k \in Sockets : session[k].pc # "streaming" /\ Len(wire[k]) = 0
  BY <1>1, NewTasks
<1>. QED BY <1>2, <1>3 DEF ViewInv, EndsCurrent, SnapshotFirst

\* What holds at every step.
LEMMA NextKeepsView == ASSUME Typed, ViewInv, [Next]_vars PROVE ViewInv'
<1>1. ASSUME NEW other \in BOOLEAN, Connect(other) PROVE ViewInv'
  <2> DEFINE old == {page.socket} \ {NoSocket}
             new == IF old # {} THEN page.socket ELSE FreeSocket
  <2>1. /\ old # {} \/ Live # Sockets
        /\ Sessions(old, {new}) /\ UNCHANGED <<rows, log, view>>
    BY <1>1 DEF Connect, store
  <2>2. old \in SUBSET Live /\ {new} \in SUBSET Sockets /\ {new} \cap Live \subseteq old
    BY <2>1, PageFacts, FreeSocketIs
  <2>. HIDE DEF old, new
  <2>. QED BY <2>1, <2>2, SessionsKeepView
<1>2. CASE Disconnect
  <2> DEFINE old == {page.socket} \ {NoSocket}
  <2>1. Sessions(old, {}) /\ UNCHANGED <<rows, log, view>>
    BY <1>2 DEF Disconnect, store
  <2>2. old \in SUBSET Live /\ {} \in SUBSET Sockets /\ {} \cap Live \subseteq old
    BY PageFacts
  <2>. HIDE DEF old
  <2>. QED BY <2>1, <2>2, SessionsKeepView
<1>3. CASE Reconnect
  <2>1. /\ Live # Sockets /\ Sessions({}, {FreeSocket}) /\ UNCHANGED <<rows, log, view>>
    BY <1>3 DEF Reconnect, store
  <2>2. /\ {} \in SUBSET Live /\ {FreeSocket} \in SUBSET Sockets
        /\ {FreeSocket} \cap Live \subseteq {}
    BY <2>1, FreeSocketIs
  <2>. HIDE DEF FreeSocket
  <2>. QED BY <2>1, <2>2, SessionsKeepView
<1>4. ASSUME NEW k \in Sockets, Close(k) PROVE ViewInv'
  <2>1. /\ {k} \in SUBSET Live /\ Sessions({k}, {}) /\ UNCHANGED <<rows, log, view>>
        /\ {} \in SUBSET Sockets /\ {} \cap Live \subseteq {k}
    BY <1>4 DEF Close, store
  <2>. QED BY <2>1, SessionsKeepView
<1>5. CASE Restart
  <2>1. /\ Live \in SUBSET Live /\ Sessions(Live, {}) /\ UNCHANGED <<rows, view>>
        /\ log' = <<>> /\ {} \in SUBSET Sockets /\ {} \cap Live \subseteq Live
    BY <1>5 DEF Restart, store
  <2>. QED BY <2>1, SessionsKeepView
<1>6. CASE UNCHANGED <<rows, log, session, wire, view, stale>>
  BY <1>6 DEF ViewInv, Told, Live, Shows
<1>7. CASE ClosedLate
  BY <1>6, <1>7 DEF ClosedLate, store
<1>8. CASE UNCHANGED vars
  BY <1>6, <1>8 DEF vars, store
<1>. QED
  BY <1>1, <1>2, <1>3, <1>4, <1>5, <1>7, <1>8, WritesKeepView, ServedView, HandledView
     DEF Next

\* A page all of whose sockets are drained has been told of every row.
LEMMA ViewIsEnough == Typed /\ ViewInv => DrainedIsCurrent
<1>. SUFFICES ASSUME Typed, ViewInv, Settled,
                     NEW i \in DOMAIN rows \ UNION {stale[k] : k \in Live}
     PROVE  Shows(i)
  BY DEF DrainedIsCurrent
<1>1. ASSUME NEW k \in Live
      PROVE  /\ ~Fresh(session[k], wire[k])
             /\ ~Owes(session[k], wire[k], stale[k], log, i)
  <2>1. /\ session[k].pc = "streaming" /\ wire[k] = <<>> /\ session[k].cursor = Len(log)
        /\ i \notin stale[k]
    BY DEF Settled, Drained, Streaming
  <2>2. Len(wire[k]) = 0 /\ Len(log) \in Nat
    BY <2>1 DEF Typed, StoreTyped
  <2>3. ~Ahead(log, session[k].cursor, i)
    BY <2>1, <2>2 DEF Ahead
  <2>. QED BY <2>1, <2>2, <2>3 DEF Fresh, Owes
<1>2. Live # {}
  BY DEF Settled
<1>3. Told(i)
  BY <1>1, <1>2 DEF Told
<1>. QED BY <1>3 DEF ViewInv

\* A page that has handled all it was sent shows the committed row of every
\* live issue but those it is known to be stale in, whatever the order of
\* commits, snapshots, lag, lost sockets and reconnects (ws.rs:106-155,
\* ws.ts:54-119, stores.svelte.ts).
THEOREM DrainedPagesAreCurrent == Spec => []DrainedIsCurrent
<1>1. Typed /\ Spare /\ ViewInv /\ [Next]_vars => (Typed /\ Spare /\ ViewInv)'
  BY NextKeeps, NextKeepsView
<1>. QED BY <1>1, InitKeeps, InitKeepsView, ViewIsEnough, PTL DEF Spec
=============================================================================
