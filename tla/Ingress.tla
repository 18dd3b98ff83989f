------------------------------ MODULE Ingress ------------------------------
(***************************************************************************)
(* ingest_envelope (ingest.rs) from the key check to the answer, with the  *)
(* rate limiter and the envelope parser.                                   *)
(*                                                                         *)
(* The runtime has one thread: what a handler does between two awaits is   *)
(* one step.  It awaits the key lookup, each send into the channel and the *)
(* touch of the project's row; in between, the console rotates tokens and  *)
(* renames projects, time passes, and the digest task takes events from    *)
(* the channel or is gone.  How senders wait for a place in the channel is *)
(* Pipeline's subject.                                                     *)
(***************************************************************************)
EXTENDS RateLimiter, Envelope

CONSTANTS
  Names,       \* project names, in paths and in the table
  FirstName,   \* the project there is at the start
  Slots,       \* requests under way at once
  Bodies,      \* bodies requests carry: how packed, and the envelope in it
  RequireAuth, \* cfg.require_auth
  ChannelCap,  \* INGEST_CHANNEL_CAPACITY
  MaxTime,     \* bound: the clock
  Budget       \* bound: requests, console steps, failures, clients gone

Kinds == {"request", "console", "failure", "abort"}

\* A declared length that wraps makes the parser panic, which ends the process:
\* no such body.
ASSUME IngressAssumption ==
  /\ FirstName \in Names
  /\ RequireAuth \in BOOLEAN
  /\ ChannelCap \in Nat \ {0}
  /\ MaxTime \in Nat
  /\ Budget \in [Kinds -> Nat]
  /\ Width \in Nat \ {0}
  /\ \A body \in Bodies :
       /\ body.raw \in Seq(Range(body.raw))
       /\ LengthsDeclared(body.raw) /\ LengthsFit(body.raw)

VARIABLES
  now,      \* Instant::now()
  tokens,   \* the projects table: the token of each name in it
  issued,   \* tokens generated so far are 1 .. issued
  touched,  \* names whose last_used_at is set
  buckets,  \* the limiter's map
  reqs,     \* the handler of each slot
  channel,  \* events sent and not yet taken
  open,     \* the digest task still receives
  metrics,  \* events_accepted, events_rejected_rate_limit
  grants,   \* history: per name, when the limiter granted a request
  taken,    \* history: events taken from the channel
  spent     \* steps taken, against Budget

project == <<tokens, issued>>
limiter == <<buckets, grants>>
pipe == <<channel, taken, open>>
vars == <<now, project, touched, limiter, reqs, pipe, metrics, spent>>

NoKey == 0

\* A slot whose last request was answered so, after sending sent of its
\* total events.
Free(answer, sent, total) ==
  [pc |-> "free", answer |-> answer, sent |-> sent, total |-> total]

Spend(kind) ==
  /\ spent[kind] < Budget[kind]
  /\ spent' = [spent EXCEPT ![kind] = @ + 1]

Init ==
  /\ now = 0
  /\ tokens = [n \in {FirstName} |-> 1]
  /\ issued = 1
  /\ touched = {}
  /\ buckets = [n \in {} |-> NewBucket(0)]
  /\ reqs = [s \in Slots |-> Free("none", 0, 0)]
  /\ channel = <<>>
  /\ open = TRUE
  /\ metrics = [accepted |-> 0, limited |-> 0]
  /\ grants = [n \in Names |-> <<>>]
  /\ taken = 0
  /\ spent = [kind \in Kinds |-> 0]

----------------------------------------------------------------------------
(***************************************************************************)
(* The handler                                                             *)
(***************************************************************************)

Opens(key, n) == n \in DOMAIN tokens /\ tokens[n] = key

Goto(s, req) == reqs' = [reqs EXCEPT ![s] = req]

Answer(s, answer) == Goto(s, Free(answer, 0, 0))

\* A request for the project n of its path, with the key in its header or
\* query.  held: the key has been n's at some moment since.
Ask(s, n, key) ==
  /\ reqs[s].pc = "free"
  /\ Spend("request")
  /\ IF RequireAuth /\ key = NoKey THEN Answer(s, "401")
     ELSE Goto(s, [pc |-> IF RequireAuth THEN "lookup" ELSE "admit",
                   name |-> n, key |-> key, held |-> Opens(key, n)])
  /\ UNCHANGED <<now, project, touched, limiter, pipe, metrics>>

\* Variant: any project's token will do.
LookupAnyProject(s) ==
  /\ reqs[s].pc = "lookup"
  /\ IF \E n \in DOMAIN tokens : Opens(reqs[s].key, n)
       THEN Goto(s, [reqs[s] EXCEPT !.pc = "admit"])
       ELSE Answer(s, "401")
  /\ UNCHANGED <<now, project, touched, limiter, pipe, metrics, spent>>

\* project_by_token, and its name compared with the path's.
Lookup(s) ==
  /\ reqs[s].pc = "lookup"
  /\ IF Opens(reqs[s].key, reqs[s].name)
       THEN Goto(s, [reqs[s] EXCEPT !.pc = "admit"])
       ELSE Answer(s, "401")
  /\ UNCHANGED <<now, project, touched, limiter, pipe, metrics, spent>>

LookupFails(s) ==
  /\ reqs[s].pc = "lookup"
  /\ Spend("failure")
  /\ Answer(s, "500")
  /\ UNCHANGED <<now, project, touched, limiter, pipe, metrics>>

\* RateLimiter::check for name n: its bucket, made full at the first check.
BucketOf(n) == IF n \in DOMAIN buckets THEN buckets[n] ELSE NewBucket(now)

Passes(n) == Enabled => HasToken(BucketOf(n), now)

\* The limiter after the check.
Checked(n) ==
  /\ buckets' = IF Enabled THEN [m \in DOMAIN buckets \cup {n} |->
                                IF m = n THEN Acquired(BucketOf(n), now)
                                ELSE buckets[m]]
                ELSE buckets
  /\ grants' = IF Enabled /\ Passes(n) THEN [grants EXCEPT ![n] = Append(@, now)]
               ELSE grants

Refuse(s) ==
  /\ reqs[s].pc = "admit"
  /\ ~Passes(reqs[s].name)
  /\ Checked(reqs[s].name)
  /\ metrics' = [metrics EXCEPT !.limited = @ + 1]
  /\ Answer(s, "429")
  /\ UNCHANGED <<now, project, touched, pipe, spent>>

\* maybe_gunzip, parse_envelope.  A body is plain, well packed, not a gzip
\* stream after its magic bytes, or larger than MAX_DECOMPRESSED unpacked.
Decoded(body) ==
  IF body.packing \in {"broken", "oversized"} THEN Malformed
  ELSE ParseEnvelope(body.raw)

\* With a decoded body: the events are sent one by one, if there are any.
Proceed(s, events) ==
  Goto(s, [pc |-> IF events = <<>> THEN "touch" ELSE "send",
           name |-> reqs[s].name, key |-> reqs[s].key, held |-> reqs[s].held,
           events |-> events, sent |-> 0])

Admit(s, body) ==
  /\ reqs[s].pc = "admit"
  /\ Passes(reqs[s].name)
  /\ Checked(reqs[s].name)
  /\ IF Decoded(body) = Malformed THEN Answer(s, "400")
     ELSE Proceed(s, Decoded(body).events)
  /\ UNCHANGED <<now, project, touched, pipe, metrics, spent>>

\* Variant: an event the channel does not take is passed over.
SendOrSkip(s) ==
  /\ reqs[s].pc = "send"
  /\ LET r == reqs[s] n == r.sent + 1 IN
     /\ open => Len(channel) < ChannelCap
     /\ channel' = IF open THEN Append(channel, r.events[n]) ELSE channel
     /\ metrics' = [metrics EXCEPT !.accepted = @ + 1]
     /\ Goto(s, [r EXCEPT !.sent = n,
                          !.pc = IF n = Len(r.events) THEN "touch" ELSE "send"])
  /\ UNCHANGED <<now, project, touched, limiter, taken, open, spent>>

\* Variant: nothing waits for room.
SendAtOnce(s) ==
  /\ reqs[s].pc = "send"
  /\ LET r == reqs[s] n == r.sent + 1 IN
     /\ channel' = Append(channel, r.events[n])
     /\ metrics' = [metrics EXCEPT !.accepted = @ + 1]
     /\ Goto(s, [r EXCEPT !.sent = n,
                          !.pc = IF n = Len(r.events) THEN "touch" ELSE "send"])
  /\ UNCHANGED <<now, project, touched, limiter, taken, open, spent>>

\* events.send: once there is room, unless the receiver is gone.
Send(s) ==
  /\ reqs[s].pc = "send"
  /\ LET r == reqs[s] n == r.sent + 1 IN
     IF open
       THEN /\ Len(channel) < ChannelCap
            /\ channel' = Append(channel, r.events[n])
            /\ metrics' = [metrics EXCEPT !.accepted = @ + 1]
            /\ Goto(s, [r EXCEPT !.sent = n,
                          !.pc = IF n = Len(r.events) THEN "touch" ELSE "send"])
       ELSE /\ Goto(s, Free("503", r.sent, Len(r.events)))
            /\ UNCHANGED <<channel, metrics>>
  /\ UNCHANGED <<now, project, touched, limiter, taken, open, spent>>

\* touch_project_used: no row of the name is no error.
Touch(s) ==
  /\ reqs[s].pc = "touch"
  /\ touched' = touched \cup ({reqs[s].name} \cap DOMAIN tokens)
  /\ Goto(s, Free("200", reqs[s].sent, Len(reqs[s].events)))
  /\ UNCHANGED <<now, project, limiter, pipe, metrics, spent>>

\* The client goes away: the server drops the handler where it awaits.  What was
\* sent stays sent, and a touch under way may still be made.
Disconnect(s) ==
  LET r == reqs[s] IN
  /\ r.pc \in {"lookup", "send", "touch"}
  /\ Spend("abort")
  /\ IF r.pc = "lookup" THEN Answer(s, "gone")
     ELSE Goto(s, Free("gone", r.sent, Len(r.events)))
  /\ \/ touched' = touched
     \/ r.pc = "touch" /\ touched' = touched \cup ({r.name} \cap DOMAIN tokens)
  /\ UNCHANGED <<now, project, limiter, pipe, metrics>>

Handler(s) ==
  \/ Lookup(s)
  \/ LookupFails(s)
  \/ Refuse(s)
  \/ \E body \in Bodies : Admit(s, body)
  \/ Send(s)
  \/ Touch(s)
  \/ Disconnect(s)

----------------------------------------------------------------------------
(***************************************************************************)
(* Around it                                                               *)
(***************************************************************************)

Tick ==
  /\ now < MaxTime
  /\ now' = now + 1
  /\ UNCHANGED <<project, touched, limiter, reqs, pipe, metrics, spent>>

\* The requests under way, of which some now hold their project's token.
Held(table) ==
  [s \in Slots |->
     IF reqs[s].pc = "free" THEN reqs[s]
     ELSE [reqs[s] EXCEPT
             !.held = @ \/ (/\ reqs[s].name \in DOMAIN table
                            /\ table[reqs[s].name] = reqs[s].key)]]

\* rotate_token: a new random token.
Rotate(n) ==
  /\ n \in DOMAIN tokens
  /\ Spend("console")
  /\ tokens' = [tokens EXCEPT ![n] = issued + 1]
  /\ issued' = issued + 1
  /\ reqs' = Held(tokens')
  /\ UNCHANGED <<now, touched, limiter, pipe, metrics>>

\* rename_project: the row, its token and last_used_at go to a free name.
Rename(n, m) ==
  /\ n \in DOMAIN tokens /\ m \notin DOMAIN tokens
  /\ Spend("console")
  /\ tokens' = [k \in (DOMAIN tokens \ {n}) \cup {m} |->
                  IF k = m THEN tokens[n] ELSE tokens[k]]
  /\ touched' = IF n \in touched THEN (touched \ {n}) \cup {m} ELSE touched
  /\ reqs' = Held(tokens')
  /\ UNCHANGED <<now, issued, limiter, pipe, metrics>>

\* create_project.
Create(n) ==
  /\ n \notin DOMAIN tokens
  /\ Spend("console")
  /\ tokens' = [m \in DOMAIN tokens \cup {n} |->
                IF m = n THEN issued + 1 ELSE tokens[m]]
  /\ issued' = issued + 1
  /\ reqs' = Held(tokens')
  /\ UNCHANGED <<now, touched, limiter, pipe, metrics>>

\* The digest task takes an event.
Take ==
  /\ open
  /\ channel # <<>>
  /\ channel' = Tail(channel)
  /\ taken' = taken + 1
  /\ UNCHANGED <<now, project, touched, limiter, reqs, open, metrics, spent>>

\* The digest task is gone and the process about to end.
CloseChannel ==
  /\ open
  /\ Spend("failure")
  /\ open' = FALSE
  /\ UNCHANGED <<now, project, touched, limiter, reqs, channel, taken, metrics>>

Next ==
  \/ \E s \in Slots, n \in Names, key \in 0 .. issued : Ask(s, n, key)
  \/ \E s \in Slots : Handler(s)
  \/ Tick
  \/ \E n \in Names : Rotate(n)
  \/ \E n, m \in Names : Rename(n, m)
  \/ \E n \in Names : Create(n)
  \/ Take
  \/ CloseChannel

Spec == Init /\ [][Next]_vars

----------------------------------------------------------------------------
(***************************************************************************)
(* Properties                                                              *)
(***************************************************************************)

Answers == {"none", "200", "400", "401", "429", "500", "503", "gone"}

\* The events of the bodies that decode.
EventLists == {Decoded(b).events : b \in {x \in Bodies : Decoded(x) # Malformed}}

\* What a slot may hold: an answered request, one that has not been decoded,
\* one whose events are being sent.
IsRequest(r) ==
  \/ r \in [pc : {"free"}, answer : Answers, sent : Nat, total : Nat]
  \/ r \in [pc : {"lookup", "admit"}, name : Names, key : Nat, held : BOOLEAN]
  \/ /\ DOMAIN r = {"pc", "name", "key", "held", "events", "sent"}
     /\ r.pc \in {"send", "touch"} /\ r.name \in Names /\ r.held \in BOOLEAN
     /\ r.events \in EventLists
     /\ r.sent \in 0 .. Len(r.events)
     /\ r.pc = "send" <=> r.sent < Len(r.events)

\* The variables have their types: a bucket never holds more than the burst
\* (rate_limit.rs:36), a handler is in one of its awaits.
TypeOK ==
  /\ now \in 0 .. MaxTime
  /\ issued \in Nat
  /\ DOMAIN tokens \subseteq Names
  /\ \A n \in DOMAIN tokens : tokens[n] \in 1 .. issued
  /\ touched \subseteq Names
  /\ DOMAIN buckets \subseteq Names
  /\ \A n \in DOMAIN buckets : buckets[n] \in Bucket
  /\ DOMAIN reqs = Slots /\ \A s \in Slots : IsRequest(reqs[s])
  /\ Len(channel) <= ChannelCap
  /\ open \in BOOLEAN
  /\ metrics \in [accepted : Nat, limited : Nat]
  /\ \A n \in Names : \A i \in DOMAIN grants[n] : grants[n][i] \in 0 .. now

\* Over no stretch of time does the limiter grant a name more than the burst
\* and the per-minute rate together allow, however requests and clock fall
\* (RateLimiter::check, TokenBucket::try_acquire).
WithinBudget == \A n \in Names : Affordable(grants[n])

\* A request is answered 429 only when one more would have broken that
\* budget: no token is lost to a refusal, an idle time or a clock that
\* stands still (TokenBucket::try_acquire).
RefusedOnlyOverBudget ==
  [][\A s \in Slots :
       reqs[s].pc = "admit" /\ reqs'[s].pc = "free" /\ reqs'[s].answer = "429"
         => ~Affordable(Append(grants[reqs[s].name], now))]_vars

\* A request that got past the key check carries a token its project held at
\* some moment since it came in (ingest.rs:1020).
KeyHeldDuringRequest ==
  RequireAuth =>
    \A s \in Slots : reqs[s].pc \in {"admit", "send", "touch"} => reqs[s].held

\* What a sender is told is what was done: 200 when all its events were sent,
\* 503 when not all were, anything else when none was; one whose client has gone
\* has sent no more than it had; and every event that metrics counts as accepted
\* is in the channel or was taken from it (ingest.rs:1066-1081).
AnswersMatchSends ==
  /\ \A s \in Slots :
       reqs[s].pc = "free" =>
         CASE reqs[s].answer = "200" -> reqs[s].sent = reqs[s].total
           [] reqs[s].answer = "503" -> reqs[s].sent < reqs[s].total
           [] reqs[s].answer = "gone" -> reqs[s].sent <= reqs[s].total
           [] OTHER                  -> reqs[s].sent = 0
  /\ metrics.accepted = taken + Len(channel)
============================================================================
