---------------------------- MODULE IssueLedger ----------------------------
(***************************************************************************)
(* What the daemon promises about issues, with no handler, channel, task,  *)
(* transaction or row id in sight: a ledger with one entry per project and *)
(* fingerprint, holding a triage status and a count of occurrences.        *)
(*                                                                         *)
(* Occurrences are recorded a batch at a time, all or none.  They reopen a *)
(* resolved entry and never touch any other triage decision.  Only an      *)
(* operator changes a status otherwise, forgets a project or renames it.   *)
(***************************************************************************)
EXTENDS Naturals, FiniteSets

CONSTANTS
  Projects, Fingerprints,
  MaxBatch   \* the most occurrences one batch records

VARIABLES
  ledger,    \* the entry of each key
  recorded   \* occurrences recorded since the daemon started

Keys == Projects \X Fingerprints

Absent == [status |-> "absent", count |-> 0]

Decisions == {"unresolved", "resolved", "muted", "ignored"}

Entry == [status : Decisions, count : Nat \ {0}] \cup {Absent}

Init == ledger = [k \in Keys |-> Absent] /\ recorded = 0

\* The entry after n more occurrences.
Grown(entry, n) ==
  [status |-> CASE n = 0 -> entry.status
                [] n > 0 /\ entry.status \in {"muted", "ignored"} -> entry.status
                [] OTHER -> "unresolved",
   count |-> entry.count + n]

\* A batch of n occurrences, the j-th of at[j]: all of them, once each.
Record ==
  \E n \in 1 .. MaxBatch :
    /\ recorded' = recorded + n
    /\ \E at \in [1 .. n -> Keys] :
         ledger' = [k \in Keys |->
           Grown(ledger[k], Cardinality({j \in 1 .. n : at[j] = k}))]

Decide(k, s) ==
  /\ ledger[k] # Absent
  /\ ledger' = [ledger EXCEPT ![k].status = s]
  /\ UNCHANGED recorded

Forget(p) ==
  /\ ledger' = [k \in Keys |-> IF k[1] = p THEN Absent ELSE ledger[k]]
  /\ UNCHANGED recorded

\* The entries of p move to q, where none of them meets another.
Rename(p, q) ==
  /\ \A f \in Fingerprints : ledger[<<p, f>>] = Absent \/ ledger[<<q, f>>] = Absent
  /\ ledger' = [k \in Keys |->
       CASE k[1] = p -> Absent
         [] k[1] = q /\ ledger[k] = Absent -> ledger[<<p, k[2]>>]
         [] OTHER -> ledger[k]]
  /\ UNCHANGED recorded

\* The daemon starts again, with the ledger it had.
Restart == recorded' = 0 /\ UNCHANGED ledger

Next ==
  \/ Record
  \/ \E k \in Keys, s \in Decisions : Decide(k, s)
  \/ \E p \in Projects : Forget(p)
  \/ \E p, q \in Projects : p # q /\ Rename(p, q)
  \/ Restart

Spec == Init /\ [][Next]_<<ledger, recorded>>
============================================================================
