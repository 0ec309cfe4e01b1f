----------------------------- MODULE SendLedger -----------------------------
(***************************************************************************)
(* What the upload queue promises about delivery, without the queue: a     *)
(* ledger of records on disk.  A record is submitted only after it has     *)
(* been marked durably, a mark is not taken away while the outcome of the  *)
(* submission is open, and an open record is not submitted again before    *)
(* the user decides.                                                       *)
(***************************************************************************)
CONSTANT Records

VARIABLES
  marked,    \* records that a restart would not send on its own
  outcome    \* "none", "open", or "skipped" for each record

ledger == <<marked, outcome>>

Open == {r \in Records : outcome[r] = "open"}

Init ==
  /\ marked \in SUBSET Records
  /\ outcome \in [Records -> {"none", "open"}]
  /\ Open \subseteq marked

\* One write of the ledger may mark some records and unmark others.
Write ==
  /\ marked' \in SUBSET Records
  /\ Open \subseteq marked'
  /\ UNCHANGED outcome

Submit(r) ==
  /\ r \in marked
  /\ outcome[r] # "open"
  /\ outcome' = [outcome EXCEPT ![r] = "open"]
  /\ UNCHANGED marked

\* The user decides to send again, or to leave the record.
Decide(r) ==
  /\ outcome[r] # "none"
  /\ \E o \in {"none", "skipped"} : outcome' = [outcome EXCEPT ![r] = o]
  /\ UNCHANGED marked

\* One request of the user on several records that were left before.
Reconsider ==
  /\ outcome' \in [Records -> {"none", "open", "skipped"}]
  /\ \A r \in Records :
       outcome'[r] # outcome[r] => outcome[r] = "skipped" /\ outcome'[r] = "none"
  /\ UNCHANGED marked

Next == Write \/ (\E r \in Records : Submit(r) \/ Decide(r)) \/ Reconsider

Spec == Init /\ [][Next]_ledger
=============================================================================
