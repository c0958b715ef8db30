----------------------------- MODULE AsyncWork -----------------------------
(***************************************************************************)
(* What fs.h promises of a work object: it is queued, it completes once    *)
(* with an outcome that does not change afterwards, and it is freed only   *)
(* after it completed.                                                     *)
(***************************************************************************)
CONSTANT Requests

VARIABLES
  state,      \* "new", "pending", "complete" or "freed"
  outcome     \* "none" until completion, then "ok" or "error"

avars == <<state, outcome>>

Init ==
  /\ state = [r \in Requests |-> "new"]
  /\ outcome = [r \in Requests |-> "none"]

\* fsRead, fsWrite.
Queue(r) ==
  /\ state[r] = "new"
  /\ state' = [state EXCEPT ![r] = "pending"]
  /\ UNCHANGED outcome

\* The work's event is signalled.
Complete(r) ==
  /\ state[r] = "pending"
  /\ state' = [state EXCEPT ![r] = "complete"]
  /\ \E o \in {"ok", "error"} : outcome' = [outcome EXCEPT ![r] = o]

\* fsWorkDestroy.
Free(r) ==
  /\ state[r] = "complete"
  /\ state' = [state EXCEPT ![r] = "freed"]
  /\ UNCHANGED outcome

Next == \E r \in Requests : Queue(r) \/ Complete(r) \/ Free(r)

Spec == Init /\ [][Next]_avars
=============================================================================
