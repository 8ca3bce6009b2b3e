-------------------------- MODULE RequestLifecycle --------------------------
(***************************************************************************)
(* What a request is to the people it concerns, after the "Request         *)
(* Lifecycle" of golang_app/README.md: opened by one user, taken by at     *)
(* most one other, and then refused or done for good.  RequestResponse     *)
(* implements this as long as no two of its calls overlap.                 *)
(***************************************************************************)
CONSTANTS Requests, People, Nobody

VARIABLE life   \* Requests -> [phase, creator, owner]

Absent == [phase |-> "absent", creator |-> Nobody, owner |-> Nobody]

Init == life = [r \in Requests |-> Absent]

Open(r, creator) ==
  /\ life[r] = Absent
  /\ life' = [life EXCEPT ![r] = [phase |-> "pending", creator |-> creator, owner |-> Nobody]]

Take(r, owner) ==
  /\ life[r].phase = "pending"
  /\ owner # life[r].creator
  /\ life' = [life EXCEPT ![r].phase = "accepted", ![r].owner = owner]

Refuse(r) ==
  /\ life[r].phase \in {"pending", "accepted"}
  /\ life' = [life EXCEPT ![r].phase = "rejected"]

Finish(r) ==
  /\ life[r].phase = "accepted"
  /\ life' = [life EXCEPT ![r].phase = "completed"]

Next ==
  \E r \in Requests :
    \/ \E p \in People : Open(r, p) \/ Take(r, p)
    \/ Refuse(r)
    \/ Finish(r)

Spec == Init /\ [][Next]_life
=============================================================================
