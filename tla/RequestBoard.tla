---------------------------- MODULE RequestBoard ----------------------------
(***************************************************************************)
(* What the tables of the Node application promise, whatever statements,   *)
(* posts and processes fail: queues are opened and then stay as they are;  *)
(* a request is put on a queue that is there, idle, in the name of the     *)
(* owner of that queue; and nothing about it ever changes but its status,  *)
(* which never goes back to idle.                                          *)
(***************************************************************************)
EXTENDS Functions

CONSTANTS QueueIds, RequestIds

VARIABLES queues, requests

NoRows == [id \in {} |-> id]

Init == queues = NoRows /\ requests = NoRows

\* A row is added under an id no other row has.
Adds(old, new, id) ==
  /\ id \notin DOMAIN old
  /\ DOMAIN new = DOMAIN old \cup {id}
  /\ \A i \in DOMAIN old : new[i] = old[i]

Open(id) ==
  /\ Adds(queues, queues', id)
  /\ queues'[id].id = id
  /\ UNCHANGED requests

Post(id) ==
  /\ Adds(requests, requests', id)
  /\ requests'[id].status = "Idle"
  /\ requests'[id].queueId \in DOMAIN queues
  /\ requests'[id].createdBy = queues[requests'[id].queueId].owner
  /\ UNCHANGED queues

Decide(id, status) ==
  /\ id \in DOMAIN requests
  /\ requests' = [requests EXCEPT ![id].status = status]
  /\ UNCHANGED queues

Next ==
  \/ \E id \in QueueIds : Open(id)
  \/ \E id \in RequestIds : Post(id)
  \/ \E id \in RequestIds, status \in {"In Progress", "Rejected"} :
       Decide(id, status)

Spec == Init /\ [][Next]_<<queues, requests>>
=============================================================================
