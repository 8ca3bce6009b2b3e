-------------------------- MODULE QueueManagement --------------------------
(***************************************************************************)
(* QueueService: creating queues and editing their staff.  An edit reads   *)
(* the queue, checks that the requesting user is an admin of what it read, *)
(* changes its copy and saves the whole row; UpdateQueue saves an object   *)
(* its caller read some time before.  Each call runs in a goroutine of its *)
(* own (an Editor) and any read or save of it may fail.  DeleteQueue is    *)
(* left out: it reads and then always answers "not yet implemented".       *)
(* What a call does between two database round trips touches only its own  *)
(* copy, so a round trip and the local work after it are one step; a call  *)
(* that answers an error has changed nothing and simply ends.              *)
(***************************************************************************)
EXTENDS Store

CONSTANTS Editor,    \* goroutines that can serve a call at the same time
          Founders   \* the users who create queues

ASSUME ManagementAssumption == Founders \subseteq User

VARIABLES pc,        \* where each goroutine is in its call
          call,      \* the arguments of its call
          held,      \* its copy of the row, the *domain.Queue it works on
          appointed  \* history: <<queue, list, user>> of every saved addition

vars == <<requests, queues, pc, call, held, appointed>>

Edits == {"AddQueueAdmin", "RemoveQueueAdmin", "AddQueueMember", "RemoveQueueMember"}

Call == [op : Edits, queue : QueueId, user : User, by : User]
   \cup [op : {"UpdateQueue"}, queue : QueueId]

Init ==
  /\ StoreInit
  /\ pc = [e \in Editor |-> "idle"]
  /\ call = [e \in Editor |-> Nil]
  /\ held = [e \in Editor |-> Nil]
  /\ appointed = {}

-----------------------------------------------------------------------------
Return(e) ==
  /\ pc' = [pc EXCEPT ![e] = "idle"]
  /\ call' = [call EXCEPT ![e] = Nil]
  /\ held' = [held EXCEPT ![e] = Nil]

Proceed(e, next, c, row) ==
  /\ pc' = [pc EXCEPT ![e] = next]
  /\ call' = [call EXCEPT ![e] = c]
  /\ held' = [held EXCEPT ![e] = row]

\* CreateQueue: a fresh uuid, the creator as first admin and, since it takes no
\* such argument, no channel.  Everything before the save is local to it.
CreateQueue(q) ==
  /\ ~ Found(queues, q)
  /\ \E creator \in Founders : SaveQueue(q, NewQueue(creator))
  /\ UNCHANGED <<requests, pc, call, held, appointed>>

\* The domain method of an edit: when it succeeds, and what it leaves.
EditAllowed(c, row) ==
  \/ c.op = "AddQueueAdmin"     /\ AddAdminAllowed(row, c.user)
  \/ c.op = "RemoveQueueAdmin"  /\ RemoveAdminAllowed(row, c.user)
  \/ c.op = "AddQueueMember"    /\ AddMemberAllowed(row, c.user)
  \/ c.op = "RemoveQueueMember" /\ RemoveMemberAllowed(row, c.user)

EditApplied(c, row) ==
  CASE c.op = "AddQueueAdmin"     -> AddAdmin(row, c.user)
    [] c.op = "RemoveQueueAdmin"  -> RemoveAdmin(row, c.user)
    [] c.op = "AddQueueMember"    -> AddMember(row, c.user)
    [] c.op = "RemoveQueueMember" -> RemoveMember(row, c.user)

\* A bug: the requesting user is not checked.
StartEditUnchecked(e) ==
  /\ pc[e] = "idle"
  /\ \E c \in {d \in Call : d.op \in Edits} :
       /\ Found(queues, c.queue)
       /\ EditAllowed(c, queues[c.queue])
       /\ Proceed(e, "save", c, EditApplied(c, queues[c.queue]))
  /\ UNCHANGED <<requests, queues, appointed>>

\* The four edits up to their save: read the queue, check the requesting user
\* against it and change the copy.  (Arguments that are empty are refused.)
StartEdit(e) ==
  /\ pc[e] = "idle"
  /\ \E c \in {d \in Call : d.op \in Edits} :
       /\ Found(queues, c.queue)
       /\ CanBeModifiedBy(queues[c.queue], c.by)
       /\ EditAllowed(c, queues[c.queue])
       /\ Proceed(e, "save", c, EditApplied(c, queues[c.queue]))
  /\ UNCHANGED <<requests, queues, appointed>>

\* UpdateQueue is called with an object its caller has got from GetQueue.
GetQueueToUpdate(e) ==
  /\ pc[e] = "idle"
  /\ \E c \in {d \in Call : d.op = "UpdateQueue"} :
       /\ Found(queues, c.queue)
       /\ Proceed(e, "check", c, queues[c.queue])
  /\ UNCHANGED <<requests, queues, appointed>>

\* UpdateQueue itself only looks whether a row with this id exists.
CheckExisting(e) ==
  /\ pc[e] = "check"
  /\ \/ /\ Found(queues, call[e].queue)
        /\ Proceed(e, "save", call[e], held[e])
     \/ Return(e)
  /\ UNCHANGED <<requests, queues, appointed>>

\* Whom a saved call puts on which list of the queue.
Appointments(c) ==
  CASE c.op = "AddQueueAdmin"  -> {<<c.queue, "admins", c.user>>}
    [] c.op = "AddQueueMember" -> {<<c.queue, "members", c.user>>}
    [] OTHER                   -> {}

Save(e) ==
  /\ pc[e] = "save"
  /\ \/ /\ SaveQueue(call[e].queue, held[e])
        /\ appointed' = appointed \cup Appointments(call[e])
     \/ UNCHANGED <<queues, appointed>>
  /\ Return(e)
  /\ UNCHANGED requests

\* The process dies: every call under way is lost, the tables stay.
Crash ==
  /\ pc' = [e \in Editor |-> "idle"]
  /\ call' = [e \in Editor |-> Nil]
  /\ held' = [e \in Editor |-> Nil]
  /\ UNCHANGED <<requests, queues, appointed>>

Step(e) == StartEdit(e) \/ GetQueueToUpdate(e) \/ CheckExisting(e) \/ Save(e)

Next ==
  \/ \E e \in Editor : Step(e)
  \/ \E q \in QueueId : CreateQueue(q)
  \/ Crash

Spec == Init /\ [][Next]_vars

-----------------------------------------------------------------------------
(* Properties *)

\* The tables, the goroutines and the history hold values of their Go types.
TypeOK ==
  /\ StoreTypeOK
  /\ pc \in [Editor -> {"idle", "check", "save"}]
  /\ call \in [Editor -> Call \cup {Nil}]
  /\ held \in [Editor -> QueueRow \cup {Nil}]
  /\ appointed \subseteq QueueId \X {"admins", "members"} \X User

\* Everyone on a stored list but the creator was put there by a saved call for
\* that list of that queue: a stale save may bring somebody back who was
\* removed, but never anybody who was not appointed.
StaffWasAppointed ==
  \A q \in DOMAIN queues : \A u \in User :
    /\ IsAdmin(queues[q], u) =>
         u = queues[q].createdBy \/ <<q, "admins", u>> \in appointed
    /\ IsMember(queues[q], u) => <<q, "members", u>> \in appointed

\* A save that succeeds has the effect that was asked for, on the list it was
\* asked for, at the request of someone who is or has been an admin.
SavedBy(e) == pc[e] = "save" /\ pc'[e] = "idle" /\ queues' # queues

EditsTakeEffect ==
  [][\A e \in Editor :
       SavedBy(e) /\ call[e].op \in Edits =>
         LET c == call[e]  row == queues'[c.queue] IN
         /\ c.by = row.createdBy \/ <<c.queue, "admins", c.by>> \in appointed
         /\ c.op = "AddQueueAdmin" => IsAdmin(row, c.user)
         /\ c.op = "RemoveQueueAdmin" => ~ IsAdmin(row, c.user)
         /\ c.op = "AddQueueMember" => IsMember(row, c.user)
         /\ c.op = "RemoveQueueMember" => ~ IsMember(row, c.user)]_vars
=============================================================================
