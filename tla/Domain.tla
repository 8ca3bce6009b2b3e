------------------------------- MODULE Domain -------------------------------
(***************************************************************************)
(* The domain rules of the Go application (golang_app/internal/domain):    *)
(* what a request and a queue are, which changes their methods make, and   *)
(* who the authorization context lets act on them.  Pure operators, no     *)
(* state.  A method that can fail is a pair: the condition under which it  *)
(* returns nil (named ...Allowed) and the value it leaves behind.          *)
(*                                                                         *)
(* Titles, descriptions and timestamps are left out: no rule reads them.   *)
(***************************************************************************)
EXTENDS Naturals, FiniteSets, SequencesExt

CONSTANTS User,       \* Slack user ids
          Channel,    \* Slack channel ids
          QueueId,    \* ids of queues (uuids)
          RequestId,  \* ids of requests (uuids)
          Reason,     \* non-empty rejection reasons
          Nil         \* Go's nil pointer

\* The empty string: nobody has accepted, no reason was given.
Empty == ""

ASSUME DomainAssumption ==
  /\ Empty \notin User \cup Channel \cup QueueId \cup RequestId \cup Reason
  /\ Nil \notin User \cup Channel \cup QueueId \cup RequestId \cup Reason

-----------------------------------------------------------------------------
(* Requests *)

Status == {"pending", "accepted", "rejected", "completed"}

\* A valid recipient: a known type and the id of something of that type.
Recipient == [type : {"user"},    id : User]
        \cup [type : {"channel"}, id : Channel]
        \cup [type : {"queue"},   id : QueueId]

RequestRow == [createdBy  : User,
               recipient  : Recipient,
               status     : Status,
               acceptedBy : User \cup {Empty},
               reason     : Reason \cup {Empty}]

ASSUME NilIsNoRow == Nil \notin RequestRow

\* A bug: a new request counts as accepted by the one it is addressed to.
NewAssignedRequest(creator, recipient) ==
  [createdBy |-> creator, recipient |-> recipient, status |-> "pending",
   acceptedBy |-> recipient.id, reason |-> Empty]

NewRequest(creator, recipient) ==
  [createdBy |-> creator, recipient |-> recipient, status |-> "pending",
   acceptedBy |-> Empty, reason |-> Empty]

\* A bug: whoever accepts last has it.
AcceptAnyAllowed(row, user) == row.createdBy # user

AcceptAllowed(row, user) == row.status = "pending" /\ row.createdBy # user

\* A bug: the addressee is taken for the acceptor.
AcceptForRecipient(row, user) ==
  [row EXCEPT !.status = "accepted", !.acceptedBy = row.recipient.id]

Accept(row, user) == [row EXCEPT !.status = "accepted", !.acceptedBy = user]

\* A bug: the guard only keeps a request from being rejected twice.
RejectUnlessRejected(row, reason) == row.status # "rejected" /\ reason # Empty

RejectAllowed(row, reason) == row.status \in {"pending", "accepted"} /\ reason # Empty

Reject(row, reason) == [row EXCEPT !.status = "rejected", !.reason = reason]

CompleteAllowed(row) == row.status = "accepted"

Complete(row) == [row EXCEPT !.status = "completed"]

CanBeCompletedBy(row, user) ==
  row.status = "accepted" /\ (row.acceptedBy = user \/ row.createdBy = user)

-----------------------------------------------------------------------------
(* Queues: AdminIds and MemberIds are slices, so order and repetition count *)

QueueRow == [createdBy : User,
             channel   : Channel \cup {Empty},
             admins    : Seq(User),
             members   : Seq(User)]

\* A bug: the creator is made an admin and not recorded as the creator.
NewOwnerlessQueue(creator) ==
  [createdBy |-> Empty, channel |-> Empty, admins |-> <<creator>>, members |-> <<>>]

NewQueue(creator) ==
  [createdBy |-> creator, channel |-> Empty, admins |-> <<creator>>, members |-> <<>>]

IsAdmin(queue, user) == Contains(queue.admins, user)

IsMember(queue, user) == Contains(queue.members, user)

AddAdminAllowed(queue, user) == ~ IsAdmin(queue, user)

AddAdmin(queue, user) == [queue EXCEPT !.admins = Append(@, user)]

\* A bug: the creator is an admin like the others.
RemoveAnyAdminAllowed(queue, user) == IsAdmin(queue, user)

RemoveAdminAllowed(queue, user) == user # queue.createdBy /\ IsAdmin(queue, user)

RemoveAdmin(queue, user) == [queue EXCEPT !.admins = RemoveFirst(@, user)]

AddMemberAllowed(queue, user) == ~ IsMember(queue, user)

\* A bug: AddMember, copied from AddAdmin, appends to the wrong slice.
AddMemberToAdmins(queue, user) == [queue EXCEPT !.admins = Append(@, user)]

AddMember(queue, user) == [queue EXCEPT !.members = Append(@, user)]

RemoveMemberAllowed(queue, user) == IsMember(queue, user)

RemoveMember(queue, user) == [queue EXCEPT !.members = RemoveFirst(@, user)]

CanRespondToRequests(queue, user) == IsAdmin(queue, user) \/ IsMember(queue, user)

CanBeModifiedBy(queue, user) == IsAdmin(queue, user)

-----------------------------------------------------------------------------
(* AuthorizationContext: queue is Nil unless the recipient is a queue *)

\* A bug: a queue that exists is enough, its staff is not looked at.
CanAcceptForAnyQueue(row, queue, actor) ==
  /\ actor # Empty
  /\ row.createdBy # actor
  /\ \/ row.recipient.type = "user" /\ row.recipient.id = actor
     \/ row.recipient.type = "channel"
     \/ row.recipient.type = "queue" /\ queue # Nil

\* A bug: the creator is left to the domain method, which only Accept has.
CanAcceptOwn(row, queue, actor) ==
  /\ actor # Empty
  /\ \/ row.recipient.type = "user" /\ row.recipient.id = actor
     \/ row.recipient.type = "channel"
     \/ row.recipient.type = "queue" /\ queue # Nil /\ CanRespondToRequests(queue, actor)

CanAccept(row, queue, actor) ==
  /\ actor # Empty
  /\ row.createdBy # actor
  /\ \/ row.recipient.type = "user" /\ row.recipient.id = actor
     \/ row.recipient.type = "channel"
     \/ row.recipient.type = "queue" /\ queue # Nil /\ CanRespondToRequests(queue, actor)

CanComplete(row, actor) == actor # Empty /\ CanBeCompletedBy(row, actor)

\* Note that CanAccept does not look at the status: whoever may answer a
\* pending request may also reject it once somebody else has accepted it.
CanReject(row, queue, actor) == CanAccept(row, queue, actor) \/ CanComplete(row, actor)
=============================================================================
