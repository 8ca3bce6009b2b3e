--------------------------- MODULE RequestResponse ---------------------------
(***************************************************************************)
(* RequestResponseService: AcceptRequest, RejectRequest, CompleteRequest.  *)
(* net/http runs every call in a goroutine of its own (a Worker).  A call  *)
(* is a sequence of steps with a database or Slack round trip in each:     *)
(*                                                                         *)
(*   read       requestsReader.GetById, into the goroutine's own *Request  *)
(*   authorize  the queue is read if the recipient is one, the actor is    *)
(*              checked and the domain method changes the copy             *)
(*   save       requestsWriter.Save of the whole copy                      *)
(*   creator    a direct message to the creator                            *)
(*   acceptor   on completion also one to the acceptor                     *)
(*                                                                         *)
(* A call that is refused at the start (an empty argument, no such         *)
(* request, a failed read) has changed nothing and is not a step.          *)
(*                                                                         *)
(* Steps of different calls interleave.  Any round trip may fail (the      *)
(* database is locked, Slack refuses, the context is cancelled) and the    *)
(* process may crash, which loses every goroutine and keeps the tables.    *)
(* The other services appear as what they do to the tables.                *)
(***************************************************************************)
EXTENDS Store

CONSTANTS Worker,      \* goroutines that can serve a call at the same time
          Creators,    \* the users who submit request forms
          Recipients,  \* the recipients these forms name
          StaffRows,   \* what the services that keep queues save
          MaxCrashes   \* bound on crashes

ASSUME ResponseAssumption ==
  /\ Creators \subseteq User
  /\ Recipients \subseteq Recipient
  /\ StaffRows \subseteq QueueRow
  /\ \A row \in StaffRows : WellStaffed(row)
  /\ MaxCrashes \in Nat

VARIABLES pc,       \* where each goroutine is in its call
          call,     \* the arguments of its call
          held,     \* its copy of the row, the *domain.Request it works on
          crashes,  \* crashes so far
          commits,  \* history: the saves that succeeded
          sent,     \* history: the direct messages attempted
          staffed   \* history: who has ever been on the staff of a queue

responseVars == <<pc, call, held, crashes, commits, sent>>
vars == <<requests, queues, responseVars, staffed>>

Call == [op : {"accept", "complete"}, req : RequestId, user : User, reason : {Empty}]
   \cup [op : {"reject"}, req : RequestId, user : User, reason : Reason]

\* A successful save: the call and the row it wrote.
Commit == [call : Call, wrote : RequestRow]

\* A direct message: to whom, about which call, as what.
Notice == [to : User, call : Call, as : {"creator", "acceptor"}]

\* Points at which a goroutine holds a copy of the row.
Holding == {"authorize", "save", "creator", "acceptor"}

Init ==
  /\ StoreInit
  /\ pc = [w \in Worker |-> "idle"]
  /\ call = [w \in Worker |-> Nil]
  /\ held = [w \in Worker |-> Nil]
  /\ crashes = 0
  /\ commits = {} /\ sent = {} /\ staffed = {}

-----------------------------------------------------------------------------
(* The steps of a call *)

\* The goroutine of w returns to net/http.
Return(w) ==
  /\ pc' = [pc EXCEPT ![w] = "idle"]
  /\ call' = [call EXCEPT ![w] = Nil]
  /\ held' = [held EXCEPT ![w] = Nil]

Proceed(w, next, row) ==
  /\ pc' = [pc EXCEPT ![w] = next]
  /\ held' = [held EXCEPT ![w] = row]
  /\ UNCHANGED call

\* A call whose arguments pass the checks for empty values and whose GetById
\* finds the row.
Start(w) ==
  /\ pc[w] = "idle"
  /\ \E c \in Call :
       /\ Found(requests, c.req)
       /\ call' = [call EXCEPT ![w] = c]
       /\ held' = [held EXCEPT ![w] = requests[c.req]]
  /\ pc' = [pc EXCEPT ![w] = "authorize"]
  /\ UNCHANGED <<requests, queues, crashes, commits, sent, staffed>>

\* buildAuthorizationContext: the queue as it is stored now, else nil.
QueueOf(row) ==
  IF row.recipient.type = "queue" THEN queues[row.recipient.id] ELSE Nil

ContextBuilt(row) == row.recipient.type = "queue" => Found(queues, row.recipient.id)

\* The check and the domain method of each operation, on the copy.
Permitted(c, row) ==
  \/ /\ c.op = "accept"
     /\ CanAccept(row, QueueOf(row), c.user)
     /\ AcceptAllowed(row, c.user)
  \/ /\ c.op = "reject"
     /\ CanReject(row, QueueOf(row), c.user)
     /\ RejectAllowed(row, c.reason)
  \/ /\ c.op = "complete"
     /\ CanComplete(row, c.user)
     /\ CompleteAllowed(row)

\* A bug: completing a request also signs it as accepted by the actor.
AppliedSigningCompletion(c, row) ==
  CASE c.op = "accept"   -> Accept(row, c.user)
    [] c.op = "reject"   -> Reject(row, c.reason)
    [] c.op = "complete" -> [Complete(row) EXCEPT !.acceptedBy = c.user]

Applied(c, row) ==
  CASE c.op = "accept"   -> Accept(row, c.user)
    [] c.op = "reject"   -> Reject(row, c.reason)
    [] c.op = "complete" -> Complete(row)

\* Only a queue is read here, and only that read can fail.
Authorize(w) ==
  /\ pc[w] = "authorize"
  /\ \/ /\ ContextBuilt(held[w])
        /\ Permitted(call[w], held[w])
        /\ Proceed(w, "save", Applied(call[w], held[w]))
     \/ /\ held[w].recipient.type # "queue" => ~ Permitted(call[w], held[w])
        /\ Return(w)
  /\ UNCHANGED <<requests, queues, crashes, commits, sent, staffed>>

\* A bug: an error of Save is logged and otherwise ignored.
SaveIgnoringErrors(w) ==
  /\ pc[w] = "save"
  /\ Proceed(w, "creator", held[w])
  /\ \/ /\ SaveRequest(call[w].req, held[w])
        /\ commits' = commits \cup {[call |-> call[w], wrote |-> held[w]]}
     \/ UNCHANGED <<requests, commits>>
  /\ UNCHANGED <<queues, crashes, sent, staffed>>

Save(w) ==
  /\ pc[w] = "save"
  /\ \/ /\ SaveRequest(call[w].req, held[w])
        /\ commits' = commits \cup {[call |-> call[w], wrote |-> held[w]]}
        /\ Proceed(w, "creator", held[w])
     \/ /\ Return(w)
        /\ UNCHANGED <<requests, commits>>
  /\ UNCHANGED <<queues, crashes, sent, staffed>>

\* Whom a saved call tells: the creator of every acceptance and rejection,
\* and of a completion both parties but the one who completed it.
NoticeDue(role, c, row) ==
  CASE role = "creator"  -> c.op = "complete" => c.user # row.createdBy
    [] role = "acceptor" -> c.op = "complete" /\ row.acceptedBy \notin {Empty, c.user}

NoticeTo(role, c, row) ==
  [to |-> IF role = "creator" THEN row.createdBy ELSE row.acceptedBy,
   call |-> c, as |-> role]

\* SendDirectMessage, whose failure is logged and otherwise ignored.
Tell(w, role) ==
  sent' = IF NoticeDue(role, call[w], held[w])
            THEN sent \cup {NoticeTo(role, call[w], held[w])}
            ELSE sent

\* A bug: the first message that fails ends the notification.
TellCreatorOrGiveUp(w) ==
  /\ pc[w] = "creator"
  /\ Tell(w, "creator")
  /\ Proceed(w, "acceptor", held[w]) \/ Return(w)
  /\ UNCHANGED <<requests, queues, crashes, commits, staffed>>

TellCreator(w) ==
  /\ pc[w] = "creator"
  /\ Tell(w, "creator")
  /\ Proceed(w, "acceptor", held[w])
  /\ UNCHANGED <<requests, queues, crashes, commits, staffed>>

TellAcceptor(w) ==
  /\ pc[w] = "acceptor"
  /\ Tell(w, "acceptor")
  /\ Return(w)
  /\ UNCHANGED <<requests, queues, crashes, commits, staffed>>

-----------------------------------------------------------------------------
(* The surroundings: the process, and the other services on the tables *)

\* The process dies and is started again: every goroutine is lost.
Crash ==
  /\ crashes < MaxCrashes
  /\ \E w \in Worker : pc[w] # "idle"
  /\ crashes' = crashes + 1
  /\ pc' = [w \in Worker |-> "idle"]
  /\ call' = [w \in Worker |-> Nil]
  /\ held' = [w \in Worker |-> Nil]
  /\ UNCHANGED <<requests, queues, commits, sent, staffed>>

\* A bug: a form that Slack delivers again is saved under the same id again.
FormSavesAgain(r) ==
  /\ \E creator \in Creators, recipient \in Recipients :
       SaveRequest(r, NewRequest(creator, recipient))
  /\ UNCHANGED <<queues, responseVars, staffed>>

\* FormSubmissionService stores a new request under a fresh uuid; nothing
\* keeps a user from naming himself as the recipient.
FormSaves(r) ==
  /\ ~ Found(requests, r)
  /\ \E creator \in Creators, recipient \in Recipients :
       SaveRequest(r, NewRequest(creator, recipient))
  /\ UNCHANGED <<queues, responseVars, staffed>>

\* QueueService and FormSubmissionService save a queue: whatever of its staff
\* their stale copies bring back or take away, it stays the queue of the one who
\* created it.  (ReQuest shows that they do no more than this.)
QueueSaves(q) ==
  /\ \E row \in StaffRows :
       /\ Found(queues, q) => row.createdBy = queues[q].createdBy
       /\ SaveQueue(q, row)
       /\ staffed' = staffed \cup ({q} \X {u \in User : CanRespondToRequests(row, u)})
  /\ UNCHANGED <<requests, responseVars>>

-----------------------------------------------------------------------------
Step(w) ==
  \/ Start(w)
  \/ Authorize(w)
  \/ Save(w)
  \/ TellCreator(w)
  \/ TellAcceptor(w)

Next ==
  \/ \E w \in Worker : Step(w)
  \/ Crash
  \/ \E r \in RequestId : FormSaves(r)
  \/ \E q \in QueueId : QueueSaves(q)

\* A started call goes on: goroutines are scheduled, and a round trip returns
\* or fails, at the latest when the context of the HTTP request is cancelled.
Goes(w) == Authorize(w) \/ Save(w) \/ TellCreator(w) \/ TellAcceptor(w)

Spec == Init /\ [][Next]_vars

FairSpec == Spec /\ \A w \in Worker : WF_vars(Goes(w))
-----------------------------------------------------------------------------
(* Properties *)

\* Every table, goroutine and history variable holds values of its Go type.
TypeOK ==
  /\ StoreTypeOK
  /\ pc \in [Worker -> {"idle"} \cup Holding]
  /\ call \in [Worker -> Call \cup {Nil}]
  /\ held \in [Worker -> RequestRow \cup {Nil}]
  /\ crashes \in 0..MaxCrashes
  /\ commits \subseteq Commit
  /\ sent \subseteq Notice
  /\ staffed \subseteq QueueId \X User

\* Whoever a row names as its acceptor made an AcceptRequest call for that
\* very request that was saved, however many stale copies were saved since.
AcceptorReallyAccepted ==
  \A r \in DOMAIN requests :
    requests[r].acceptedBy # Empty =>
      \E c \in commits : /\ c.call.op = "accept" /\ c.call.req = r
                         /\ c.call.user = requests[r].acceptedBy

\* An acceptor was entitled to it: he is the addressed user, or he has been on
\* the staff of the addressed queue.  (That he still is when the acceptance is
\* saved does not hold: the queue is read before.)
AcceptorWasEligible ==
  \A r \in DOMAIN requests :
    LET row == requests[r] IN
    row.acceptedBy # Empty =>
      /\ row.recipient.type = "user"  => row.acceptedBy = row.recipient.id
      /\ row.recipient.type = "queue" => <<row.recipient.id, row.acceptedBy>> \in staffed

\* Nobody can ever answer a request its creator addressed to himself, nor one
\* addressed to a queue that does not exist: it is neither accepted nor rejected
\* nor completed, through whatever copy, until somebody makes that queue.
DeadEnd(row) ==
  \/ row.recipient.type = "user" /\ row.recipient.id = row.createdBy
  \/ row.recipient.type = "queue" /\ ~ Found(queues, row.recipient.id)

DeadEndsStayPending ==
  \A r \in DOMAIN requests : DeadEnd(requests[r]) => requests[r].status = "pending"

\* No direct message is a lie: it follows a save of the call it reports, goes
\* to the creator or to someone who accepted that request, and tells nobody of
\* a completion of his own.
NoticesAreTrue ==
  \A n \in sent :
    \E c \in commits :
      /\ c.call = n.call
      /\ n.as = "creator" => n.to = c.wrote.createdBy
      /\ n.as = "acceptor" =>
           \E a \in commits : /\ a.call.op = "accept" /\ a.call.req = n.call.req
                              /\ a.call.user = n.to
      /\ n.call.op = "complete" => n.to # n.call.user

\* What can be overtaken has limits: a request that was decided on is never
\* pending again, one that is pending is never completed at a stroke, and no
\* save moves a request to another creator or recipient.
DecisionStands(r) ==
  /\ r \in DOMAIN requests'
  /\ requests'[r].createdBy = requests[r].createdBy
  /\ requests'[r].recipient = requests[r].recipient
  /\ requests[r].status # "pending" => requests'[r].status # "pending"
  /\ requests[r].status = "pending" => requests'[r].status # "completed"

DecisionsStand == [][\A r \in DOMAIN requests : DecisionStands(r)]_vars

\* Every saved decision is announced to everyone it concerns, one failing
\* message notwithstanding, unless the process crashes first.
Unannounced(c) ==
  \E role \in {"creator", "acceptor"} :
    NoticeDue(role, c.call, c.wrote) /\ NoticeTo(role, c.call, c.wrote) \notin sent

DecisionsAreAnnounced ==
  (\E c \in commits : Unannounced(c)) ~>
    (crashes > 0 \/ \A c \in commits : ~ Unannounced(c))

\* The safety half of it, at every moment: unless the process has crashed, a
\* saved decision that is still to be announced is in the hands of a goroutine
\* that has not come to the end of its messages.
Announcing(w, c) ==
  pc[w] \in {"creator", "acceptor"} /\ call[w] = c.call /\ held[w] = c.wrote

NoneForgotten ==
  crashes = 0 => \A c \in commits : Unannounced(c) => \E w \in Worker : Announcing(w, c)

\* The life of each request, read off its row.
LifeOf(r) ==
  IF Found(requests, r)
    THEN [phase |-> requests[r].status, creator |-> requests[r].createdBy,
          owner |-> requests[r].acceptedBy]
    ELSE [phase |-> "absent", creator |-> Empty, owner |-> Empty]

Lifecycle == INSTANCE RequestLifecycle
               WITH Requests <- RequestId, People <- User, Nobody <- Empty,
                    life <- [r \in RequestId |-> LifeOf(r)]

\* With one goroutine at a time the service keeps the lifecycle: one acceptor,
\* no way back, nothing after a rejection or a completion.
FollowsLifecycle == Lifecycle!Spec

-----------------------------------------------------------------------------
(* What golang_app/README.md promises and the code does not keep *)

\* "First-come-first-served (no multiple acceptances)": so it is only while no
\* two calls overlap.
NoMultipleAcceptances ==
  \A c, d \in commits :
    c.call.op = "accept" /\ d.call.op = "accept" /\ c.call.req = d.call.req
      => c.call.user = d.call.user

\* Once accepted, only the acceptor and the creator can complete or reject:
\* "No one else can complete/reject".
OnlyPartiesReject ==
  \A c \in commits :
    c.wrote.status = "rejected" /\ c.wrote.acceptedBy # Empty
      => c.call.user \in {c.wrote.acceptedBy, c.wrote.createdBy}
=============================================================================
