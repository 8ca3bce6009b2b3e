------------------------------- MODULE ReQuest -------------------------------
(***************************************************************************)
(* The services of the Go application on the tables they share: while      *)
(* goroutines answer a request to a queue, others edit that queue, save it *)
(* as they read it some time ago, or make it.  RequestResponse alone       *)
(* assumes of its surroundings only which queues they save; here they are  *)
(* QueueManagement's calls, with their stale copies, which keep to that:   *)
(* every behaviour here is one of RequestResponse.  Who has been on a      *)
(* staff is what these calls recorded.  FormSubmission appears as its      *)
(* saves.                                                                  *)
(***************************************************************************)
EXTENDS QueueManagement

CONSTANTS Worker, Creators, Recipients, MaxCrashes  \* of RequestResponse

\* What RequestResponse assumes of them.
ASSUME SharedAssumption ==
  /\ IsFiniteSet(User)
  /\ Creators \subseteq User
  /\ Recipients \subseteq Recipient
  /\ MaxCrashes \in Nat

VARIABLES answering,  \* RequestResponse's pc
          answer,     \* its call
          copy,       \* its held
          crashes, commits, sent

responseVars == <<answering, answer, copy, crashes, commits, sent>>
managementVars == <<pc, call, held, appointed>>
allVars == <<requests, queues, responseVars, managementVars>>

\* Who is or has been on the staff of which queue: whoever a saved call put on
\* one of its lists, and who created it.
StaffSoFar ==
  {<<a[1], a[3]>> : a \in appointed} \cup {<<q, queues[q].createdBy>> : q \in DOMAIN queues}

\* All queues there can be: nobody is listed twice, so lists are no longer than
\* there are users.
StaffLists == {list \in SeqOf(User, Cardinality(User)) : NoRepetition(list)}

QueueRows == [createdBy : User, channel : Channel \cup {Empty},
              admins : StaffLists, members : StaffLists]

StaffedRows == {row \in QueueRows : WellStaffed(row)}

Responses == INSTANCE RequestResponse
               WITH pc <- answering, call <- answer, held <- copy, staffed <- StaffSoFar,
                    StaffRows <- StaffedRows

AllInit ==
  /\ Init
  /\ answering = [w \in Worker |-> "idle"]
  /\ answer = [w \in Worker |-> Nil]
  /\ copy = [w \in Worker |-> Nil]
  /\ crashes = 0
  /\ commits = {} /\ sent = {}

-----------------------------------------------------------------------------
Respond(w) == UNCHANGED managementVars /\ Responses!Step(w)

Manage(e) == Step(e) /\ UNCHANGED responseVars

MakeQueue(q) == CreateQueue(q) /\ UNCHANGED responseVars

\* A request form is saved, to a queue that may be made later, or never.
SubmitRequest(r) == UNCHANGED managementVars /\ Responses!FormSaves(r)

\* A queue form is saved, with a colleague selected as a further admin (more
\* of them are FormSubmission's).  Its channel, which no service here reads, is
\* left out.
SubmitQueue(q) ==
  /\ ~ Found(queues, q)
  /\ \E creator \in Founders : \E admin \in User \ {creator} :
       /\ SaveQueue(q, AddAdmin(NewQueue(creator), admin))
       /\ appointed' = appointed \cup {<<q, "admins", admin>>}
  /\ UNCHANGED <<requests, responseVars, pc, call, held>>

\* The process dies, and with it every goroutine of every service.
CrashAll == Crash /\ Responses!Crash

AllNext ==
  \/ \E w \in Worker : Respond(w)
  \/ \E e \in Editor : Manage(e)
  \/ \E q \in QueueId : MakeQueue(q) \/ SubmitQueue(q)
  \/ \E r \in RequestId : SubmitRequest(r)
  \/ CrashAll

SharedSpec == AllInit /\ [][AllNext]_allVars

-----------------------------------------------------------------------------
(* Properties *)

\* However stale the copies two services work on: whoever answered was entitled
\* to it.  A request to a queue was accepted or rejected only by somebody a
\* saved call had put on its staff, or who made the queue; its creator and its
\* acceptor may reject it once it was accepted, and only they complete it.
Entitled(c, row, staff) ==
  \/ /\ c.op \in {"accept", "reject"}
     /\ \/ row.recipient.type = "channel"
        \/ row.recipient.type = "user" /\ row.recipient.id = c.user
        \/ row.recipient.type = "queue" /\ <<row.recipient.id, c.user>> \in staff
     /\ c.user # row.createdBy
  \/ /\ c.op \in {"reject", "complete"}
     /\ row.acceptedBy # Empty
     /\ c.user \in {row.createdBy, row.acceptedBy}

AnswersWereEntitled == \A c \in commits : Entitled(c.call, c.wrote, StaffSoFar)

\* For RequestResponseService the other services are what it takes them for:
\* whatever they save over each other, a queue keeps its creator and stays well
\* staffed, and whoever may respond for it is recorded.
ServesRequests == Responses!Spec
=============================================================================
