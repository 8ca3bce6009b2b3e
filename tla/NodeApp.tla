------------------------------ MODULE NodeApp ------------------------------
(***************************************************************************)
(* The Node application: slash commands and clicks on the buttons of its   *)
(* messages, served concurrently by one process over one database.  A slot *)
(* holds one HTTP request from its receipt to its response; a step runs    *)
(* from one await to the next: a statement of the database or a post to    *)
(* Slack, and the code up to the one after it.  Statements and posts can   *)
(* fail with or without taking effect, and the process can stop at any     *)
(* point and start again with nothing but its tables.                      *)
(*                                                                         *)
(* Names, wording and timestamps are left out.  Every queue stored is a    *)
(* personal one: the code that would create any other is never reached     *)
(* (SubmitNewQueue).                                                       *)
(***************************************************************************)
EXTENDS NodeTables, BlockKit, SlackInbound, Functions

CONSTANTS Users, Channels,
          QueueIds, RequestIds,   \* what randomUUID returns
          Descriptions,           \* what users type into the request form
          Slots,                  \* HTTP requests served at a time
          Deployments,            \* databases the application may be given
          Faults,                 \* do statements and posts fail, does it stop
          MaxCalls                \* bound: HTTP requests received

ASSUME NodeAssumption ==
  /\ Deployments \subseteq Schema
  /\ Faults \in BOOLEAN
  /\ MaxCalls \in Nat
  /\ Undefined \notin Users \cup Channels \cup QueueIds \cup RequestIds
                        \cup Descriptions

VARIABLES schema,     \* the database it was given
          users,      \* rows of users: their ids
          queues,     \* rows of queues
          requests,   \* rows of requests
          shown,      \* buttons on the messages of each user
          notices,    \* direct messages posted to users
          call,       \* each slot: the HTTP request it serves
          served      \* HTTP requests received so far

tables == <<users, queues, requests>>
vars == <<schema, users, queues, requests, shown, notices, call, served>>

-----------------------------------------------------------------------------
(* Rows, as the repository writes and reads them *)

QueueRow == [id : QueueIds, owner : Users, channel : Channels, type : {"user"}]

NewQueue(id, c) ==
  [id |-> id, owner |-> c.user, channel |-> c.channel, type |-> "user"]

RequestStatus == {"Idle", "In Progress", "Rejected"}

RequestRow == [queueId : QueueIds, description : Descriptions,
               createdBy : Users, status : RequestStatus]

\* A bug: nobody has to pick the request up.
PickedUpRequest(queue, typed) ==
  [queueId |-> queue.id, description |-> typed, createdBy |-> queue.owner,
   status |-> "In Progress"]

\* A bug: the status is left for the table to fill in.
UnsetRequest(queue, typed) ==
  [queueId |-> queue.id, description |-> typed, createdBy |-> queue.owner,
   status |-> Undefined]

\* The creator of a request is the owner the button's queue snapshot names.
NewRequest(queue, typed) ==
  [queueId |-> queue.id, description |-> typed, createdBy |-> queue.owner,
   status |-> "Idle"]

\* Whatever the table says, a request is read back as idle.
ReadRequest(row) == [row EXCEPT !.status = "Idle"]

\* A bug: a user's personal queue is looked for among those of channels.
MislaidQueues(user) ==
  {row \in Range(queues) : row.owner = user /\ row.type = "channel"}

PersonalQueues(user) ==
  {row \in Range(queues) : row.owner = user /\ row.type = "user"}

ChannelQueues(channel) == {row \in Range(queues) : row.channel = channel}

RequestsOf(queue) ==
  {id \in DOMAIN requests : requests[id].queueId = queue.id}

\* One id out of those no row has; none when the instance has run out of them.
Fresh(ids, rows) ==
  IF ids \subseteq DOMAIN rows THEN {}
  ELSE {CHOOSE id \in ids : id \notin DOMAIN rows}

With(rows, id, row) ==
  [i \in DOMAIN rows \cup {id} |-> IF i = id THEN row ELSE rows[i]]

-----------------------------------------------------------------------------
(* How a statement or a post can end *)

\* Reads and writes: "done", "refused" (no effect, throws), "lost" (takes
\* effect, and throws because the answer did not come back).
ReadOutcome(fits) ==
  IF ~fits THEN {"refused"} ELSE IF Faults THEN {"done", "refused"} ELSE {"done"}

WriteOutcome(fits) ==
  IF ~fits THEN {"refused"}
  ELSE IF Faults THEN {"done", "refused", "lost"} ELSE {"done"}

Applied(outcome) == outcome \in {"done", "lost"}
Throws(outcome)  == outcome \in {"refused", "lost"}

\* Posts also end "ignored": Slack says no, which is logged and not thrown.
PostOutcome ==
  IF Faults THEN {"done", "refused", "lost", "ignored"} ELSE {"done"}

-----------------------------------------------------------------------------
(* Calls *)

Commands == [kind : {"list", "create-queue", "help", ""}]

QueueButton == [kind : {"view", "add", "delete", "submit"}, queue : QueueRow]

DecisionButton ==
       [kind : {"accept"}, request : RequestIds, user : Users,
        title : {"name"}, owner : Users]
  \cup [kind : {"reject"}, request : RequestIds, user : Users,
        title : {Undefined}, owner : Users]

Cancel == [kind : {"cancel"}]

Button == QueueButton \cup DecisionButton \cup Cancel

\* Buttons no message of this version shows, left on messages of another one.
Leftover == [kind : {"submit-new-queue", "completed-request"}]

Await == {"listUsers", "createUser", "listDefaults", "listPersonal",
          "createPersonal", "listChannel", "createRequest", "listRequests",
          "update", "notify", "respond"}

Unanswered == 0
Success == 200
ServerError == 500
HttpStatus == {Unanswered, Success, 400, 401, 404, ServerError}

NoJob == [kind |-> "none"]

\* stranger and first remember what the tables said when the call was received:
\* no row for its user, no queue of his.  Only properties read them.
Calls ==
  [at       : Await \cup {"free", "answered"},
   user     : Users \cup {Undefined},
   channel  : Channels \cup {Undefined},
   job      : Commands \cup Button \cup Leftover \cup {NoJob},
   typed    : Descriptions \cup {Undefined},
   personal : QueueRow \cup {Undefined},
   offer    : SUBSET Button,
   answer   : HttpStatus,
   stranger : BOOLEAN,
   first    : BOOLEAN]

NoCall ==
  [at |-> "free", user |-> Undefined, channel |-> Undefined, job |-> NoJob,
   typed |-> Undefined, personal |-> Undefined, offer |-> {}, answer |-> Unanswered,
   stranger |-> FALSE, first |-> FALSE]

Becomes(h, c) == call' = [call EXCEPT ![h] = c]

Receive(h, new) ==
  /\ call[h].at = "free"
  /\ served < MaxCalls
  /\ served' = served + 1
  /\ Becomes(h, new)
  /\ UNCHANGED <<schema, tables, shown, notices>>

Waiting(c, await) == [c EXCEPT !.at = await]

Ended(c, status, buttons) ==
  [c EXCEPT !.at = "answered", !.offer = buttons, !.answer = status]

Offering(c, buttons) == [Waiting(c, "respond") EXCEPT !.offer = buttons]

Owning(c, queue) == [Waiting(c, "listChannel") EXCEPT !.personal = queue]

Move(h, await) == Becomes(h, Waiting(call[h], await))

\* A bug: the error is neither answered nor passed on.
HangUp(h) == Move(h, "hung")

\* An error that reaches the router: next(err), and the error handler.
Fail(h) == Becomes(h, Ended(call[h], ServerError, {}))

Answer(h, buttons) == Becomes(h, Ended(call[h], Success, buttons))

Is(h, at) == call[h].at = at
Kind(h) == call[h].job.kind

-----------------------------------------------------------------------------
(* Handlers that never get to an await *)

\* The guard is inverted: a button with its queue is taken for one without, is
\* logged and left alone, and one without makes JSON.parse throw, which is
\* caught.  Nothing is ever deleted, and the answer is the same.
DeleteQueue(button) == Success

\* CreateQueueForm.GetData is called without its logger: it destructures the
\* user of undefined.
SubmitNewQueue == ServerError

-----------------------------------------------------------------------------
(* Receipt: the edge and the dispatch, up to the first await *)

\* Refused at the edge, or the body is not one a controller takes.
ReceiveBad(h) ==
  \E envelope \in Envelope, path \in Path :
    LET status == IF Edge(envelope, path) # 0 THEN Edge(envelope, path)
                  ELSE BadBody(path)
    IN  Receive(h, [NoCall EXCEPT !.at = "answered", !.answer = status])

\* Every command first looks its user up.
ReceiveCommand(h) ==
  \E user \in Users, channel \in Channels, text \in CommandText :
    Receive(h, [NoCall EXCEPT
      !.at = "listUsers", !.user = user, !.channel = channel,
      !.job = [kind |-> CommandAction(text)],
      !.stranger = user \notin users,
      !.first = \A q \in DOMAIN queues : queues[q].owner # user])

\* What the dispatch of a click does before its first await: where it waits,
\* and the buttons of the message it is going to post.
Dispatch(new) ==
  LET kind == new.job.kind
      At(await, buttons) == [new EXCEPT !.at = await, !.offer = buttons]
      Now(status) == [new EXCEPT !.at = "answered", !.answer = status]
  IN CASE kind = "cancel" -> At("respond", {})
       [] kind = "add"    -> At("respond", RequestForm(new.job.queue).buttons)
       [] kind = "view"   -> At("listRequests", {})
       [] kind = "submit" -> At("createRequest", {})
       [] kind \in {"accept", "reject"} -> At("update", {})
       [] kind = "delete" -> Now(DeleteQueue(new.job))
       [] kind = "submit-new-queue" -> Now(SubmitNewQueue)
       [] OTHER -> Now(Success)

ReceiveClick(h) ==
  \/ \E s \in shown, typed \in Descriptions :
       Receive(h, Dispatch([NoCall EXCEPT !.user = s.to, !.job = s.button,
                              !.typed = IF s.button.kind = "submit" THEN typed
                                        ELSE Undefined]))
  \/ \E user \in Users, button \in Leftover :
       Receive(h, Dispatch([NoCall EXCEPT !.user = user, !.job = button]))

-----------------------------------------------------------------------------
(* Commands *)

\* The user is established: on to the handler of the command.
Established(h) ==
  CASE Kind(h) = "list" -> Move(h, "listPersonal")
    [] Kind(h) = "create-queue" -> Move(h, "listDefaults")
    [] OTHER -> Answer(h, {})

\* establishUser: is there a row?
ListUsers(h) ==
  /\ Is(h, "listUsers")
  /\ \E outcome \in ReadOutcome(CanList(schema, "users", {"id"})) :
       IF Throws(outcome) THEN Fail(h)
       ELSE IF call[h].user \in users THEN Established(h)
       ELSE Move(h, "createUser")
  /\ UNCHANGED <<schema, tables, shown, notices, served>>

\* establishUser: insert one; the id is the primary key.
CreateUser(h) ==
  /\ Is(h, "createUser")
  /\ \E outcome \in WriteOutcome(/\ CanInsert(schema, "users", UserModel)
                                 /\ call[h].user \notin users) :
       /\ users' = IF Applied(outcome) THEN users \cup {call[h].user} ELSE users
       /\ IF Throws(outcome) THEN Fail(h) ELSE Established(h)
  /\ UNCHANGED <<schema, queues, requests, shown, notices, served>>

\* QueueHandler: the default queues are read, and the form does not use them.
ListDefaults(h) ==
  /\ Is(h, "listDefaults")
  /\ \E outcome \in ReadOutcome(CanList(schema, "queues", {"type"})) :
       IF Throws(outcome) \/ ~CreateQueueForm.built THEN Fail(h)
       ELSE Answer(h, CreateQueueForm.buttons)
  /\ UNCHANGED <<schema, tables, shown, notices, served>>

\* handleListQueuesCommand: the user's personal queue, or a new one.
ListPersonal(h) ==
  /\ Is(h, "listPersonal")
  /\ \E outcome \in ReadOutcome(CanList(schema, "queues", {"owner", "type"})) :
       IF Throws(outcome) THEN Fail(h)
       ELSE IF PersonalQueues(call[h].user) = {} THEN Move(h, "createPersonal")
       ELSE \E queue \in PersonalQueues(call[h].user) :
              Becomes(h, Owning(call[h], queue))
  /\ UNCHANGED <<schema, tables, shown, notices, served>>

\* A bug: the new queue is returned although it could not be stored.
CreatedAnyway(outcome, queue) == queue

\* What createUserQueue returns: it catches the error of the insert.
Created(outcome, queue) == IF Throws(outcome) THEN Undefined ELSE queue

CreatePersonal(h) ==
  /\ Is(h, "createPersonal")
  /\ \E outcome \in WriteOutcome(CanInsert(schema, "queues", QueueModel)),
        id \in Fresh(QueueIds, queues) :
       LET queue == NewQueue(id, call[h])
       IN  /\ queues' = IF Applied(outcome) THEN With(queues, id, queue) ELSE queues
           /\ Becomes(h, Owning(call[h], Created(outcome, queue)))
  /\ UNCHANGED <<schema, users, requests, shown, notices, served>>

\* The queues of the channel, and the answer: none without a personal queue.
ListChannel(h) ==
  /\ Is(h, "listChannel")
  /\ \E outcome \in ReadOutcome(CanList(schema, "queues", {"channel"})) :
       LET message == QueueList(call[h].personal, ChannelQueues(call[h].channel))
       IN  IF Throws(outcome) \/ ~message.built THEN Fail(h)
           ELSE Answer(h, message.buttons)
  /\ UNCHANGED <<schema, tables, shown, notices, served>>

-----------------------------------------------------------------------------
(* Clicks *)

\* A bug: a failed insert is caught and the submission goes on.
GoOnAnyway(h, outcome) == Move(h, "respond")

AfterInsert(h, outcome) == IF Throws(outcome) THEN Fail(h) ELSE Move(h, "respond")

\* handleSubmitRequest: a new row, in the queue the button was made for.
CreateRequest(h) ==
  /\ Is(h, "createRequest")
  /\ \E outcome \in WriteOutcome(/\ CanInsert(schema, "requests", RequestModel)
                                 /\ call[h].job.queue.id \in DOMAIN queues
                                 /\ call[h].job.queue.owner \in users),
        id \in Fresh(RequestIds, requests) :
       /\ requests' = IF Applied(outcome)
                      THEN With(requests, id,
                                NewRequest(call[h].job.queue, call[h].typed))
                      ELSE requests
       /\ AfterInsert(h, outcome)
  /\ UNCHANGED <<schema, users, queues, shown, notices, served>>

\* handleListRequests: a pair of buttons for each request of the queue.
ListRequests(h) ==
  /\ Is(h, "listRequests")
  /\ \E outcome \in ReadOutcome(CanList(schema, "requests", {"queueId"})) :
       LET rows == [id \in RequestsOf(call[h].job.queue) |->
                      ReadRequest(requests[id])]
       IN  IF Throws(outcome) THEN Fail(h)
           ELSE Becomes(h, Offering(call[h], RequestList(rows, call[h].user).buttons))
  /\ UNCHANGED <<schema, tables, shown, notices, served>>

Decision(kind) == IF kind = "accept" THEN "In Progress" ELSE "Rejected"

\* A bug: the decision is announced whether or not it could be stored.
NextOfUpdate(h, outcome) == Move(h, "notify")

\* handleAcceptRequest and handleRejectRequest, whatever the status was: the
\* text of the notice is made after the update, and may throw.
AfterUpdate(h, outcome) ==
  IF Throws(outcome) \/ ~NoticeText(call[h].job) THEN Fail(h) ELSE Move(h, "notify")

UpdateStatus(h) ==
  /\ Is(h, "update")
  /\ \E outcome \in WriteOutcome(CanUpdate(schema, "requests", {"status"})) :
       /\ requests' =
            IF Applied(outcome) /\ call[h].job.request \in DOMAIN requests
            THEN [requests EXCEPT
                   ![call[h].job.request].status = Decision(Kind(h))]
            ELSE requests
       /\ AfterUpdate(h, outcome)
  /\ UNCHANGED <<schema, users, queues, shown, notices, served>>

\* postMessage to the owner the button names.
Notify(h) ==
  /\ Is(h, "notify")
  /\ \E outcome \in PostOutcome :
       /\ notices' = IF Applied(outcome)
                     THEN notices \cup {[kind |-> Kind(h), by |-> call[h].job.user,
                                         request |-> call[h].job.request,
                                         to |-> call[h].job.owner]}
                     ELSE notices
       /\ IF Throws(outcome) THEN Fail(h) ELSE Move(h, "respond")
  /\ UNCHANGED <<schema, tables, shown, served>>

\* The post to the response_url; two handlers catch its error.
Respond(h) ==
  /\ Is(h, "respond")
  /\ \E outcome \in PostOutcome :
       /\ shown' = IF Applied(outcome)
                   THEN shown \cup [to : {call[h].user}, button : call[h].offer]
                   ELSE shown
       /\ IF Throws(outcome) /\ Kind(h) \notin {"cancel", "add"}
          THEN Fail(h) ELSE Answer(h, {})
  /\ UNCHANGED <<schema, tables, notices, served>>

-----------------------------------------------------------------------------
(* The response, and the whole *)

\* Slack shows the answer to a command, unless it came too late.
Return(h) ==
  /\ Is(h, "answered")
  /\ \E inTime \in IF Faults THEN BOOLEAN ELSE {TRUE} :
       shown' = IF inTime
                THEN shown \cup [to : {call[h].user}, button : call[h].offer]
                ELSE shown
  /\ Becomes(h, NoCall)
  /\ UNCHANGED <<schema, tables, notices, served>>

\* The process stops, and starts again with nothing in hand.
Crash ==
  /\ Faults
  /\ \E h \in Slots : ~Is(h, "free")
  /\ call' = [h \in Slots |-> NoCall]
  /\ UNCHANGED <<schema, tables, shown, notices, served>>

Init ==
  /\ schema \in Deployments
  /\ users = {}
  /\ queues = [id \in {} |-> id]
  /\ requests = [id \in {} |-> id]
  /\ shown = {}
  /\ notices = {}
  /\ call = [h \in Slots |-> NoCall]
  /\ served = 0

Work(h) ==
  \/ ListUsers(h) \/ CreateUser(h) \/ ListDefaults(h) \/ ListPersonal(h)
  \/ CreatePersonal(h) \/ ListChannel(h)
  \/ CreateRequest(h) \/ ListRequests(h) \/ UpdateStatus(h) \/ Notify(h)
  \/ Respond(h) \/ Return(h)

Next ==
  \/ \E h \in Slots : ReceiveBad(h) \/ ReceiveCommand(h) \/ ReceiveClick(h) \/ Work(h)
  \/ Crash

Spec == Init /\ [][Next]_vars

\* Promises settle: every statement and post of a call comes back or fails.
FairSpec == Spec /\ \A h \in Slots : WF_vars(Work(h))

-----------------------------------------------------------------------------
(* Properties *)

TypeOK ==
  /\ schema \in Deployments
  /\ users \subseteq Users
  /\ DOMAIN queues \subseteq QueueIds
  /\ \A q \in DOMAIN queues : queues[q] \in QueueRow /\ queues[q].id = q
  /\ DOMAIN requests \subseteq RequestIds
  /\ \A r \in DOMAIN requests : requests[r] \in RequestRow
  /\ shown \subseteq [to : Users, button : Button]
  /\ notices \subseteq [kind : {"accept", "reject"}, by : Users,
                        request : RequestIds, to : Users]
  /\ call \in [Slots -> Calls]
  /\ served \in 0..MaxCalls

\* Over the tables the migrations make, users are all the application ever
\* stores: no queue, no request and no button of one comes about, whatever is
\* sent, and no list command is answered with success.
MigratedStoresOnlyUsers ==
  schema = "migrated" =>
    /\ DOMAIN queues = {}
    /\ DOMAIN requests = {}
    /\ \A s \in shown : s.button \in Cancel
    /\ \A h \in Slots : call[h].answer = Success => Kind(h) # "list"

\* What is looked up and then made (the user, his personal queue) is only made
\* a second time in a race: by a call that came before the first was stored.
\* No command sent after that asks for another one.
SecondsOnlyInRaces ==
  \A h \in Slots :
    /\ Is(h, "createUser") => call[h].stranger
    /\ Is(h, "createPersonal") => call[h].first

Snapshots(button) ==
  IF button.kind \in {"view", "add", "delete", "submit"} THEN {button.queue} ELSE {}

\* Buttons outlive the call that made them and carry copies of rows: a queue on
\* a button is stored and as it was, and a button of a request names the owner
\* of the queue the request is in.
ButtonIsCurrent(button) ==
  /\ \A queue \in Snapshots(button) :
       queue.id \in DOMAIN queues /\ queues[queue.id] = queue
  /\ button.kind \in {"accept", "reject"} =>
       /\ button.request \in DOMAIN requests
       /\ requests[button.request].queueId \in DOMAIN queues
       /\ button.owner = queues[requests[button.request].queueId].owner

ButtonsAreCurrent ==
  /\ \A s \in shown : ButtonIsCurrent(s.button)
  /\ \A h \in Slots : \A button \in call[h].offer : ButtonIsCurrent(button)

\* A user is told of a decision only when it was taken, on a request in one of
\* his own queues; a refused update is never announced.  Only acceptances ever
\* are: the text of a rejection cannot be made.
NoticesAreTrue ==
  \A n \in notices :
    /\ n.kind = "accept"
    /\ n.request \in DOMAIN requests
    /\ requests[n.request].status # "Idle"
    /\ requests[n.request].queueId \in DOMAIN queues
    /\ queues[requests[n.request].queueId].owner = n.to

\* An answer of success is about the tables: the request submitted is in the
\* queue it was written for, the decision was taken, the list is that of a user
\* who has a queue of his own.
AnswersAreTrue ==
  \A h \in Slots : call[h].answer = Success =>
    /\ Kind(h) = "submit" =>
         \E r \in DOMAIN requests :
           /\ requests[r].queueId = call[h].job.queue.id
           /\ requests[r].description = call[h].typed
    /\ Kind(h) \in {"accept", "reject"} =>
         /\ call[h].job.request \in DOMAIN requests
         /\ requests[call[h].job.request].status # "Idle"
    /\ Kind(h) = "list" => \E q \in DOMAIN queues : queues[q].owner = call[h].user

Board == INSTANCE RequestBoard

\* The tables keep their promises across every failure and restart.
FollowsBoard == Board!Spec

\* Every request received is answered or dies with the process: no error leaves
\* one without a response.
CallsAnswered ==
  \A h \in Slots : ~Is(h, "free") ~> Is(h, "free")

\* The test of the create-queue command: "Then I should get a 200 success"
\* (api/commands/__tests__/commands.api.test.ts).
CreateQueueAnswered ==
  \A h \in Slots :
    Is(h, "answered") /\ Kind(h) = "create-queue" => call[h].answer = Success
=============================================================================
