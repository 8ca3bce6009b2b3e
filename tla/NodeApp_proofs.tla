--------------------------- MODULE NodeApp_proofs ---------------------------
(***************************************************************************)
(* What the Node application keeps true of its tables, its messages and    *)
(* its answers, for any number of users, channels, rows and calls served   *)
(* at a time, over either database, whatever fails.                        *)
(*                                                                         *)
(* A step changes one call and perhaps one table.  So the invariant is     *)
(* about one call at a time (Good), it is shown to survive every growth of *)
(* the tables (Grows), and each action owes only what it does to its own   *)
(* call (Becomes).                                                         *)
(***************************************************************************)
EXTENDS NodeApp, TLAPS

-----------------------------------------------------------------------------
(* Tables *)

\* What rows keep of each other and of themselves.
RowsHold ==
  \A r \in DOMAIN requests :
    /\ requests[r].queueId \in DOMAIN queues
    /\ requests[r].createdBy = queues[requests[r].queueId].owner

MigratedIsEmpty ==
  schema = "migrated" => DOMAIN queues = {} /\ DOMAIN requests = {}

TablesOK ==
  /\ schema \in Schema /\ schema \in Deployments
  /\ users \subseteq Users
  /\ DOMAIN queues \subseteq QueueIds
  /\ \A q \in DOMAIN queues : queues[q] \in QueueRow /\ queues[q].id = q
  /\ DOMAIN requests \subseteq RequestIds
  /\ \A r \in DOMAIN requests : requests[r] \in RequestRow
  /\ RowsHold
  /\ MigratedIsEmpty

\* How a step may change the tables.
Grows ==
  /\ schema' = schema
  /\ users \subseteq users'
  /\ DOMAIN queues \subseteq DOMAIN queues'
  /\ \A q \in DOMAIN queues : queues'[q] = queues[q]
  /\ DOMAIN requests \subseteq DOMAIN requests'
  /\ \A r \in DOMAIN requests :
       /\ requests'[r].queueId = requests[r].queueId
       /\ requests'[r].description = requests[r].description
       /\ requests'[r].createdBy = requests[r].createdBy
       /\ requests[r].status # "Idle" => requests'[r].status # "Idle"

-----------------------------------------------------------------------------
(* One call *)

OfCommand == {"listUsers", "createUser", "listDefaults", "listPersonal",
              "createPersonal", "listChannel"}

Shaped(c) ==
  /\ c \in Calls
  /\ c.user = Undefined => c.at \in {"free", "answered"} /\ c.offer = {}
  /\ c.at # "answered" => c.answer = Unanswered
  /\ c.at \in OfCommand =>
       c.user \in Users /\ c.channel \in Channels /\ c.job \in Commands
  /\ c.at \in {"listPersonal", "createPersonal", "listChannel"} => c.job.kind = "list"
  /\ c.at = "createRequest" =>
       c.job \in QueueButton /\ c.job.kind = "submit" /\ c.typed \in Descriptions
  /\ c.at = "listRequests" => c.job \in QueueButton /\ c.job.kind = "view"
  /\ c.at \in {"update", "notify"} => c.job \in DecisionButton
  /\ c.at = "notify" => c.job.kind = "accept"
  /\ c.at = "respond" => c.job \in Button

\* The request of this call is stored; his decision is; he has a queue.
Submitted(c) ==
  \E r \in DOMAIN requests : /\ requests[r].queueId = c.job.queue.id
                             /\ requests[r].description = c.typed

Decided(c) == /\ c.job.request \in DOMAIN requests
              /\ requests[c.job.request].status # "Idle"

HasQueue(user) == \E q \in DOMAIN queues : queues[q].owner = user

\* What a call knows about the tables.
Informed(c) ==
  /\ ButtonIsCurrent(c.job)
  /\ \A button \in c.offer : ButtonIsCurrent(button)
  /\ c.personal # Undefined => HasQueue(c.user)
  /\ c.personal # Undefined => c.personal.id \in DOMAIN queues
                               /\ queues[c.personal.id] = c.personal
  /\ (c.at = "respond" \/ c.answer = Success) /\ c.job.kind = "submit" => Submitted(c)
  /\ (c.at \in {"notify", "respond"} \/ c.answer = Success)
       /\ c.job.kind \in {"accept", "reject"} => Decided(c)
  /\ c.answer = Success /\ c.job.kind = "list" => HasQueue(c.user)

\* When it may make what it did not find.
Racing(c) ==
  /\ c.at = "createUser" => c.stranger
  /\ c.at = "createPersonal" => c.first
  /\ c.at = "listUsers" /\ ~c.stranger => c.user \in users
  /\ c.at \in {"listUsers", "createUser", "listPersonal"} /\ ~c.first
       => HasQueue(c.user)

Good(c) == Shaped(c) /\ Informed(c) /\ Racing(c)

ShownOK ==
  /\ shown \subseteq [to : Users, button : Button]
  /\ \A s \in shown : ButtonIsCurrent(s.button)

NoticesOK ==
  /\ notices \subseteq [kind : {"accept", "reject"}, by : Users,
                        request : RequestIds, to : Users]
  /\ NoticesAreTrue

CallsOK ==
  /\ call = [h \in Slots |-> call[h]]
  /\ \A h \in Slots : Good(call[h])

Inv == TablesOK /\ ShownOK /\ NoticesOK /\ CallsOK /\ served \in 0..MaxCalls

-----------------------------------------------------------------------------
(* Growth of the tables takes nothing back *)

LEMMA SameTablesGrow ==
  ASSUME UNCHANGED <<schema, tables>>  PROVE Grows
BY DEF tables, Grows

LEMMA SameTablesOK ==
  ASSUME TablesOK, UNCHANGED <<schema, tables>>  PROVE TablesOK'
BY DEF tables, TablesOK, RowsHold, MigratedIsEmpty

LEMMA CurrentStays ==
  ASSUME TablesOK, Grows, NEW button, ButtonIsCurrent(button)
  PROVE  ButtonIsCurrent(button)'
BY DEF Grows, ButtonIsCurrent, TablesOK, RowsHold

LEMMA HasQueueStays ==
  ASSUME Grows, NEW user, HasQueue(user)  PROVE HasQueue(user)'
BY DEF Grows, HasQueue

LEMMA GoodStays ==
  ASSUME TablesOK, Grows, NEW c, Good(c)
  PROVE  Good(c)'
<1>1. Shaped(c)'
  BY DEF Good, Shaped
<1>2. ButtonIsCurrent(c.job)' /\ \A button \in c.offer : ButtonIsCurrent(button)'
  BY CurrentStays DEF Good, Informed
<1>3. Submitted(c) => Submitted(c)'
  BY DEF Grows, Submitted
<1>4. Decided(c) => Decided(c)'
  BY DEF Grows, Decided
<1>5. Informed(c)'
  BY <1>2, <1>3, <1>4, HasQueueStays DEF Good, Informed, Grows
<1>6. Racing(c)'
  BY HasQueueStays DEF Good, Racing, Grows
<1> QED
  BY <1>1, <1>5, <1>6 DEF Good

LEMMA ShownStays ==
  ASSUME TablesOK, ShownOK, Grows, shown' = shown  PROVE ShownOK'
BY CurrentStays DEF ShownOK

LEMMA NoticesStay ==
  ASSUME TablesOK, NoticesOK, Grows, notices' = notices  PROVE NoticesOK'
<1>1. ASSUME NEW n \in notices
      PROVE  /\ n.kind = "accept"
             /\ n.request \in DOMAIN requests'
             /\ requests'[n.request].status # "Idle"
             /\ requests'[n.request].queueId \in DOMAIN queues'
             /\ queues'[requests'[n.request].queueId].owner = n.to
  BY DEF NoticesOK, NoticesAreTrue, Grows
<1> QED
  BY <1>1 DEF NoticesOK, NoticesAreTrue

LEMMA MoveKeepsCalls ==
  ASSUME TablesOK, CallsOK, Grows, NEW h \in Slots, NEW c, Becomes(h, c), Good(c)'
  PROVE  CallsOK'
<1>1. \A g \in Slots : call'[g] = IF g = h THEN c ELSE call[g]
  BY DEF CallsOK, Becomes
<1>2. call' = [g \in Slots |-> call'[g]]
  BY DEF CallsOK, Becomes
<1>3. ASSUME NEW g \in Slots, g # h  PROVE Good(call[g])'
  <2>1. PICK d : d = call[g]
    OBVIOUS
  <2>2. Good(d)'
    BY <2>1, GoodStays DEF CallsOK
  <2>3. call'[g] = d
    BY <1>1, <1>3, <2>1
  <2> QED
    BY <2>2, <2>3 DEF Good, Shaped, Informed, Racing, Submitted, Decided, HasQueue,
                      ButtonIsCurrent
<1>4. Good(call[h])'
  BY <1>1 DEF Good, Shaped, Informed, Racing, Submitted, Decided, HasQueue,
              ButtonIsCurrent
<1> QED
  BY <1>2, <1>3, <1>4 DEF CallsOK

\* A step of one call that leaves everything else alone.
LEMMA QuietMove ==
  ASSUME Inv, NEW h \in Slots, NEW c, Becomes(h, c), Good(c),
         UNCHANGED <<schema, tables, shown, notices, served>>
  PROVE  Inv'
<1>1. Grows /\ TablesOK'
  BY SameTablesGrow, SameTablesOK DEF Inv
<1>2. Good(c)'
  BY <1>1, GoodStays DEF Inv
<1> QED
  BY <1>1, <1>2, ShownStays, NoticesStay, MoveKeepsCalls DEF Inv

-----------------------------------------------------------------------------
(* Messages *)

LEMMA QueueListCurrent ==
  ASSUME NEW personal \in QueueRow \cup {Undefined}, NEW listed \in SUBSET QueueRow,
         NEW button \in QueueList(personal, listed).buttons
  PROVE  /\ personal # Undefined
         /\ button \in Button
         /\ \/ \E queue \in listed \cup {personal} : Snapshots(button) = {queue}
            \/ Snapshots(button) = {}
         /\ button.kind \notin {"accept", "reject"}
<1>1. /\ personal # Undefined
      /\ \/ button = ViewReqButton(personal)
         \/ button = CancelButton
         \/ \E queue \in listed : button \in QueueButtons(queue)
  BY DEF QueueList, MessagePayload
<1>2. ASSUME NEW queue \in QueueRow, button \in QueueButtons(queue)
      PROVE  button \in QueueButton /\ Snapshots(button) = {queue}
  BY <1>2 DEF QueueButtons, ViewReqButton, AddReqButton, DeleteQueueButton, QueueButton,
              Snapshots
<1>3. CASE button = ViewReqButton(personal)
  BY <1>1, <1>2, <1>3 DEF QueueButtons, QueueButton, Button
<1>4. CASE button = CancelButton
  BY <1>1, <1>4 DEF CancelButton, Cancel, Button, Snapshots
<1>5. CASE \E queue \in listed : button \in QueueButtons(queue)
  BY <1>1, <1>2, <1>5 DEF QueueButton, Button
<1> QED
  BY <1>1, <1>3, <1>4, <1>5

LEMMA RequestFormCurrent ==
  ASSUME NEW queue \in QueueRow, NEW button \in RequestForm(queue).buttons
  PROVE  /\ button \in Button
         /\ Snapshots(button) \subseteq {queue}
         /\ button.kind \notin {"accept", "reject"}
<1>1. button \in {SubmitButton(queue), CancelButton}
  BY DEF RequestForm, MessagePayload
<1> QED
  BY <1>1 DEF SubmitButton, CancelButton, Button, QueueButton, Cancel, Snapshots

LEMMA RequestListCurrent ==
  ASSUME NEW rows, NEW viewer \in Users, DOMAIN rows \subseteq RequestIds,
         \A id \in DOMAIN rows : rows[id].createdBy \in Users,
         NEW button \in RequestList(rows, viewer).buttons
  PROVE  /\ button \in Button
         /\ Snapshots(button) = {}
         /\ button.kind \in {"accept", "reject"} =>
              button.request \in DOMAIN rows /\ button.owner = rows[button.request].createdBy
<1>1. \/ button = CancelButton
      \/ \E id \in DOMAIN rows : \/ button = AcceptButton(id, rows[id], viewer)
                                 \/ button = RejectButton(id, rows[id], viewer)
  BY DEF RequestList, MessagePayload
<1>2. CASE button = CancelButton
  BY <1>2 DEF CancelButton, Button, Cancel, Snapshots
<1>3. ASSUME NEW id \in DOMAIN rows, button = AcceptButton(id, rows[id], viewer)
      PROVE  /\ button \in DecisionButton /\ button.kind = "accept"
             /\ button.request = id /\ button.owner = rows[id].createdBy
  BY <1>3 DEF AcceptButton, DecisionButton
<1>4. ASSUME NEW id \in DOMAIN rows, button = RejectButton(id, rows[id], viewer)
      PROVE  /\ button \in DecisionButton /\ button.kind = "reject"
             /\ button.request = id /\ button.owner = rows[id].createdBy
  BY <1>4 DEF RejectButton, DecisionButton
<1> QED
  BY <1>1, <1>2, <1>3, <1>4 DEF Button, Snapshots

\* The header of the create-queue form is no text object.
LEMMA CreateQueueFormFails == ~CreateQueueForm.built
BY DEF CreateQueueForm, MessagePayload, HeaderBlock, BareString

-----------------------------------------------------------------------------
(* How a call moves on *)

LEMMA IdleIsGood ==
  ASSUME TablesOK  PROVE Good(NoCall)
<1>1. Shaped(NoCall)
  BY DEF Shaped, NoCall, Calls, OfCommand, NoJob, HttpStatus
<1> QED
  BY <1>1 DEF Good, Informed, Racing, NoCall, NoJob, ButtonIsCurrent, Snapshots

LEMMA WaitingIs ==
  ASSUME NEW c \in Calls, NEW await \in Await
  PROVE  LET d == Waiting(c, await)
         IN  /\ d \in Calls /\ d.at = await
             /\ d.user = c.user /\ d.channel = c.channel /\ d.job = c.job
             /\ d.typed = c.typed /\ d.personal = c.personal /\ d.offer = c.offer
             /\ d.answer = c.answer /\ d.stranger = c.stranger /\ d.first = c.first
BY DEF Calls, Waiting

LEMMA OfferingIs ==
  ASSUME NEW c \in Calls, NEW buttons \in SUBSET Button
  PROVE  LET d == Offering(c, buttons)
         IN  /\ d \in Calls /\ d.at = "respond" /\ d.offer = buttons
             /\ d.user = c.user /\ d.job = c.job /\ d.typed = c.typed
             /\ d.personal = c.personal /\ d.answer = c.answer
<1>1. PICK d : d = Waiting(c, "respond")
  OBVIOUS
<1>2. /\ d \in Calls /\ d.at = "respond" /\ d.user = c.user /\ d.job = c.job
      /\ d.typed = c.typed /\ d.personal = c.personal /\ d.answer = c.answer
  BY <1>1, WaitingIs DEF Await
<1>3. LET e == [d EXCEPT !.offer = buttons]
      IN  /\ e \in Calls /\ e.at = d.at /\ e.offer = buttons
          /\ e.user = d.user /\ e.job = d.job /\ e.typed = d.typed
          /\ e.personal = d.personal /\ e.answer = d.answer
  BY <1>2 DEF Calls
<1>4. Offering(c, buttons) = [d EXCEPT !.offer = buttons]
  BY <1>1 DEF Offering
<1> QED
  BY <1>2, <1>3, <1>4

LEMMA OwningIs ==
  ASSUME NEW c \in Calls, NEW queue \in QueueRow \cup {Undefined}
  PROVE  LET d == Owning(c, queue)
         IN  /\ d \in Calls /\ d.at = "listChannel" /\ d.personal = queue
             /\ d.user = c.user /\ d.channel = c.channel /\ d.job = c.job
             /\ d.typed = c.typed /\ d.offer = c.offer /\ d.answer = c.answer
<1>1. PICK d : d = Waiting(c, "listChannel")
  OBVIOUS
<1>2. /\ d \in Calls /\ d.at = "listChannel" /\ d.user = c.user
      /\ d.channel = c.channel /\ d.job = c.job
      /\ d.typed = c.typed /\ d.offer = c.offer /\ d.answer = c.answer
  BY <1>1, WaitingIs DEF Await
<1>3. LET e == [d EXCEPT !.personal = queue]
      IN  /\ e \in Calls /\ e.at = d.at /\ e.personal = queue
          /\ e.user = d.user /\ e.channel = d.channel /\ e.job = d.job
          /\ e.typed = d.typed /\ e.offer = d.offer /\ e.answer = d.answer
  BY <1>2 DEF Calls
<1>4. Owning(c, queue) = [d EXCEPT !.personal = queue]
  BY <1>1 DEF Owning
<1> QED
  BY <1>2, <1>3, <1>4

LEMMA EndedIs ==
  ASSUME NEW c \in Calls, NEW status \in HttpStatus, NEW buttons \in SUBSET Button
  PROVE  LET d == Ended(c, status, buttons)
         IN  /\ d \in Calls /\ d.at = "answered" /\ d.answer = status
             /\ d.offer = buttons /\ d.user = c.user /\ d.job = c.job
             /\ d.typed = c.typed /\ d.personal = c.personal
<1>1. PICK d : d = [c EXCEPT !.at = "answered"]
  OBVIOUS
<1>2. /\ d \in Calls /\ d.at = "answered" /\ d.user = c.user /\ d.job = c.job
      /\ d.typed = c.typed /\ d.personal = c.personal
  BY <1>1 DEF Calls
<1>3. PICK e : e = [d EXCEPT !.offer = buttons]
  OBVIOUS
<1>4. /\ e \in Calls /\ e.at = "answered" /\ e.user = c.user /\ e.job = c.job
      /\ e.typed = c.typed /\ e.personal = c.personal /\ e.offer = buttons
  BY <1>2, <1>3 DEF Calls
<1>5. LET f == [e EXCEPT !.answer = status]
      IN  /\ f \in Calls /\ f.at = e.at /\ f.user = e.user /\ f.job = e.job
          /\ f.typed = e.typed /\ f.personal = e.personal /\ f.offer = e.offer
          /\ f.answer = status
  BY <1>4 DEF Calls
<1>6. Ended(c, status, buttons) = [e EXCEPT !.answer = status]
  BY <1>1, <1>3 DEF Ended
<1> QED
  BY <1>4, <1>5, <1>6

\* A failed call keeps what it was about and shows nothing.
LEMMA FailureIsGood ==
  ASSUME NEW c, Good(c)
  PROVE  Good(Ended(c, ServerError, {}))
<1>1. c \in Calls /\ ServerError \in HttpStatus /\ {} \in SUBSET Button
  BY DEF Good, Shaped, HttpStatus
<1>2. PICK d : d = Ended(c, ServerError, {})
  OBVIOUS
<1>3. /\ d \in Calls /\ d.at = "answered" /\ d.answer = ServerError /\ d.offer = {}
      /\ d.job = c.job /\ d.user = c.user /\ d.personal = c.personal
  BY <1>1, <1>2, EndedIs
<1>4. ServerError # Success
  BY DEF ServerError, Success
<1>5. Good(d)
  BY <1>3, <1>4 DEF Good, Shaped, Informed, Racing, OfCommand
<1> QED
  BY <1>2, <1>5

\* A call that is answered with success.
LEMMA SuccessIsGood ==
  ASSUME NEW c, Good(c), NEW buttons \in SUBSET Button,
         c.user # Undefined \/ buttons = {},
         \A button \in buttons : ButtonIsCurrent(button),
         c.job.kind = "submit" => Submitted(c),
         c.job.kind \in {"accept", "reject"} => Decided(c),
         c.job.kind = "list" => HasQueue(c.user)
  PROVE  Good(Ended(c, Success, buttons))
<1>1. c \in Calls /\ Success \in HttpStatus
  BY DEF Good, Shaped, HttpStatus
<1>2. PICK d : d = Ended(c, Success, buttons)
  OBVIOUS
<1>3. /\ d \in Calls /\ d.at = "answered" /\ d.answer = Success /\ d.offer = buttons
      /\ d.job = c.job /\ d.user = c.user /\ d.personal = c.personal
      /\ d.typed = c.typed
  BY <1>1, <1>2, EndedIs
<1>4. Good(d)
  BY <1>3 DEF Good, Shaped, Informed, Racing, OfCommand, Submitted, Decided
<1> QED
  BY <1>2, <1>4

\* A step of one call that keeps what Good asks of it.
Advances(h) == \E d : Becomes(h, d) /\ Good(d)

LEMMA FailAdvances ==
  ASSUME NEW h \in Slots, Good(call[h]), Fail(h)  PROVE Advances(h)
BY FailureIsGood DEF Fail, Advances

LEMMA QuietStep ==
  ASSUME Inv, NEW h \in Slots, Advances(h),
         UNCHANGED <<schema, tables, shown, notices, served>>
  PROVE  Inv'
BY QuietMove DEF Advances

\* A step that changes a table as well.
LEMMA LoudStep ==
  ASSUME Inv, Grows, TablesOK', NEW h \in Slots, NEW d, Becomes(h, d), Good(d)',
         UNCHANGED <<shown, notices, served>>
  PROVE  Inv'
BY ShownStays, NoticesStay, MoveKeepsCalls DEF Inv

-----------------------------------------------------------------------------
(* The steps of a command *)

LEMMA EstablishedAdvances ==
  ASSUME NEW h \in Slots, Good(call[h]), call[h].at \in {"listUsers", "createUser"},
         Established(h)
  PROVE  Advances(h)
<1>1. PICK c : c = call[h]
  OBVIOUS
<1>2. Good(c) /\ c \in Calls /\ c.at \in {"listUsers", "createUser"}
  BY <1>1 DEF Good, Shaped
<1>3. CASE c.job.kind = "list"
  <2>1. PICK d : d = Waiting(c, "listPersonal")
    OBVIOUS
  <2>2. Good(d)
    BY <1>2, <1>3, <2>1, WaitingIs
       DEF Good, Shaped, Informed, Racing, OfCommand, Submitted, Decided, Await
  <2>3. Becomes(h, d)
    BY <1>1, <1>3, <2>1 DEF Established, Kind, Move
  <2> QED
    BY <2>2, <2>3 DEF Advances
<1>4. CASE c.job.kind = "create-queue"
  <2>1. PICK d : d = Waiting(c, "listDefaults")
    OBVIOUS
  <2>2. Good(d)
    BY <1>2, <1>4, <2>1, WaitingIs
       DEF Good, Shaped, Informed, Racing, OfCommand, Submitted, Decided, Await
  <2>3. Becomes(h, d)
    BY <1>1, <1>4, <2>1 DEF Established, Kind, Move
  <2> QED
    BY <2>2, <2>3 DEF Advances
<1>5. CASE c.job.kind \notin {"list", "create-queue"}
  <2>1. c.job.kind \notin {"submit", "accept", "reject"}
    BY <1>2 DEF Good, Shaped, OfCommand, Commands
  <2>2. Good(Ended(c, Success, {}))
    BY <1>2, <1>5, <2>1, SuccessIsGood
  <2>3. Becomes(h, Ended(c, Success, {}))
    BY <1>1, <1>5 DEF Established, Kind, Answer
  <2> QED
    BY <2>2, <2>3 DEF Advances
<1> QED
  BY <1>3, <1>4, <1>5

LEMMA ListUsersKeeps ==
  ASSUME Inv, NEW h \in Slots, ListUsers(h)  PROVE Inv'
<1>1. Good(call[h]) /\ call[h].at = "listUsers"
  BY DEF Inv, CallsOK, ListUsers, Is
<1>2. CASE Fail(h)
  BY <1>1, <1>2, FailAdvances, QuietStep DEF ListUsers
<1>3. CASE Established(h)
  BY <1>1, <1>3, EstablishedAdvances, QuietStep DEF ListUsers
<1>4. CASE call[h].user \notin users /\ Move(h, "createUser")
  <2>1. PICK c : c = call[h]
    OBVIOUS
  <2>2. PICK d : d = Waiting(c, "createUser")
    OBVIOUS
  <2>3. Good(d)
    BY <1>1, <1>4, <2>1, <2>2, WaitingIs
       DEF Good, Shaped, Informed, Racing, OfCommand, Submitted, Decided, Await
  <2>4. Becomes(h, d)
    BY <1>4, <2>1, <2>2 DEF Move
  <2> QED
    BY <2>3, <2>4, QuietStep DEF Advances, ListUsers
<1> QED
  BY <1>2, <1>3, <1>4 DEF ListUsers

LEMMA CreateUserKeeps ==
  ASSUME Inv, NEW h \in Slots, CreateUser(h)  PROVE Inv'
<1>1. Good(call[h]) /\ call[h].at = "createUser"
  BY DEF Inv, CallsOK, CreateUser, Is
<1>2. call[h].user \in Users
  BY <1>1 DEF Good, Shaped, OfCommand
<1>3. UNCHANGED <<schema, queues, requests, shown, notices, served>>
  BY DEF CreateUser
<1>4. users' = users \/ users' = users \cup {call[h].user}
  BY DEF CreateUser
<1>5. Grows /\ TablesOK'
  BY <1>2, <1>3, <1>4 DEF Inv, Grows, TablesOK, RowsHold, MigratedIsEmpty
<1>6. Fail(h) \/ Established(h)
  BY DEF CreateUser
<1>7. PICK d : Becomes(h, d) /\ Good(d)
  BY <1>1, <1>6, FailAdvances, EstablishedAdvances DEF Advances
<1>8. Good(d)'
  BY <1>5, <1>7, GoodStays DEF Inv
<1> QED
  BY <1>3, <1>5, <1>7, <1>8, LoudStep

LEMMA ListDefaultsKeeps ==
  ASSUME Inv, NEW h \in Slots, ListDefaults(h)  PROVE Inv'
<1>1. Good(call[h])
  BY DEF Inv, CallsOK
<1>2. Fail(h)
  BY CreateQueueFormFails DEF ListDefaults
<1> QED
  BY <1>1, <1>2, FailAdvances, QuietStep DEF ListDefaults

LEMMA ListPersonalKeeps ==
  ASSUME Inv, NEW h \in Slots, ListPersonal(h)  PROVE Inv'
<1>1. Good(call[h]) /\ call[h].at = "listPersonal"
  BY DEF Inv, CallsOK, ListPersonal, Is
<1>2. PICK c : c = call[h]
  OBVIOUS
<1>3. CASE Fail(h)
  BY <1>1, <1>3, FailAdvances, QuietStep DEF ListPersonal
<1>4. CASE PersonalQueues(c.user) = {} /\ Move(h, "createPersonal")
  <2>1. PICK d : d = Waiting(c, "createPersonal")
    OBVIOUS
  <2>2. \A q \in DOMAIN queues : queues[q].type = "user"
    BY DEF Inv, TablesOK, QueueRow
  <2>3. ~HasQueue(c.user)
    BY <1>4, <2>2 DEF PersonalQueues, HasQueue, Range
  <2>4. Good(d)
    BY <1>1, <1>2, <2>1, <2>3, WaitingIs
       DEF Good, Shaped, Informed, Racing, OfCommand, Submitted, Decided, Await
  <2>5. Becomes(h, d)
    BY <1>2, <1>4, <2>1 DEF Move
  <2> QED
    BY <2>4, <2>5, QuietStep DEF Advances, ListPersonal
<1>5. CASE \E queue \in PersonalQueues(c.user) : Becomes(h, Owning(c, queue))
  <2>1. PICK queue \in PersonalQueues(c.user) : Becomes(h, Owning(c, queue))
    BY <1>5
  <2>2. /\ queue \in QueueRow /\ queue.owner = c.user
        /\ queue.id \in DOMAIN queues /\ queues[queue.id] = queue
    BY <2>1 DEF PersonalQueues, Range, Inv, TablesOK
  <2>3. PICK d : d = Owning(c, queue)
    OBVIOUS
  <2>4. Good(d)
    BY <1>1, <1>2, <2>2, <2>3, OwningIs
       DEF Good, Shaped, Informed, Racing, OfCommand, Submitted, Decided, HasQueue
  <2> QED
    BY <2>1, <2>3, <2>4, QuietStep DEF Advances, ListPersonal
<1> QED
  BY <1>2, <1>3, <1>4, <1>5 DEF ListPersonal

\* The models name columns the migrations do not make.
LEMMA MigratedRefuses ==
  /\ ~CanInsert("migrated", "queues", QueueModel)
  /\ ~CanInsert("migrated", "requests", RequestModel)
<1>1. "channel" \in Inserted(QueueModel) /\ "channel" \notin QueuesTable
  BY DEF Inserted, QueueModel, QueuesTable
<1>2. "queueId" \in Inserted(RequestModel) /\ "queueId" \notin RequestsTable
  BY DEF Inserted, RequestModel, RequestsTable
<1>3. /\ Columns("migrated")["queues"] = QueuesTable
      /\ Columns("migrated")["requests"] = RequestsTable
  BY DEF Columns, Migrated
<1> QED
  BY <1>1, <1>2, <1>3 DEF CanInsert

LEMMA FreshIs ==
  ASSUME NEW ids, NEW rows, NEW id \in Fresh(ids, rows)
  PROVE  id \in ids /\ id \notin DOMAIN rows
BY DEF Fresh

LEMMA CreatePersonalKeeps ==
  ASSUME Inv, NEW h \in Slots, CreatePersonal(h)  PROVE Inv'
<1>1. Good(call[h]) /\ call[h].at = "createPersonal"
  BY DEF Inv, CallsOK, CreatePersonal, Is
<1>2. PICK c : c = call[h]
  OBVIOUS
<1>3. /\ c \in Calls /\ c.user \in Users /\ c.channel \in Channels
      /\ c.job.kind = "list"
  BY <1>1, <1>2 DEF Good, Shaped, OfCommand
<1>4. PICK outcome \in WriteOutcome(CanInsert(schema, "queues", QueueModel)),
           id \in Fresh(QueueIds, queues) :
        LET queue == NewQueue(id, c)
        IN  /\ queues' = IF Applied(outcome) THEN With(queues, id, queue) ELSE queues
            /\ Becomes(h, Owning(c, Created(outcome, queue)))
  BY <1>2 DEF CreatePersonal
<1>5. PICK queue : queue = NewQueue(id, c)
  OBVIOUS
<1>6. id \in QueueIds /\ id \notin DOMAIN queues
  BY <1>4, FreshIs
<1>7. /\ queue \in QueueRow /\ queue.id = id /\ queue.owner = c.user
  BY <1>3, <1>5, <1>6 DEF QueueRow, NewQueue
<1>8. UNCHANGED <<schema, users, requests, shown, notices, served>>
  BY DEF CreatePersonal
<1>9. Applied(outcome) => schema # "migrated"
  BY <1>4, MigratedRefuses DEF Applied, WriteOutcome
<1>10. ASSUME Applied(outcome)
       PROVE  /\ DOMAIN queues' = DOMAIN queues \cup {id} /\ queues'[id] = queue
              /\ \A q \in DOMAIN queues : queues'[q] = queues[q]
  BY <1>4, <1>5, <1>6, <1>10 DEF With
<1>11. Grows /\ TablesOK'
  <2>1. CASE ~Applied(outcome)
    BY <1>4, <1>8, <2>1, SameTablesGrow, SameTablesOK DEF Inv, tables
  <2>2. CASE Applied(outcome)
    <3>2. Grows
      BY <1>8, <1>10, <2>2 DEF Grows
    <3> QED
      BY <1>6, <1>7, <1>8, <1>9, <1>10, <2>2, <3>2
         DEF Inv, TablesOK, RowsHold, MigratedIsEmpty
  <2> QED
    BY <2>1, <2>2
<1>12. PICK d : d = Owning(c, Created(outcome, queue))
  OBVIOUS
<1>13. Good(c)'
  BY <1>1, <1>2, <1>11, GoodStays DEF Inv
<1>14. Good(d)'
  <2>1. CASE Created(outcome, queue) = Undefined
    BY <1>1, <1>2, <1>3, <1>11, <1>12, <1>13, <2>1, OwningIs
       DEF Good, Shaped, Informed, Racing, OfCommand, Submitted, Decided, Inv
  <2>2. CASE Created(outcome, queue) = queue /\ ~Throws(outcome)
    <3>1. Applied(outcome)
      BY <1>4, <2>2 DEF Applied, Throws, WriteOutcome
    <3>2. queue.id \in DOMAIN queues' /\ queues'[queue.id] = queue
      BY <1>7, <1>10, <3>1
    <3>3. HasQueue(c.user)'
      BY <1>7, <3>2 DEF HasQueue
    <3> QED
      BY <1>1, <1>2, <1>3, <1>7, <1>11, <1>12, <2>2, <1>13, <3>2, <3>3, OwningIs
         DEF Good, Shaped, Informed, Racing, OfCommand, Submitted, Decided, Inv
  <2> QED
    BY <2>1, <2>2 DEF Created
<1> QED
  BY <1>4, <1>5, <1>8, <1>11, <1>12, <1>14, LoudStep

LEMMA ListChannelKeeps ==
  ASSUME Inv, NEW h \in Slots, ListChannel(h)  PROVE Inv'
<1>1. Good(call[h]) /\ call[h].at = "listChannel"
  BY DEF Inv, CallsOK, ListChannel, Is
<1>2. PICK c : c = call[h]
  OBVIOUS
<1>3. /\ c.user \in Users /\ c.user # Undefined /\ c.job.kind = "list"
      /\ c.personal \in QueueRow \cup {Undefined}
  BY <1>1, <1>2 DEF Good, Shaped, OfCommand, Calls
<1>4. PICK message : message = QueueList(c.personal, ChannelQueues(c.channel))
  OBVIOUS
<1>5. CASE Fail(h)
  BY <1>1, <1>5, FailAdvances, QuietStep DEF ListChannel
<1>6. CASE message.built /\ Answer(h, message.buttons)
  <2>1. c.personal # Undefined
    BY <1>4, <1>6 DEF QueueList, MessagePayload
  <2>2. HasQueue(c.user) /\ c.personal.id \in DOMAIN queues
        /\ queues[c.personal.id] = c.personal
    BY <1>1, <1>2, <2>1 DEF Good, Informed
  <2>3. ASSUME NEW queue \in ChannelQueues(c.channel)
        PROVE  queue \in QueueRow /\ queue.id \in DOMAIN queues
               /\ queues[queue.id] = queue
    BY DEF ChannelQueues, Range, Inv, TablesOK
  <2>4. ASSUME NEW button \in message.buttons
        PROVE  button \in Button /\ ButtonIsCurrent(button)
    BY <1>3, <1>4, <2>2, <2>3, QueueListCurrent DEF ButtonIsCurrent
  <2>5. PICK buttons : buttons = message.buttons
    OBVIOUS
  <2>6. buttons \in SUBSET Button /\ \A button \in buttons : ButtonIsCurrent(button)
    BY <2>4, <2>5
  <2>7. Good(Ended(c, Success, buttons))
    BY <1>1, <1>2, <1>3, <2>2, <2>6, SuccessIsGood
  <2>8. Becomes(h, Ended(c, Success, buttons))
    BY <1>2, <1>6, <2>5 DEF Answer
  <2> QED
    BY <2>7, <2>8, QuietStep DEF Advances, ListChannel
<1> QED
  BY <1>2, <1>4, <1>5, <1>6 DEF ListChannel

-----------------------------------------------------------------------------
(* The steps of a click *)

LEMMA CreateRequestKeeps ==
  ASSUME Inv, NEW h \in Slots, CreateRequest(h)  PROVE Inv'
<1>1. Good(call[h]) /\ call[h].at = "createRequest"
  BY DEF Inv, CallsOK, CreateRequest, Is
<1>2. PICK c : c = call[h]
  OBVIOUS
<1>3. /\ c \in Calls /\ c.job \in QueueButton /\ c.job.kind = "submit"
      /\ c.typed \in Descriptions /\ c.user # Undefined
  BY <1>1, <1>2 DEF Good, Shaped
<1>4. PICK outcome \in WriteOutcome(/\ CanInsert(schema, "requests", RequestModel)
                                    /\ c.job.queue.id \in DOMAIN queues
                                    /\ c.job.queue.owner \in users),
           id \in Fresh(RequestIds, requests) :
        /\ requests' = IF Applied(outcome)
                       THEN With(requests, id, NewRequest(c.job.queue, c.typed))
                       ELSE requests
        /\ AfterInsert(h, outcome)
  BY <1>2 DEF CreateRequest
<1>5. PICK row : row = NewRequest(c.job.queue, c.typed)
  OBVIOUS
<1>6. id \in RequestIds /\ id \notin DOMAIN requests
  BY <1>4, FreshIs
<1>7. /\ c.job.queue.id \in DOMAIN queues /\ queues[c.job.queue.id] = c.job.queue
  BY <1>1, <1>2, <1>3 DEF Good, Informed, ButtonIsCurrent, Snapshots
<1>8. /\ row \in RequestRow /\ row.queueId = c.job.queue.id
      /\ row.createdBy = queues[row.queueId].owner /\ row.description = c.typed
  BY <1>3, <1>5, <1>7 DEF RequestRow, RequestStatus, NewRequest, QueueButton, QueueRow
<1>9. UNCHANGED <<schema, users, queues, shown, notices, served>>
  BY DEF CreateRequest
<1>10. Applied(outcome) => schema # "migrated"
  BY <1>4, MigratedRefuses DEF Applied, WriteOutcome
<1>11. ASSUME Applied(outcome)
       PROVE  /\ DOMAIN requests' = DOMAIN requests \cup {id} /\ requests'[id] = row
              /\ \A r \in DOMAIN requests : requests'[r] = requests[r]
  BY <1>4, <1>5, <1>6, <1>11 DEF With
<1>12. Grows /\ TablesOK'
  <2>1. CASE ~Applied(outcome)
    BY <1>4, <1>9, <2>1, SameTablesGrow, SameTablesOK DEF Inv, tables
  <2>2. CASE Applied(outcome)
    <3>1. Grows
      BY <1>9, <1>11, <2>2 DEF Grows
    <3>2. RowsHold'
      BY <1>7, <1>8, <1>9, <1>11, <2>2 DEF Inv, TablesOK, RowsHold
    <3> QED
      BY <1>6, <1>8, <1>9, <1>10, <1>11, <2>2, <3>1, <3>2
         DEF Inv, TablesOK, MigratedIsEmpty
  <2> QED
    BY <2>1, <2>2
<1>13. CASE Fail(h)
  <2>1. PICK d : Becomes(h, d) /\ Good(d)
    BY <1>1, <1>13, FailAdvances DEF Advances
  <2>2. Good(d)'
    BY <1>12, <2>1, GoodStays DEF Inv
  <2> QED
    BY <1>9, <1>12, <2>1, <2>2, LoudStep
<1>14. CASE Move(h, "respond") /\ ~Throws(outcome)
  <2>1. PICK d : d = Waiting(c, "respond")
    OBVIOUS
  <2>2. Applied(outcome)
    BY <1>4, <1>14 DEF Applied, Throws, WriteOutcome
  <2>3. Submitted(c)'
    BY <1>8, <1>11, <2>2 DEF Submitted
  <2>4. Good(c)'
    BY <1>1, <1>2, <1>12, GoodStays DEF Inv
  <2>5. /\ d \in Calls /\ d.at = "respond" /\ d.user = c.user /\ d.job = c.job
        /\ d.typed = c.typed /\ d.personal = c.personal /\ d.offer = c.offer
        /\ d.answer = c.answer
    BY <1>3, <2>1, WaitingIs DEF Await
  <2>6. Shaped(d)
    BY <1>1, <1>2, <1>3, <2>5 DEF Good, Shaped, OfCommand, Button
  <2>7. Informed(d)'
    BY <1>3, <2>3, <2>4, <2>5 DEF Good, Informed, Submitted
  <2>8. Good(d)'
    BY <2>5, <2>6, <2>7 DEF Good, Shaped, Racing
  <2>9. Becomes(h, d)
    BY <1>2, <1>14, <2>1 DEF Move
  <2> QED
    BY <1>9, <1>12, <2>8, <2>9, LoudStep
<1> QED
  BY <1>4, <1>13, <1>14 DEF AfterInsert

LEMMA ListRequestsKeeps ==
  ASSUME Inv, NEW h \in Slots, ListRequests(h)  PROVE Inv'
<1>1. Good(call[h]) /\ call[h].at = "listRequests"
  BY DEF Inv, CallsOK, ListRequests, Is
<1>2. PICK c : c = call[h]
  OBVIOUS
<1>3. /\ c \in Calls /\ c.job \in QueueButton /\ c.job.kind = "view"
      /\ c.user \in Users
  BY <1>1, <1>2 DEF Good, Shaped, Calls
<1>4. PICK rows : rows = [id \in RequestsOf(c.job.queue) |-> ReadRequest(requests[id])]
  OBVIOUS
<1>5. CASE Fail(h)
  BY <1>1, <1>5, FailAdvances, QuietStep DEF ListRequests
<1>6. CASE Becomes(h, Offering(c, RequestList(rows, c.user).buttons))
  <2>1. /\ DOMAIN rows \subseteq DOMAIN requests
        /\ \A id \in DOMAIN rows : rows[id].createdBy = requests[id].createdBy
    BY <1>4 DEF RequestsOf, ReadRequest, Inv, TablesOK, RequestRow
  <2>2. /\ DOMAIN rows \subseteq RequestIds
        /\ \A id \in DOMAIN rows : rows[id].createdBy \in Users
    BY <2>1 DEF Inv, TablesOK, RequestRow
  <2>3. PICK buttons : buttons = RequestList(rows, c.user).buttons
    OBVIOUS
  <2>4. ASSUME NEW button \in buttons
        PROVE  button \in Button /\ ButtonIsCurrent(button)
    <3>1. /\ button \in Button /\ Snapshots(button) = {}
          /\ button.kind \in {"accept", "reject"} =>
               /\ button.request \in DOMAIN rows
               /\ button.owner = rows[button.request].createdBy
      BY <1>3, <2>2, <2>3, RequestListCurrent
    <3> QED
      BY <2>1, <3>1 DEF ButtonIsCurrent, Inv, TablesOK, RowsHold
  <2>5. PICK d : d = Offering(c, buttons)
    OBVIOUS
  <2>6. Good(d)
    BY <1>1, <1>2, <1>3, <2>4, <2>5, OfferingIs
       DEF Good, Shaped, Informed, Racing, OfCommand, Submitted, Decided, Button
  <2> QED
    BY <1>6, <2>3, <2>5, <2>6, QuietStep DEF Advances, ListRequests
<1> QED
  BY <1>2, <1>4, <1>5, <1>6 DEF ListRequests

LEMMA UpdateStatusKeeps ==
  ASSUME Inv, NEW h \in Slots, UpdateStatus(h)  PROVE Inv'
<1>1. Good(call[h]) /\ call[h].at = "update"
  BY DEF Inv, CallsOK, UpdateStatus, Is
<1>2. PICK c : c = call[h]
  OBVIOUS
<1>3. /\ c \in Calls /\ c.job \in DecisionButton /\ c.user # Undefined
      /\ c.job.kind \in {"accept", "reject"}
  BY <1>1, <1>2 DEF Good, Shaped, DecisionButton
<1>4. c.job.request \in DOMAIN requests
  BY <1>1, <1>2, <1>3 DEF Good, Informed, ButtonIsCurrent
<1>5. PICK outcome \in WriteOutcome(CanUpdate(schema, "requests", {"status"})) :
        /\ requests' = IF Applied(outcome)
                       THEN [requests EXCEPT ![c.job.request].status =
                                               Decision(c.job.kind)]
                       ELSE requests
        /\ AfterUpdate(h, outcome)
  BY <1>2, <1>4 DEF UpdateStatus, Kind
<1>6. UNCHANGED <<schema, users, queues, shown, notices, served>>
  BY DEF UpdateStatus
<1>7. PICK status : status = Decision(c.job.kind)
  OBVIOUS
<1>8. status \in RequestStatus /\ status # "Idle"
  BY <1>7 DEF Decision, RequestStatus
<1>9. ASSUME Applied(outcome)
      PROVE  /\ DOMAIN requests' = DOMAIN requests
             /\ requests'[c.job.request].status = status
             /\ \A r \in DOMAIN requests :
                  /\ requests'[r] \in RequestRow
                  /\ requests'[r].queueId = requests[r].queueId
                  /\ requests'[r].description = requests[r].description
                  /\ requests'[r].createdBy = requests[r].createdBy
                  /\ requests[r].status # "Idle" => requests'[r].status # "Idle"
  <2>1. requests' = [requests EXCEPT ![c.job.request].status = status]
    BY <1>5, <1>7, <1>9
  <2>2. \A r \in DOMAIN requests : requests[r] \in RequestRow
    BY DEF Inv, TablesOK
  <2> QED
    BY <1>4, <1>8, <2>1, <2>2 DEF RequestRow
<1>10. Grows /\ TablesOK'
  <2>1. CASE ~Applied(outcome)
    BY <1>5, <1>6, <2>1, SameTablesGrow, SameTablesOK DEF Inv, tables
  <2>2. CASE Applied(outcome)
    BY <1>6, <1>9, <2>2 DEF Grows, Inv, TablesOK, RowsHold, MigratedIsEmpty
  <2> QED
    BY <2>1, <2>2
<1>11. CASE Fail(h)
  <2>1. PICK d : Becomes(h, d) /\ Good(d)
    BY <1>1, <1>11, FailAdvances DEF Advances
  <2>2. Good(d)'
    BY <1>10, <2>1, GoodStays DEF Inv
  <2> QED
    BY <1>6, <1>10, <2>1, <2>2, LoudStep
<1>12. CASE NoticeText(c.job) /\ Move(h, "notify") /\ ~Throws(outcome)
  <2>1. PICK d : d = Waiting(c, "notify")
    OBVIOUS
  <2>2. /\ d \in Calls /\ d.at = "notify" /\ d.user = c.user /\ d.job = c.job
        /\ d.typed = c.typed /\ d.personal = c.personal /\ d.offer = c.offer
        /\ d.answer = c.answer
    BY <1>3, <2>1, WaitingIs DEF Await
  <2>3. c.job.kind = "accept"
    BY <1>3, <1>12 DEF NoticeText, DecisionButton
  <2>4. Decided(c)'
    <3>1. Applied(outcome)
      BY <1>5, <1>12 DEF Applied, Throws, WriteOutcome
    <3> QED
      BY <1>4, <1>8, <1>9, <3>1 DEF Decided
  <2>5. Good(c)'
    BY <1>1, <1>2, <1>10, GoodStays DEF Inv
  <2>6. Shaped(d)
    BY <1>1, <1>2, <1>3, <2>2, <2>3 DEF Good, Shaped, OfCommand
  <2>7. Informed(d)'
    BY <2>2, <2>3, <2>4, <2>5 DEF Good, Informed, Decided
  <2>8. Good(d)'
    BY <2>2, <2>6, <2>7 DEF Good, Shaped, Racing
  <2>9. Becomes(h, d)
    BY <1>2, <1>12, <2>1 DEF Move
  <2> QED
    BY <1>6, <1>10, <2>8, <2>9, LoudStep
<1> QED
  BY <1>2, <1>5, <1>11, <1>12 DEF AfterUpdate

\* On to the post that ends a click.
LEMMA RespondAdvances ==
  ASSUME NEW h \in Slots, Good(call[h]), call[h].at = "notify", Move(h, "respond")
  PROVE  Advances(h)
<1>1. PICK c : c = call[h]
  OBVIOUS
<1>2. PICK d : d = Waiting(c, "respond")
  OBVIOUS
<1>3. c \in Calls /\ c.job \in DecisionButton /\ c.job.kind = "accept"
  BY <1>1 DEF Good, Shaped
<1>4. /\ d \in Calls /\ d.at = "respond" /\ d.user = c.user /\ d.job = c.job
      /\ d.typed = c.typed /\ d.personal = c.personal /\ d.offer = c.offer
      /\ d.answer = c.answer
  BY <1>2, <1>3, WaitingIs DEF Await
<1>5. Shaped(d)
  BY <1>1, <1>3, <1>4 DEF Good, Shaped, OfCommand, Button
<1>6. Informed(d)
  BY <1>1, <1>3, <1>4 DEF Good, Informed, Decided
<1>7. Good(d)
  BY <1>4, <1>5, <1>6 DEF Good, Racing
<1> QED
  BY <1>1, <1>2, <1>7 DEF Advances, Move

LEMMA NotifyKeeps ==
  ASSUME Inv, NEW h \in Slots, Notify(h)  PROVE Inv'
<1>1. Good(call[h]) /\ call[h].at = "notify"
  BY DEF Inv, CallsOK, Notify, Is
<1>2. PICK c : c = call[h]
  OBVIOUS
<1>3. /\ c.job \in DecisionButton /\ c.job.kind = "accept"
      /\ Decided(c) /\ ButtonIsCurrent(c.job)
  BY <1>1, <1>2 DEF Good, Shaped, Informed
<1>4. PICK n : n = [kind |-> c.job.kind, by |-> c.job.user,
                    request |-> c.job.request, to |-> c.job.owner]
  OBVIOUS
<1>5. notices' = notices \/ notices' = notices \cup {n}
  BY <1>2, <1>4 DEF Notify, Kind
<1>6. UNCHANGED <<schema, tables, shown, served>>
  BY DEF Notify
<1>7. /\ n.kind = "accept" /\ n.request = c.job.request /\ n.to = c.job.owner
      /\ n \in [kind : {"accept", "reject"}, by : Users,
                 request : RequestIds, to : Users]
  BY <1>3, <1>4 DEF DecisionButton
<1>8. NoticesOK'
  <2>1. /\ n.request \in DOMAIN requests
        /\ requests[n.request].status # "Idle"
        /\ requests[n.request].queueId \in DOMAIN queues
        /\ queues[requests[n.request].queueId].owner = n.to
    BY <1>3, <1>7 DEF Decided, ButtonIsCurrent
  <2> QED
    BY <1>5, <1>6, <1>7, <2>1 DEF Inv, NoticesOK, NoticesAreTrue, tables
<1>9. Advances(h)
  BY <1>1, FailAdvances, RespondAdvances DEF Notify
<1>10. PICK d : Becomes(h, d) /\ Good(d)
  BY <1>9 DEF Advances
<1>11. Grows /\ TablesOK'
  BY <1>6, SameTablesGrow, SameTablesOK DEF Inv
<1>12. Good(d)'
  BY <1>10, <1>11, GoodStays DEF Inv
<1> QED
  BY <1>6, <1>8, <1>10, <1>11, <1>12, ShownStays, MoveKeepsCalls DEF Inv

\* Buttons posted or returned to the user of a call are those it offered.
LEMMA ShownGrows ==
  ASSUME Inv, NEW c, Good(c), UNCHANGED <<schema, tables>>,
         c.user = Undefined => c.offer = {},
         \/ shown' = shown
         \/ shown' = shown \cup [to : {c.user}, button : c.offer]
  PROVE  ShownOK'
<1>1. \A s \in shown : ButtonIsCurrent(s.button)'
  BY SameTablesGrow, CurrentStays DEF Inv, ShownOK
<1>2. ASSUME NEW s \in [to : {c.user}, button : c.offer]
      PROVE  s \in [to : Users, button : Button] /\ ButtonIsCurrent(s.button)'
  <2>1. c.offer \subseteq Button /\ c.user \in Users \cup {Undefined}
    BY DEF Good, Shaped, Calls
  <2>2. s.button \in c.offer
    OBVIOUS
  <2>3. c.user \in Users /\ ButtonIsCurrent(s.button)
    BY <2>1, <2>2 DEF Good, Informed
  <2>4. ButtonIsCurrent(s.button)'
    BY <2>3, SameTablesGrow, CurrentStays DEF Inv
  <2> QED
    BY <1>2, <2>1, <2>3, <2>4
<1>3. shown \subseteq [to : Users, button : Button]
  BY DEF Inv, ShownOK
<1> QED
  BY <1>1, <1>2, <1>3 DEF ShownOK

LEMMA RespondKeeps ==
  ASSUME Inv, NEW h \in Slots, Respond(h)  PROVE Inv'
<1>1. Good(call[h]) /\ call[h].at = "respond"
  BY DEF Inv, CallsOK, Respond, Is
<1>2. PICK c : c = call[h]
  OBVIOUS
<1>3. /\ c.job \in Button /\ c.user # Undefined /\ c.job.kind # "list"
      /\ c.job.kind = "submit" => Submitted(c)
      /\ c.job.kind \in {"accept", "reject"} => Decided(c)
  BY <1>1, <1>2
     DEF Good, Shaped, Informed, Button, QueueButton, DecisionButton, Cancel
<1>4. UNCHANGED <<schema, tables, notices, served>>
  BY DEF Respond
<1>5. \/ shown' = shown
      \/ shown' = shown \cup [to : {c.user}, button : c.offer]
  BY <1>2 DEF Respond
<1>6. ShownOK'
  BY <1>1, <1>2, <1>3, <1>4, <1>5, ShownGrows
<1>7. Good(Ended(c, Success, {}))
  BY <1>1, <1>2, <1>3, SuccessIsGood
<1>8. Advances(h)
  BY <1>1, <1>2, <1>7, FailAdvances DEF Respond, Answer, Advances
<1>9. PICK d : Becomes(h, d) /\ Good(d)
  BY <1>8 DEF Advances
<1>10. Grows /\ TablesOK'
  BY <1>4, SameTablesGrow, SameTablesOK DEF Inv
<1>11. Good(d)'
  BY <1>9, <1>10, GoodStays DEF Inv
<1> QED
  BY <1>4, <1>6, <1>9, <1>10, <1>11, NoticesStay, MoveKeepsCalls DEF Inv

LEMMA ReturnKeeps ==
  ASSUME Inv, NEW h \in Slots, Return(h)  PROVE Inv'
<1>1. Good(call[h])
  BY DEF Inv, CallsOK
<1>2. PICK c : c = call[h]
  OBVIOUS
<1>3. c.user = Undefined => c.offer = {}
  BY <1>1, <1>2 DEF Good, Shaped
<1>4. UNCHANGED <<schema, tables, notices, served>> /\ Becomes(h, NoCall)
  BY DEF Return
<1>5. \/ shown' = shown
      \/ shown' = shown \cup [to : {c.user}, button : c.offer]
  BY <1>2 DEF Return
<1>6. ShownOK'
  BY <1>1, <1>2, <1>3, <1>4, <1>5, ShownGrows
<1>7. Grows /\ TablesOK'
  BY <1>4, SameTablesGrow, SameTablesOK DEF Inv
<1>8. PICK d : d = NoCall
  OBVIOUS
<1>9. Good(d)'
  BY <1>7, <1>8, IdleIsGood, GoodStays DEF Inv
<1> QED
  BY <1>4, <1>6, <1>7, <1>8, <1>9, NoticesStay, MoveKeepsCalls DEF Inv

LEMMA CrashKeeps ==
  ASSUME Inv, Crash  PROVE Inv'
<1>1. UNCHANGED <<schema, tables, shown, notices, served>>
  BY DEF Crash
<1>2. Grows /\ TablesOK'
  BY <1>1, SameTablesGrow, SameTablesOK DEF Inv
<1>3. CallsOK'
  <2>1. PICK d : d = NoCall
    OBVIOUS
  <2>2. Good(d)'
    BY <1>2, <2>1, IdleIsGood, GoodStays DEF Inv
  <2>3. call' = [h \in Slots |-> d]
    BY <2>1 DEF Crash
  <2>4. ASSUME NEW h \in Slots  PROVE Good(call[h])'
    <3>1. call'[h] = d
      BY <2>3
    <3> QED
      BY <2>2, <3>1 DEF Good, Shaped, Informed, Racing, Submitted, Decided, HasQueue,
                        ButtonIsCurrent
  <2> QED
    BY <2>3, <2>4 DEF CallsOK
<1> QED
  BY <1>1, <1>2, <1>3, ShownStays, NoticesStay DEF Inv

-----------------------------------------------------------------------------
(* Receipt *)

LEMMA ReceiveKeeps ==
  ASSUME Inv, NEW h \in Slots, NEW new, Receive(h, new), Good(new)  PROVE Inv'
<1>1. UNCHANGED <<schema, tables, shown, notices>> /\ Becomes(h, new)
  BY DEF Receive
<1>2. served' \in 0..MaxCalls
  BY NodeAssumption DEF Receive, Inv
<1>3. Grows /\ TablesOK'
  BY <1>1, SameTablesGrow, SameTablesOK DEF Inv
<1>4. Good(new)'
  BY <1>3, GoodStays DEF Inv
<1> QED
  BY <1>1, <1>2, <1>3, <1>4, ShownStays, NoticesStay, MoveKeepsCalls DEF Inv

LEMMA IdleIsCall == NoCall \in Calls
BY DEF NoCall, Calls, HttpStatus

LEMMA EdgeAnswers ==
  ASSUME NEW envelope \in Envelope, NEW path \in Path
  PROVE  Edge(envelope, path) \in {0, 400, 401, 404} /\ BadBody(path) \in {400, 500}
BY DEF Edge, ParseInboundRequest, VerifySlackMessage, BadBody

LEMMA ReceiveBadKeeps ==
  ASSUME Inv, NEW h \in Slots, ReceiveBad(h)  PROVE Inv'
<1>1. PICK envelope \in Envelope, path \in Path :
        LET status == IF Edge(envelope, path) # 0 THEN Edge(envelope, path)
                      ELSE BadBody(path)
        IN  Receive(h, [NoCall EXCEPT !.at = "answered", !.answer = status])
  BY DEF ReceiveBad
<1>2. PICK status : status = IF Edge(envelope, path) # 0 THEN Edge(envelope, path)
                             ELSE BadBody(path)
  OBVIOUS
<1>3. status \in HttpStatus
  BY <1>2, EdgeAnswers DEF HttpStatus, ServerError
<1>4. PICK d : d = [NoCall EXCEPT !.at = "answered", !.answer = status]
  OBVIOUS
<1>5. /\ d.at = "answered" /\ d.user = Undefined /\ d.job = NoJob
      /\ d.personal = Undefined /\ d.offer = {}
  BY <1>4 DEF NoCall
<1>6. d \in Calls
  BY <1>3, <1>4, IdleIsCall DEF Calls
<1>7. Good(d)
  BY <1>5, <1>6 DEF Good, Shaped, Informed, Racing, OfCommand, NoJob, ButtonIsCurrent,
                    Snapshots
<1> QED
  BY <1>1, <1>2, <1>4, <1>7, ReceiveKeeps

LEMMA ReceiveCommandKeeps ==
  ASSUME Inv, NEW h \in Slots, ReceiveCommand(h)  PROVE Inv'
<1>1. PICK user \in Users, channel \in Channels, text \in CommandText :
        Receive(h, [NoCall EXCEPT
          !.at = "listUsers", !.user = user, !.channel = channel,
          !.job = [kind |-> CommandAction(text)],
          !.stranger = user \notin users,
          !.first = \A q \in DOMAIN queues : queues[q].owner # user])
  BY DEF ReceiveCommand
<1>2. PICK job : job = [kind |-> CommandAction(text)]
  OBVIOUS
<1>3. job \in Commands /\ job.kind \in {"list", "create-queue", "help", ""}
  BY <1>2 DEF Commands, CommandAction, CommandText
<1>4. PICK stranger \in BOOLEAN : stranger = (user \notin users)
  OBVIOUS
<1>5. PICK first \in BOOLEAN :
        first = (\A q \in DOMAIN queues : queues[q].owner # user)
  OBVIOUS
<1>6. PICK d :
        d = [NoCall EXCEPT
              !.at = "listUsers", !.user = user, !.channel = channel, !.job = job,
              !.stranger = stranger, !.first = first]
  OBVIOUS
<1>7. /\ d.at = "listUsers" /\ d.user = user /\ d.channel = channel /\ d.job = job
      /\ d.personal = Undefined /\ d.offer = {} /\ d.answer = Unanswered
      /\ d.stranger = stranger /\ d.first = first
  BY <1>6 DEF NoCall
<1>8. Receive(h, d)
  BY <1>1, <1>2, <1>4, <1>5, <1>6
<1>9. Unanswered \in HttpStatus /\ Unanswered # Success
  BY DEF HttpStatus, Unanswered, Success
<1>10. d \in Calls
  BY <1>3, <1>6, IdleIsCall DEF Calls, Await
<1>11. user # Undefined
  BY NodeAssumption
<1>12. Shaped(d)
  BY <1>3, <1>7, <1>10, <1>11 DEF Shaped, OfCommand
<1>13. Informed(d)
  BY <1>3, <1>7, <1>9 DEF Informed, ButtonIsCurrent, Snapshots
<1>14. Racing(d)
  BY <1>4, <1>5, <1>7 DEF Racing, HasQueue
<1> QED
  BY <1>8, <1>12, <1>13, <1>14, ReceiveKeeps DEF Good

\* What a click on a button becomes when it is received.
LEMMA DispatchIsGood ==
  ASSUME NEW c \in Calls, c.user \in Users, c.offer = {}, c.answer = Unanswered,
         c.personal = Undefined, c.at = "free",
         ButtonIsCurrent(c.job),
         c.job \in Button \cup Leftover,
         c.job.kind = "submit" => c.typed \in Descriptions
  PROVE  Good(Dispatch(c))
<1>1. /\ Unanswered # Success /\ ServerError # Success
      /\ Unanswered \in HttpStatus /\ Success \in HttpStatus /\ ServerError \in HttpStatus
  BY DEF HttpStatus, Unanswered, Success, ServerError
<1>2. c.user # Undefined
  BY NodeAssumption
<1>5. PICK d : d = Dispatch(c)
  OBVIOUS
<1>6. CASE c.job.kind \in {"cancel", "view", "submit", "accept", "reject"}
  <2>1. PICK await \in Await :
          /\ d = [c EXCEPT !.at = await, !.offer = {}]
          /\ \/ c.job.kind = "cancel" /\ await = "respond"
             \/ c.job.kind = "view" /\ await = "listRequests"
             \/ c.job.kind = "submit" /\ await = "createRequest"
             \/ c.job.kind \in {"accept", "reject"} /\ await = "update"
    BY <1>5, <1>6 DEF Dispatch, Await
  <2>2. /\ d \in Calls /\ d.at = await /\ d.offer = {} /\ d.user = c.user
        /\ d.job = c.job /\ d.typed = c.typed /\ d.personal = c.personal
        /\ d.answer = c.answer
    BY <2>1 DEF Calls
  <2>3. Shaped(d)
    BY <1>2, <1>6, <2>1, <2>2
       DEF Shaped, OfCommand, Button, Leftover, QueueButton, DecisionButton, Cancel
  <2>4. Informed(d)
    BY <1>1, <1>6, <2>1, <2>2 DEF Informed
  <2>5. Racing(d)
    BY <1>6, <2>1, <2>2 DEF Racing
  <2> QED
    BY <1>5, <2>3, <2>4, <2>5 DEF Good
<1>7. CASE c.job.kind = "add"
  <2>1. c.job \in QueueButton
    BY <1>7 DEF Button, Leftover, DecisionButton, Cancel
  <2>2. PICK buttons : buttons = RequestForm(c.job.queue).buttons
    OBVIOUS
  <2>3. c.job.queue \in QueueRow
    BY <2>1 DEF QueueButton
  <2>4. \A button \in buttons : button \in Button /\ ButtonIsCurrent(button)
    BY <1>7, <2>1, <2>2, <2>3, RequestFormCurrent DEF ButtonIsCurrent, Snapshots
  <2>5. d = [c EXCEPT !.at = "respond", !.offer = buttons]
    BY <1>5, <1>7, <2>2 DEF Dispatch
  <2>6. /\ d \in Calls /\ d.at = "respond" /\ d.offer = buttons /\ d.user = c.user
        /\ d.job = c.job /\ d.typed = c.typed /\ d.personal = c.personal
        /\ d.answer = c.answer
    BY <2>4, <2>5 DEF Calls, Await
  <2>7. Shaped(d)
    BY <1>2, <2>1, <2>6 DEF Shaped, OfCommand, Button
  <2>8. Informed(d)
    BY <1>1, <1>7, <2>4, <2>6 DEF Informed
  <2>9. Racing(d)
    BY <2>6 DEF Racing
  <2> QED
    BY <1>5, <2>7, <2>8, <2>9 DEF Good
<1>8. CASE c.job.kind \in {"delete", "submit-new-queue", "completed-request"}
  <2>1. PICK status \in HttpStatus :
          d = [c EXCEPT !.at = "answered", !.answer = status]
    BY <1>1, <1>5, <1>8 DEF Dispatch, DeleteQueue, SubmitNewQueue
  <2>2. /\ d \in Calls /\ d.at = "answered" /\ d.offer = {} /\ d.user = c.user
        /\ d.job = c.job /\ d.personal = c.personal
    BY <2>1 DEF Calls
  <2> QED
    BY <1>2, <1>5, <1>8, <2>2 DEF Good, Shaped, Informed, Racing, OfCommand
<1>9. c.job.kind \in {"cancel", "view", "submit", "accept", "reject", "add", "delete",
                      "submit-new-queue", "completed-request"}
  BY DEF Button, Leftover, QueueButton, DecisionButton, Cancel
<1> QED
  BY <1>5, <1>6, <1>7, <1>8, <1>9

LEMMA ReceiveClickKeeps ==
  ASSUME Inv, NEW h \in Slots, ReceiveClick(h)  PROVE Inv'
<1>1. CASE \E s \in shown, typed \in Descriptions :
             Receive(h, Dispatch([NoCall EXCEPT !.user = s.to, !.job = s.button,
                                    !.typed = IF s.button.kind = "submit" THEN typed
                                              ELSE Undefined]))
  <2>1. PICK s \in shown, typed \in Descriptions :
          Receive(h, Dispatch([NoCall EXCEPT !.user = s.to, !.job = s.button,
                                 !.typed = IF s.button.kind = "submit" THEN typed
                                           ELSE Undefined]))
    BY <1>1
  <2>2. PICK word : word = IF s.button.kind = "submit" THEN typed ELSE Undefined
    OBVIOUS
  <2>3. /\ s.to \in Users /\ s.button \in Button /\ ButtonIsCurrent(s.button)
        /\ word \in Descriptions \cup {Undefined}
        /\ s.button.kind = "submit" => word \in Descriptions
    BY <2>2 DEF Inv, ShownOK
  <2>4. PICK c : c = [NoCall EXCEPT !.user = s.to, !.job = s.button, !.typed = word]
    OBVIOUS
  <2>5. /\ c.at = "free" /\ c.user = s.to /\ c.job = s.button /\ c.typed = word
        /\ c.personal = Undefined /\ c.offer = {} /\ c.answer = Unanswered
    BY <2>4 DEF NoCall
  <2>6. c \in Calls
    BY <2>3, <2>4, IdleIsCall DEF Calls
  <2>7. Good(Dispatch(c))
    BY <2>3, <2>5, <2>6, DispatchIsGood
  <2> QED
    BY <2>1, <2>2, <2>4, <2>7, ReceiveKeeps
<1>2. CASE \E user \in Users, button \in Leftover :
             Receive(h, Dispatch([NoCall EXCEPT !.user = user, !.job = button]))
  <2>1. PICK user \in Users, button \in Leftover :
          Receive(h, Dispatch([NoCall EXCEPT !.user = user, !.job = button]))
    BY <1>2
  <2>2. PICK c : c = [NoCall EXCEPT !.user = user, !.job = button]
    OBVIOUS
  <2>3. /\ c.at = "free" /\ c.user = user /\ c.job = button
        /\ c.personal = Undefined /\ c.offer = {} /\ c.answer = Unanswered
    BY <2>2 DEF NoCall
  <2>4. c \in Calls
    BY <2>2, IdleIsCall DEF Calls
  <2>5. button.kind \in {"submit-new-queue", "completed-request"}
    BY DEF Leftover
  <2>6. ButtonIsCurrent(button)
    BY <2>5 DEF ButtonIsCurrent, Snapshots
  <2>7. Good(Dispatch(c))
    BY <2>3, <2>4, <2>5, <2>6, DispatchIsGood
  <2> QED
    BY <2>1, <2>2, <2>7, ReceiveKeeps
<1> QED
  BY <1>1, <1>2 DEF ReceiveClick

-----------------------------------------------------------------------------
(* The invariant, and what follows from it *)

LEMMA InitInv ==
  ASSUME Init  PROVE Inv
<1>1. TablesOK
  BY NodeAssumption DEF Init, TablesOK, RowsHold, MigratedIsEmpty
<1>2. ShownOK /\ NoticesOK
  BY DEF Init, ShownOK, NoticesOK, NoticesAreTrue
<1>3. CallsOK
  BY <1>1, IdleIsGood DEF Init, CallsOK
<1>4. served \in 0..MaxCalls
  BY NodeAssumption DEF Init
<1> QED
  BY <1>1, <1>2, <1>3, <1>4 DEF Inv

LEMMA NextInv ==
  ASSUME Inv, [Next]_vars  PROVE Inv'
<1>1. CASE UNCHANGED vars
  <2>1. UNCHANGED <<schema, tables>>
    BY <1>1 DEF vars, tables
  <2>2. Grows /\ TablesOK'
    BY <2>1, SameTablesGrow, SameTablesOK DEF Inv
  <2>3. CallsOK'
    BY <1>1 DEF vars, Inv, CallsOK, Good, Shaped, Informed, Racing, Submitted, Decided,
                HasQueue, ButtonIsCurrent
  <2> QED
    BY <1>1, <2>2, <2>3, ShownStays, NoticesStay DEF Inv, vars
<1>2. CASE Crash
  BY <1>2, CrashKeeps
<1>3. ASSUME NEW h \in Slots,
             ReceiveBad(h) \/ ReceiveCommand(h) \/ ReceiveClick(h)
      PROVE  Inv'
  BY <1>3, ReceiveBadKeeps, ReceiveCommandKeeps, ReceiveClickKeeps
<1>4. ASSUME NEW h \in Slots, Work(h)  PROVE Inv'
  BY <1>4, ListUsersKeeps, CreateUserKeeps, ListDefaultsKeeps, ListPersonalKeeps,
     CreatePersonalKeeps, ListChannelKeeps, CreateRequestKeeps, ListRequestsKeeps,
     UpdateStatusKeeps, NotifyKeeps, RespondKeeps, ReturnKeeps DEF Work
<1> QED
  BY <1>1, <1>2, <1>3, <1>4 DEF Next

LEMMA InvHolds == Spec => []Inv
<1>1. Init => Inv
  BY InitInv
<1>2. Inv /\ [Next]_vars => Inv'
  BY NextInv
<1> QED
  BY <1>1, <1>2, PTL DEF Spec

\* Rows, buttons, notices and calls keep their types: no row is stored with a
\* value missing, no button is shown with an owner or a queue it does not have.
THEOREM TypeCorrect == Spec => []TypeOK
<1>1. Inv => TypeOK
  <2>1. ASSUME CallsOK  PROVE call \in [Slots -> Calls]
    BY <2>1 DEF CallsOK, Good, Shaped
  <2> QED
    BY <2>1 DEF Inv, TablesOK, ShownOK, NoticesOK, TypeOK
<1> QED
  BY <1>1, InvHolds, PTL

\* Over the migrated tables the application never stores a queue or a request
\* and never shows a button of one.
THEOREM MigratedStoresNothingElse == Spec => []MigratedStoresOnlyUsers
<1>1. Inv => MigratedStoresOnlyUsers
  <2> SUFFICES ASSUME Inv, schema = "migrated"
               PROVE  /\ DOMAIN queues = {} /\ DOMAIN requests = {}
                      /\ \A s \in shown : s.button \in Cancel
                      /\ \A h \in Slots : call[h].answer = Success => Kind(h) # "list"
    BY DEF MigratedStoresOnlyUsers
  <2>1. DOMAIN queues = {} /\ DOMAIN requests = {}
    BY DEF Inv, TablesOK, MigratedIsEmpty
  <2>2. ASSUME NEW s \in shown  PROVE s.button \in Cancel
    <3>1. s.button \in Button /\ ButtonIsCurrent(s.button)
      BY DEF Inv, ShownOK
    <3> QED
      BY <2>1, <3>1
         DEF Button, QueueButton, DecisionButton, ButtonIsCurrent, Snapshots
  <2>3. ASSUME NEW h \in Slots, call[h].answer = Success  PROVE Kind(h) # "list"
    BY <2>1, <2>3 DEF Inv, CallsOK, Good, Informed, HasQueue, Kind
  <2> QED
    BY <2>1, <2>2, <2>3
<1> QED
  BY <1>1, InvHolds, PTL

\* Users and personal queues are made twice in races only.
THEOREM OnlyRacesMakeSeconds == Spec => []SecondsOnlyInRaces
<1>1. Inv => SecondsOnlyInRaces
  BY DEF Inv, CallsOK, Good, Racing, SecondsOnlyInRaces, Is
<1> QED
  BY <1>1, InvHolds, PTL

\* The copies of rows that buttons carry stay true of the tables.
THEOREM ButtonsStayCurrent == Spec => []ButtonsAreCurrent
<1>1. Inv => ButtonsAreCurrent
  BY DEF Inv, ShownOK, CallsOK, Good, Informed, ButtonsAreCurrent
<1> QED
  BY <1>1, InvHolds, PTL

\* Nobody is told of a decision that was not taken on a request of his queues.
THEOREM NoticesStayTrue == Spec => []NoticesAreTrue
<1>1. Inv => NoticesAreTrue
  BY DEF Inv, NoticesOK
<1> QED
  BY <1>1, InvHolds, PTL

\* An answer of success is never about a write that did not happen.
THEOREM AnswersStayTrue == Spec => []AnswersAreTrue
<1>1. Inv => AnswersAreTrue
  <2>1. ASSUME Inv, NEW h \in Slots, call[h].answer = Success
        PROVE  /\ Kind(h) = "submit" => Submitted(call[h])
               /\ Kind(h) \in {"accept", "reject"} => Decided(call[h])
               /\ Kind(h) = "list" => HasQueue(call[h].user)
    BY <2>1 DEF Inv, CallsOK, Good, Informed, Kind
  <2> QED
    BY <2>1 DEF AnswersAreTrue, Submitted, Decided, HasQueue
<1> QED
  BY <1>1, InvHolds, PTL

-----------------------------------------------------------------------------
(* The tables implement RequestBoard *)

LEMMA OpensQueue ==
  ASSUME Inv, NEW h \in Slots, CreatePersonal(h)
  PROVE  (\E id \in QueueIds : Board!Open(id)) \/ UNCHANGED <<queues, requests>>
<1>1. PICK outcome \in WriteOutcome(CanInsert(schema, "queues", QueueModel)),
           id \in Fresh(QueueIds, queues) :
        queues' = IF Applied(outcome) THEN With(queues, id, NewQueue(id, call[h]))
                  ELSE queues
  BY DEF CreatePersonal
<1>2. requests' = requests
  BY DEF CreatePersonal
<1>3. CASE ~Applied(outcome)
  BY <1>1, <1>2, <1>3
<1>4. CASE Applied(outcome)
  <2>1. id \in QueueIds /\ id \notin DOMAIN queues
    BY <1>1, FreshIs
  <2>2. PICK queue : queue = NewQueue(id, call[h])
    OBVIOUS
  <2>3. queue.id = id
    BY <2>2 DEF NewQueue
  <2>4. /\ DOMAIN queues' = DOMAIN queues \cup {id} /\ queues'[id] = queue
        /\ \A q \in DOMAIN queues : queues'[q] = queues[q]
    BY <1>1, <1>4, <2>1, <2>2 DEF With
  <2>5. Board!Open(id)
    BY <1>2, <2>1, <2>3, <2>4 DEF Board!Open, Board!Adds
  <2> QED
    BY <2>1, <2>5
<1> QED
  BY <1>3, <1>4

LEMMA PostsRequest ==
  ASSUME Inv, NEW h \in Slots, CreateRequest(h)
  PROVE  (\E id \in RequestIds : Board!Post(id)) \/ UNCHANGED <<queues, requests>>
<1>1. PICK c : c = call[h]
  OBVIOUS
<1>2. PICK outcome \in WriteOutcome(/\ CanInsert(schema, "requests", RequestModel)
                                    /\ c.job.queue.id \in DOMAIN queues
                                    /\ c.job.queue.owner \in users),
           id \in Fresh(RequestIds, requests) :
        requests' = IF Applied(outcome)
                    THEN With(requests, id, NewRequest(c.job.queue, c.typed))
                    ELSE requests
  BY <1>1 DEF CreateRequest
<1>3. queues' = queues
  BY DEF CreateRequest
<1>4. CASE ~Applied(outcome)
  BY <1>2, <1>3, <1>4
<1>5. CASE Applied(outcome)
  <2>1. id \in RequestIds /\ id \notin DOMAIN requests
    BY <1>2, FreshIs
  <2>2. /\ c.job.kind = "submit" /\ c.job \in QueueButton /\ Good(c)
    BY <1>1 DEF Inv, CallsOK, Good, Shaped, CreateRequest, Is
  <2>3. c.job.queue.id \in DOMAIN queues /\ queues[c.job.queue.id] = c.job.queue
    BY <2>2 DEF Good, Informed, ButtonIsCurrent, Snapshots
  <2>4. PICK row : row = NewRequest(c.job.queue, c.typed)
    OBVIOUS
  <2>5. /\ row.status = "Idle" /\ row.queueId = c.job.queue.id
        /\ row.createdBy = c.job.queue.owner
    BY <2>4 DEF NewRequest
  <2>6. /\ DOMAIN requests' = DOMAIN requests \cup {id} /\ requests'[id] = row
        /\ \A r \in DOMAIN requests : requests'[r] = requests[r]
    BY <1>2, <1>5, <2>1, <2>4 DEF With
  <2>7. Board!Post(id)
    BY <1>3, <2>1, <2>3, <2>5, <2>6 DEF Board!Post, Board!Adds
  <2> QED
    BY <2>1, <2>7
<1> QED
  BY <1>4, <1>5

LEMMA DecidesRequest ==
  ASSUME Inv, NEW h \in Slots, UpdateStatus(h)
  PROVE  \/ \E id \in RequestIds, status \in {"In Progress", "Rejected"} :
              Board!Decide(id, status)
         \/ UNCHANGED <<queues, requests>>
<1>1. PICK id : id = call[h].job.request
  OBVIOUS
<1>2. PICK status \in {"In Progress", "Rejected"} : status = Decision(Kind(h))
  BY DEF Decision
<1>3. \/ requests' = requests
      \/ id \in DOMAIN requests /\ requests' = [requests EXCEPT ![id].status = status]
  BY <1>1, <1>2 DEF UpdateStatus
<1>4. queues' = queues /\ DOMAIN requests \subseteq RequestIds
  BY DEF UpdateStatus, Inv, TablesOK
<1> QED
  BY <1>3, <1>4 DEF Board!Decide

\* Whatever fails and whenever the process stops, queues and requests are only
\* opened, posted in the name of the owner, and decided.
THEOREM TablesFollowBoard == Spec => FollowsBoard
<1>1. Init => Board!Init
  BY DEF Init, Board!Init, Board!NoRows
<1>2. Inv /\ [Next]_vars => [Board!Next]_<<queues, requests>>
  <2> SUFFICES ASSUME Inv, [Next]_vars
               PROVE  Board!Next \/ UNCHANGED <<queues, requests>>
    OBVIOUS
  <2>1. CASE UNCHANGED vars \/ Crash
    BY <2>1 DEF vars, Crash, tables
  <2>2. ASSUME NEW h \in Slots,
               ReceiveBad(h) \/ ReceiveCommand(h) \/ ReceiveClick(h)
        PROVE  UNCHANGED <<queues, requests>>
    BY <2>2 DEF ReceiveBad, ReceiveCommand, ReceiveClick, Receive, tables
  <2>3. ASSUME NEW h \in Slots, Work(h)
        PROVE  Board!Next \/ UNCHANGED <<queues, requests>>
    <3>1. CASE \/ ListUsers(h) \/ CreateUser(h) \/ ListDefaults(h) \/ ListPersonal(h)
               \/ ListChannel(h) \/ ListRequests(h) \/ Notify(h) \/ Respond(h)
               \/ Return(h)
      BY <3>1 DEF ListUsers, CreateUser, ListDefaults, ListPersonal, ListChannel,
                  ListRequests, Notify, Respond, Return, tables
    <3>2. CASE CreatePersonal(h)
      BY <3>2, OpensQueue DEF Board!Next
    <3>3. CASE CreateRequest(h)
      BY <3>3, PostsRequest DEF Board!Next
    <3>4. CASE UpdateStatus(h)
      BY <3>4, DecidesRequest DEF Board!Next
    <3> QED
      BY <2>3, <3>1, <3>2, <3>3, <3>4 DEF Work
  <2> QED
    BY <2>1, <2>2, <2>3 DEF Next
<1> QED
  BY <1>1, <1>2, InvHolds, PTL DEF Spec, FollowsBoard, Board!Spec
=============================================================================
