# A TLA+ model of slack-reQuest

slack-reQuest lets the users of a Slack workspace send each other requests
with `/request`, and accept, reject and complete them.  The repository holds two
applications:

- `golang_app`, the present one: domain, services and adapters in hexagonal
  layers, over net/http, gorm and the Slack API;
- `nodejs_app`, the older one it replaces: Express routes and controllers over
  knex and PostgreSQL, with Block Kit messages built by hand.

This directory models both, each by itself: they share no process and no table.
Paths below are relative to the repository; in `PROJECT.json`
they start with `src/`.  `map` there gives, for each definition, the lines it
stands for.

## Inventory

### Components of the Go application

| component | state it keeps | operations | calls |
|---|---|---|---|
| Domain rules (`internal/domain`) | none: methods of `Request` and `Queue` objects | `NewRequest`, `Accept`, `Reject`, `Complete`; `NewQueue`, `AddAdmin` .. `RemoveMember`; `CanAccept`, `CanReject`, `CanComplete`, `CanBeModifiedBy`, `CanRespondToRequests` | – |
| Repositories (`secondaryadapters/dbadapter`) | the tables `requests` and `queues` | `Save` (upsert of a whole row), `GetById`, finders | gorm |
| `RequestResponseService` | none between calls | accept, reject, complete, three listings | repositories, messenger |
| `QueueService` | none | create, update, delete, four edits of the staff, get, list | repositories |
| `FormSubmissionService` | none | handle a request form, handle a queue form | repositories, messenger, renderer |
| `SlackHandler`, `FormParser` | none | slash commands, block actions, view submissions | all services |
| `SlackViewRenderer` | Slack's: the modals on users' screens | open a request or queue form, update it by view id | Slack |
| `SlackMessenger`, `MessageRenderer` | Slack's: messages | direct messages, cards | Slack |
| `RequestService` | none | `OpenNewRequestForm`; the others have no caller | renderer |
| `QueueBrowserService`, ports, logging, wiring, schema | none that matters | reading, start-up | – |

### Components of the Node application

| component | state it keeps | operations | calls |
|---|---|---|---|
| Middlewares (`api/app.ts`, `api/middlewares`) | none | parse the body, check the signature, route, answer errors | controllers |
| Command controller | none between calls | `list`, `create-queue`, anything else; each establishes the user first | repositories |
| Interactions controller | none between calls | cancel, add, view, submit, accept, reject, delete, submit a new queue | repositories, Slack |
| Repositories, models | the tables `users`, `queues`, `requests` | `create`, `list`, `update` (`delete` and `getById` are not reached) | knex |
| Block Kit builders, forms | Slack's: messages and the JSON on their buttons | build and render | – |
| HTTP client | Slack's: direct messages | post to a `response_url`, `chat.postMessage` | Slack |
| Logger, configuration, container, start-up | none that matters | – | – |

### How the parts of the Go application interact, and what is hard about it

The services are stateless and everything shared is in the two tables and in
Slack.  net/http runs each HTTP call in a goroutine of its own, so any two
operations overlap.  What makes this difficult:

- **Read, change, save.**  Each operation loads a row, checks and changes its own
  copy, and saves all columns, without a transaction over the two statements
  and without a version column.  Whatever was saved in between is overwritten.
- **Rules looked at too early.**  The authorization of a response to a queue
  request, or of an edit of a queue, uses a queue that was read before the save.
- **Save, then tell.**  Notifications follow the save, each may fail by itself, and
  nothing retries them.
- **Slack's patience.**  A modal waits for its handler through a save and two round
  trips; after three seconds Slack tells the user to try again, while
  the handler may still succeed.
- **Modals are changed behind the user's back.**  `UpdateView` carries no hash, so of
  two updates the one that arrives last wins; a submission may overtake both.
- **Ids spelled twice.**  The renderer and the parser agree on callback ids and field ids
  by convention only.

### How the parts of the Node application interact, and what is hard about it

One process, one event loop: a handler runs undisturbed from one `await` to the
next, and handlers interleave at every `await`.

- **Look up, then make.**  A user and his personal queue are looked up and made
  if missing, in two statements; the primary key stops the second user, nothing
  stops the second queue.
- **State on buttons.**  A click is handled from the JSON its button carries:
  a copy of a queue row, or the request and its owner, as they were when the message was made.
  Buttons outlive calls and restarts.
- **Update, then tell, then confirm.**  A decision is stored, then a notice is
  built and posted, then the click is confirmed; each may fail by itself.
- **Errors swallowed.**  `createUserQueue`, `cancelInteraction`, `generateRequestForm`
  and `deleteQueue` catch and log; `HttpReq` ignores a refusal.
- **Two vocabularies.**  Statements name the fields of the models as columns;
  the migrations name the columns otherwise.

`PROJECT.json` lists these as hazards, each with its line and properties.

### What makes each component correct

| component | properties |
|---|---|
| Domain rules, repositories | the columns of a stored row agree with each other (`RowsConsistent`), nobody is listed twice and a creator stays an admin (`QueuesWellStaffed`), under any interleaving of the services |
| `RequestResponseService` | who is shown as acceptor did accept and was entitled to; a decision is not undone; messages are true, are sent and none is forgotten; without overlap it implements the lifecycle of the README and first come is first served |
| `QueueService` | nobody is on a list who was not appointed; an edit has its effect and was asked for by an admin |
| `FormSubmissionService` | one row per submission unless its answer got lost; cards reach the addressed people; a submission is answered, and nobody waits for a goroutine that is gone |
| Services on shared tables | what each does to the tables is what `RequestResponseService` reckons with, so its properties hold beside the others |
| Slack side | no request is made that the user did not mean; a modal that closes has made something; a form fits its parser |
| Node tables | they change only as `RequestBoard` says; over the migrated tables nothing but users is stored |
| Node controllers | what is looked up first is made twice only in a race; every call is answered; success means that it is in the tables |
| Node messages | a button says what the tables say; a notice tells of a stored decision and reaches the owner |

## Modules

| module | models | depends on |
|---|---|---|
| `Domain` | requests, queues, their methods and the authorization rules, as operators on rows | – |
| `Store` | the two tables; what every service owes them | `Domain` |
| `RequestResponse` | accept, reject, complete with all their steps | `Store` |
| `RequestLifecycle` | abstract: the life of a request after the README | – |
| `QueueManagement` | creating, updating and staffing queues | `Store` |
| `FormSubmission` | a submitted form up to its answer | `Store`, `RequestResponse` (for a property) |
| `ReQuest` | the services on the tables they share, in one process that may crash | `RequestResponse`, `QueueManagement` |
| `SlackForms` | modals from the command to the submission | – |
| `NodeTables` | the columns of the two possible databases and of the statements | – |
| `BlockKit` | which messages can be built and the buttons they show | – |
| `SlackInbound` | the middlewares and the shape of commands | – |
| `NodeApp` | both controllers, await by await, with tables, messages and failures | the three above |
| `RequestBoard` | abstract: what the tables of the Node application promise | – |
| `MC*` | constants, symmetry and small value sets of the runs | one of the above |
| `*_proofs` | theorems | the module named |

### Correspondence to the code

**State.**  `requests` and `queues` are the tables: functions from the ids that
exist to rows.  A row is a record with the columns the rules look at: title,
description and dates are left out.  Lists of admins and members are sequences, as
in the code, because `RemoveAdmin` takes out the first occurrence.  In the services,
`pc`, `call` and `held` of a goroutine are where it is, its arguments and its copy
of the row.  History variables record what the code does not: `commits` the
successful saves, `sent` the direct messages attempted, `staffed` and `appointed`
who was ever put on a list, `origin` which form a row came from, `cards` the cards
posted, `made` what came of a form.  No guard looks at them.

**Steps.**  One step has at most one round trip to the database or Slack, with
the local work after it: that work touches only the goroutine's own copy.
`AcceptRequest`, for example, is `Start` (lines to `GetById`), `Authorize` (reads the queue,
checks, changes the copy), `Save`, `TellCreator`, `TellAcceptor` (which does
nothing for an acceptance).  A call refused before it read anything, or whose
read fails or finds nothing, changed nothing and is not a step.

**Failures.**  Any round trip may fail.  A `Save` that fails has written
nothing.  (The repositories pass on gorm's error; a commit whose confirmation is
lost on the way is not modelled.)  A crash loses every goroutine and keeps the
tables.

**The Node application.**  `users`, `queues` and `requests` are its tables,
`shown` the buttons on the messages of each user, `notices` the direct messages posted, and
`call[h]` what the handler in slot `h` has in its local variables: the await it
waits at, user, channel, the button or command it serves, what was typed, the personal
queue, the buttons of the message on its way and the HTTP status of its response.
`stranger` and `first` record what the tables said when the call came, for a property.
One action is one await with the code up to the next: `handleAcceptRequest`, for example, is
`ReceiveClick` (dispatch), `UpdateStatus` (the statement, then the text of the notice, which may
throw), `Notify`, `Respond`, `Return`.  A statement ends `done`, `refused` (no effect, throws) or
`lost` (takes effect and throws); a post also `ignored` (Slack says no, nobody notices).  A click
comes from a button somebody was shown, or from one no message of this version has.

**Which Node program.**  `tsc` reports type errors at this commit: an undeclared class in a
method nobody calls (`CreateQueueForm.ts:128`), a missing argument
(`interactions.controller.ts:118`), a field left unset (`QueueModel.updatedAt`), imports that are
types only.  `tsconfig.json` does not set `noEmitOnError`, so JavaScript is emitted all the same,
and that is what is modelled, from `api/app.ts` on, which the API tests load as well.  `api/server.ts`
imports a constants module the repository does not have: whoever starts the application must provide it.

**Which database.**  The columns the statements name are not those of the migrations
(`channel`, `queueId`, `createdBy`, `status` ...).  `schema` is the database the application was given:
`migrated` is what the migrations make; `spoken` is an assumption, tables with the columns and keys the statements
presuppose.  Everything beyond users can only happen over `spoken`.  Seeds are left out: their
statements leave `created_at` and `channel_id` empty, which the migrations forbid.

**Surroundings.**  A module that shows one service includes what the others do to the
tables.  In `RequestResponse` these are `FormSaves`, a new request under a new id, and `QueueSaves`: any queue out of
`StaffRows`, a constant of which it is only assumed that these queues are well staffed, saved over any other
of the same creator.  That is more than complete edits one after the other could do: staff may come back or vanish at any
moment, as the stale copies of `QueueService` make it.  Whether it is enough is not left to that remark.
In `ReQuest` the queues change by the steps of `QueueManagement`, with its stale copies, `StaffRows` are all
well-staffed queues there can be (`StaffedRows`), `staffed` is `StaffSoFar`, read off what the calls recorded, and
`ServesRequests` says that the whole is a behaviour of `RequestResponse`.  `FormsServeRequests` says the same of
`FormSubmission`, with nobody answering: its requests and queues are new, and its queues are among those it
may ask for (`QueuesAsked`).

**What the code leaves open.**
- `UpdateQueue` has no caller.  It is taken to be called with an object from
  `GetQueue`, some time later, with its lists as they were read.
- `RequestResponseService` is built in `main.go:69` and not connected to the
  handler.  It is modelled as net/http would run it, like the others.
- The request form has no select for a queue yet (`slack_views.go:100`), while all
  services handle requests to queues.  `SlackForms` models the form as it
  is, `FormSubmission` and `RequestResponse` the services as they are.
- After `UpdateView` the type shown as selected may be the one the user selected last or the
  form's initial option.  `SlackForms` allows both.

## Runs

Bounds are constants of the modules, set in the `.cfg` files.

| run | question | bounds | about |
|---|---|---|---|
| `responses_concurrent` | what survives overlapping responses? | 2 goroutines, 1 request to a channel, 3 users, 1 crash | `TypeOK`, `RowsConsistent`, `AcceptorReallyAccepted`, `NoticesAreTrue`, `NoneForgotten`, `DecisionsStand` |
| `responses_sequential` | is it right without overlap? | 1 goroutine, 1 request to a user, to the creator or to a queue whose staff changes (by its creator, any further admins, at most 1 member), 3 users, 1 crash | `AcceptorWasEligible`, `DeadEndsStayPending`, `NoMultipleAcceptances`, `FollowsLifecycle`, `DecisionsAreAnnounced` |
| `double_acceptance` | can two users accept? | as the first | `NoMultipleAcceptances` is violated |
| `outsider_rejects` | can a bystander reject? | 1 goroutine | `OnlyPartiesReject` is violated |
| `shared_tables` | what survives edits over each other, and who answers while a queue is edited? | 2 goroutines edit, 1 answers, 1 request, 1 queue, 2 users, no reasons, 1 crash | `TypeOK`, `QueuesWellStaffed`, `StaffWasAppointed`, `AnswersWereEntitled`, `EditsTakeEffect`, `ServesRequests` |
| `forms` | what comes of a submission? | 1 request form, 1 queue form, 2 goroutines, 2 ids each, 1 lost answer per form | `TypeOK`, `QueuesWellStaffed`, `OneRowPerSubmission`, `CardsReachRecipient`, `NoneWaitsInVain`, `SubmissionsAnswered`, `FormsServeRequests` |
| `queue_card` | where does the card of a queue request go? | as `forms` | `QueueCardInQueueChannel` is violated |
| `modals` | what do racing updates and submissions make? | 2 modals, 3 goroutines, 2 selections each, 2 users, 1 channel | `TypeOK`, `RequestsAsPicked`, `ClosedMeansMade`, `SettledFormsParse` |
| `new_queue_form` | is a queue form understood? | as `modals` | `QueueFormsAreUnderstood` is violated |
| `node_races` | what survives overlapping calls over either database? | 2 slots, 2 users, 3 HTTP requests, 1 channel | `TypeOK`, `MigratedStoresOnlyUsers`, `SecondsOnlyInRaces`, `CallsAnswered` |
| `node_requests` | do messages, answers and tables agree? | 2 slots, 2 users, 6 HTTP requests, 2 queue ids, 2 request ids, 2 descriptions, `spoken` tables | `ButtonsAreCurrent`, `NoticesAreTrue`, `AnswersAreTrue`, `FollowsBoard` |
| `create_queue_command` | is the create-queue command answered? | 2 HTTP requests, no failures, `migrated` tables | `CreateQueueAnswered` is violated |

**Why the bounds are enough.**  Rows of different keys never meet, so one request (or queue)
shows every race on a row; two goroutines show each way of overtaking one
save by another; three users are the creator, an acceptor and somebody else.  The
theorems lift the safety properties of the first two runs, of `shared_tables`, `forms` and `modals`
to every number of goroutines, users, requests, queues, modals and crashes.  In `shared_tables` the founder of
the queue makes the request too, so that only a colleague can answer it, who has to be appointed first; with
two edits in flight he can be removed and brought back by a stale save while his answer is on its way.
Nobody rejects there (`Reason` is empty): a rejection asks of the queue what an acceptance asks, and the two would more
than double the states; the theorems have both.  In `forms` two ids
per table let one form be stored twice, which needs one lost answer; the other form
exists beside it.  In `modals` two selections and a submission are in flight at
once, three goroutines; a second modal shows that they do not mix.

In `node_races` three calls are two that overlap and one that finds what they left; in `node_requests`
six are the shortest way from nothing to two decisions on one request (list, add, submit, view, then accept or
reject twice, overlapping or not), and a failure or a crash at every await.  Two
queue ids are one per user, or two for a user who lists twice; a handler that would need a third id stops there, and
the theorems of `NodeApp_proofs`, for any number of ids, cover what it would have done.  In `node_races`, which has a liveness
property, there is an id for every call.

**Symmetry** is used in runs that check no liveness, and permutes goroutines, slots, modals or users
the constants do not single out.

**Deadlock** is checked in the runs of `RequestResponse` and `QueueManagement`, where a new call
can always come.  In `forms` and `modals` every modal may have been closed, and the Node application
rests when the calls of the instance are used up (`MaxCalls`): the
system may really stop, and the check is off.

**Fairness.**  `FairSpec` has weak fairness for the steps of each goroutine once its call has
begun, never for its beginning, for users, for Slack's patience or for crashes.  Go
schedules a runnable goroutine, and each round trip returns or
fails, at the latest when the context of the HTTP request is cancelled (both
clients are given that context).  Weak fairness is enough: a step, once enabled,
stays enabled, since it only depends on the goroutine itself.  The `FairSpec` of `NodeApp` is weak
fairness of the steps of each slot: promises of knex and `fetch` settle, by an answer or by
an error when the connection ends, and the event loop runs what waits for them.  Receipt and
crashes are not fair.

### What the runs show

- Saving stale copies over each other loses decisions, but never mixes
  two of them in one row: a row is always some copy changed by the domain methods.
  It never makes a decided request pending again.
- One failing direct message does not stop the other: each message a saved decision calls for is
  attempted, unless the process crashes between save and message; until it is, some goroutine is still about to.  Nothing repeats a message
  that failed or was lost that way.
- What the answering service reckons with from the others is all that they do: their stale copies bring
  staff back, and never take a queue from its creator or put somebody on a staff unrecorded.
- While no two calls overlap, nobody but the first accepts a request: `double_acceptance` is a race and nothing else.
- With one goroutine at a time every step of the service is one of `RequestLifecycle` or
  changes nothing there.  A rejection by the wrong person is such a step too: the
  lifecycle says when, not by whom.  That is `outsider_rejects`.
- A removed admin may come back by a stale save, somebody who never was an
  admin does not.
- A request to oneself, and one to a queue that is not stored, is accepted, rejected and completed by nobody; in the second
  case until somebody makes that queue.
- The Node application over its own migrations stores users and nothing else, and never answers a
  list command with success.
- There, a queue on a button is always the stored one, and a request's button names the right owner: no code changes
  or deletes a queue.  The snapshots are safe for that reason only.
- No notice tells of a decision that was not stored, and no rejection is ever told: its text
  cannot be made.  A decision may be stored and not told.
- Every call of the Node application is answered, whatever throws, unless the process stops.
- An error answer to a submission means that nothing was stored.  The one way
  to a duplicate is an answer that Slack does not wait for.

### Disagreements between the code and its documentation

`PROJECT.json` has them under "findings", with the run that shows each:

1. `golang_app/README.md:50` promises first come, first served; two overlapping calls
   of `AcceptRequest` both succeed (`double_acceptance`).  For the same reason
   a completed request, a "terminal state" in `README.md:42`, can be
   overwritten by an older copy.
2. `README.md:48` and `:67` let only the acceptor and the creator reject an accepted request;
   `CanReject` lets everyone who could have accepted it (`outsider_rejects`).
3. `README.md:74` posts the card of a queue request in the queue's channel; the code
   posts to the id of the queue (`queue_card`).
4. `newModalViewRequest` ignores the callback id it is given: every queue form
   goes to the parser of request forms and is refused (`new_queue_form`).
5. The test of the Node command `create-queue` expects a form
   (`nodejs_app/src/api/commands/__tests__/commands.api.test.ts:119`); `CreateQueueForm.render` gives its header
   a string and the command is always answered with 500 (`create_queue_command`).

Met while reading and not modelled as properties: `list-queues`, `manage-queue` and
`delete-queues` open forms made for something else (`slack_handler.go:70`, `:102`
against `README.md:88`); `sendNotification` opens a conversation by sending an empty direct
message (`form_submission_service.go:149`), which Slack is likely to refuse,
and the model lets fail or succeed; `QueueService.CreateQueue` stores a queue without a channel,
where `README.md:25` says each queue must have one; notification texts leave out the user and the reason that
`README.md:77` names; `CanBeRespondedToBy` has no callers.  In the Node application: the creator stored with a request is the
owner of the queue (`interactions.controller.ts:186`); every request is read back as idle (`ModelFactory.ts:52`); the
guard of `deleteQueue` is inverted; a rejection ends in an error; a body `/interactions` cannot
read is answered with 500, where `createQueueFormSubmission.api.test.ts` expects 400; `HeaderBlock`
allows 100 characters where its comment says 150.

## Proofs

Theorems are of the form `Spec => []Inv` or `Spec => [][A]_vars`, or are refinements, for every value of the
constants allowed by the assumptions: `DomainAssumption` (of the sets of ids, users and
channels, see `Domain`) and `ResponseAssumption`, `ManagementAssumption` or `SharedAssumption`, which say that
the users who fill in forms are users and, in `RequestResponse`, that the queues others save are well staffed (shown of them in
`ReQuest_proofs` and `FormSubmission_proofs`); `FormAssumption` and `NilIsNoJob` (request and queue modals differ, a nil pointer
is no job); `SlackFormsAssumption` (ids of users and channels are different and not empty); and `NodeAssumption`
(the bound is a number, `Undefined` is none of the ids).  Sets need not be finite, but for `User` in
`ReQuest`.

`Domain_proofs` has the lemmas: what each domain method does to the type and the consistency
of a row, and what adding to and removing from a list does to its elements and repetitions.  It also has the
replacement for induction and recursion over data, whose theorems in the library take an operator the
provers cannot instantiate.  `LeastElement` says that a non-empty set of numbers has a least one; from it follow
`NatSetInduction`, induction over a *set* of numbers instead of a predicate, and `RecursionExists`: for a
start and a list of step functions there is a function that runs through them (`Runs`).

`RequestResponse_proofs`.  A property of the stored row is not inductive: a goroutine
may save a copy it read long ago.  So each invariant says of every copy what it says of the tables.

| theorem | property | inductive invariant |
|---|---|---|
| `TypeCorrect` | `TypeOK` | `TypeInv`: with `BusyHolds`, a busy goroutine has a call and a copy |
| `RowsStayConsistent`, `DecisionsAreKept` | `RowsConsistent`, `DecisionsStand` | `DecisionInv`: with `CopiesAgree`, a copy is consistent and has the creator and recipient of the stored row; a copy read as decided means that the row is still decided; from the save on a copy is not pending, and one about to be saved as completed means that the row is not pending |
| `AcceptorsAccepted`, `NoticesStayTrue` | `AcceptorReallyAccepted`, `NoticesAreTrue` | `TraceInv`: with `CopiesTraced`, whoever a copy names as acceptor has a saved acceptance, or the copy is his own acceptance on its way |
| `AcceptorsWereEligible` | `AcceptorWasEligible` | `EligibleInv`: with `StaffRecorded`, whoever is on a list now is in `staffed`, and copies name only entitled users |
| `DeadEndsAreFinal` | `DeadEndsStayPending` | `DeadEndInv`: with `CopiesUnanswered`, a copy whose request nobody may answer is pending too |
| `NoneIsForgotten` | `NoneForgotten` | `AnnounceInv`: with `CreatorsTold`, who has come to the acceptor's message is done with the creator's |
| `OneAtATimeAcceptsOnce` | `NoMultipleAcceptances`, while `OneAtATime` | `AcceptancesStand`: an acceptance once saved is still to be seen in the row; with `CopiesFresh` |
| `OneAtATimeFollows` | `FollowsLifecycle`, while `OneAtATime` | `CopiesFresh`: the copy of the only call is the stored row, or what the call makes of it |

The last is a refinement.  It and `OneAtATimeAcceptsOnce` need their hypothesis, at most one goroutine: with two
both properties are false (`double_acceptance`).  A save
maps to `Take`, `Refuse` or `Finish`, by its operation, a stored form to `Open`, everything else to a stutter.

`QueueManagement_proofs` has `TypeCorrect`, `QueuesStayWellStaffed`, `StaffIsAppointed`
and `EditsAreEffective`, from one invariant with `CopiesSound`: a copy is well staffed,
lists nobody who was not appointed but the user its own call appoints, and
already shows the effect of that call.

`ReQuest_proofs` has `AnswersAreEntitled`, `StaffStaysAppointed` and `SharedEditsAreEffective`, over `SharedSpec`.  `AllInv` takes
the invariant of `QueueManagement_proofs`, which the other services keep, and adds: rows and their copies
are signed if they are accepted (`RowsSigned`, `AnswersSound`); an answer about to be saved is by somebody entitled to it
(`AnswersSound`); and a copy of a queue has the creator of the stored queue (`DraftsKeepCreator`).  The authorizing step makes an
answer entitled, by the queue as it is stored then.  It stays so until the save, though the queue may change, because `StaffSoFar` never
loses anybody: `appointed` only grows, and no save changes who created a queue.

It then shows the composition by assumption and guarantee.  `OthersServeRequests`: every step on the shared tables is a
step of `RequestResponse` or leaves what it sees alone.  A save of a queue is a `QueueSaves` because it keeps the creator
(`DraftsKeepCreator`), records whom it appoints (`RecordedSave`) and is one of `StaffedRows`; the last by the
pigeonhole principle (`ListsAreShort`), since a list without repetition is no longer than there are users, which is why `SharedAssumption`
wants finitely many.  Then `RequestResponse_proofs` is taken as an instance (`Proven`), its assumptions
are shown to hold, and its theorems carry over without a second proof: `RequestsStaySound` (`RowsConsistent`,
`AcceptorReallyAccepted`, `AcceptorWasEligible`, `NoticesAreTrue`, `DeadEndsStayPending`, `NoneForgotten`) and
`SharedDecisionsAreKept` (`DecisionsStand`).

`FormSubmission_proofs` has `OneRowEach` and `CardsAreWellPlaced`.  The number of rows of a form is no
invariant by itself, since a goroutine Slack gave up on still stores one: `Counted` adds the goroutines that may (`Savers`)
and bounds the sum by the answers lost, plus one while the modal is not open.  That a card shows what is stored
needs `OwnKeys`, no two goroutines have the same uuid, and `SavedAsHeld`, a row is as its
goroutine saved it until that goroutine has shown it.  `TypeCorrect` and `FormQueuesWellStaffed` rest on the lemma
`QueueOfFormStaff`, for a list of selected admins of any length: the queue has the creator and the selected users as its admins,
each once, and no members.  The loop is a recursive function; `RecursionExists` gives one that satisfies its equation,
`NatSetInduction` what holds after each round.  `SubmissionsAreInHand` proves `NoneWaitsInVain`, which is inductive beside the rest:
a goroutine that ends answers the one modal it serves.  `FormsFitService` is the other half of the composition:
`FormSubmission` keeps to what `RequestResponse` reckons with (`FormsServeRequests`) and meets `ResponseAssumption`; what it needs
is `HeldAsAsked`, the row about to be saved is as its form asked, and that its key is new until then (`OwnKeys` again).

`SlackForms_proofs` has `TypeCorrect`, `RequestsAreAsPicked`, `ClosedModalsMade` and `SettledFormsAreParsed`.
A submission is a snapshot of a modal that may have changed since, so the invariant says of
each snapshot what it says of modals (`FromModal`): its callback id is the one all forms have, and every value was a choice
of its field.  A modal waits for one submission only (`OneAnswerEach`), which is why it is not reopened by another.

`NodeApp_proofs` has `TypeCorrect`, `MigratedStoresNothingElse`, `OnlyRacesMakeSeconds`, `ButtonsStayCurrent`,
`NoticesStayTrue`, `AnswersStayTrue` and `TablesFollowBoard`, all from one invariant, `Inv`.  What a handler
will do depends on the button or queue it holds, so `Inv` says of each call (`Good`) that what it holds agrees with
the tables, that what it has already stored is there, and that it makes a second user or queue only if it came before the
first.  All of `Good` survives every step that only adds rows or changes a status (`Grows`), which
is why the other calls need no case: each action owes `Good` of its own call, and the truth of what it
puts into `shown` or `notices`.  `TablesFollowBoard` maps the steps: `CreatePersonal` to `Open`, `CreateRequest` to `Post`,
`UpdateStatus` to `Decide`, all others to a stutter.

**Only model-checked:** `DecisionsAreAnnounced`, `SubmissionsAnswered` and `CallsAnswered` (liveness is beyond the
prover).  The safety halves of the first two, `NoneForgotten` and `NoneWaitsInVain`, are proved: at no moment is anything
left undone that no goroutine is about to do.  What is left to TLC is that a goroutine that can go on does.

## Not modelled, and why

- Titles, texts, labels, layout, dates, logging: no rule depends on them.
- The finders and listings: they change nothing, and no operation that changes something uses them.
- `CreateRequest`, `UpdateRequest`, `DeleteRequest`, `QueueBrowserService`, three renderers and three
  messages: no caller, or not implemented.
- Reading the environment and start-up (but for which services share what, see `ReQuest`), schema, migrations,
  Terraform, ports: no behaviour while running.
- Of the Node application: code that no call reaches, which is modelled by the throw or guard before it (`handleQueueSubmitted`
  after line 118, `deleteQueue` after line 33, `createQueueForInteractingUser`, two methods of `CreateQueueForm`,
  `getById`); rich text, confirmation dialogs, `Obj`, `messages.ts`, `openConversation`, the tables
  of maintainers and assignees, which nothing uses; logger, configuration, container, start-up and seeds.
- Slack's limit on the number of blocks of a message, and the age of a request's stamp, which the Node
  application does not look at.  Queues of a channel all come from personal ones, since nothing else makes any.

## Plan

1. Done: `Domain`, `Store`, `RequestResponse` with `RequestLifecycle`, `QueueManagement`,
   `FormSubmission`, `SlackForms`; `NodeTables`, `BlockKit`, `SlackInbound`, `NodeApp` with
   `RequestBoard`; `ReQuest`; the theorems above.
2. `ReQuest` extended by all of `FormSubmission`, whose saves it has now: the card and the response agree on the
   recipient.  That each of the two keeps to what `RequestResponse` reckons with is proved.
3. `Browsing`: the finders of the repositories, `QueueBrowserService` and the listings, with what a
   user who acts on a listing may find changed.
