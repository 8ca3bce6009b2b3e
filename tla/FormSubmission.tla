--------------------------- MODULE FormSubmission ---------------------------
(***************************************************************************)
(* A submitted modal, from Slack to the tables: handleViewSubmission and   *)
(* FormSubmissionService.  A request form is stored and then shown to its  *)
(* recipient, in two more round trips to Slack; a queue form is stored.    *)
(* Only after that does the handler answer, and the user's modal waits for *)
(* the answer: an error keeps it open to be submitted again, success       *)
(* closes it.  Slack may give up waiting (which leaves the goroutine       *)
(* working, its context cancelled) and the process may crash; the modal    *)
(* stays open then too.                                                    *)
(***************************************************************************)
EXTENDS Store

CONSTANTS RequestForm, QueueForm,  \* modals on users' screens
          Worker,                  \* goroutines serving submissions
          Creators,                \* the users who fill them in
          Recipients,              \* recipients chosen in request forms
          AdminChoices,            \* selections of admins in queue forms
          MaxLost                  \* bound on lost answers per modal

Form == RequestForm \cup QueueForm

ASSUME FormAssumption ==
  /\ RequestForm \cap QueueForm = {}
  /\ Nil \notin Form
  /\ Creators \subseteq User
  /\ Recipients \subseteq Recipient
  /\ AdminChoices \subseteq Seq(User)
  /\ MaxLost \in Nat

VARIABLES modal,    \* what the user sees: "open", "waiting" or "closed"
          awaited,  \* the goroutine whose answer a waiting modal waits for
          pc,       \* where each goroutine is
          job,      \* the form it serves and the uuid it gave the new row
          held,     \* the new row
          origin,   \* history: <<form, uuid>> of every row stored
          cards,    \* history: notification cards posted, with their place
          lost      \* how often a modal lost the answer it waited for

formVars == <<modal, awaited, pc, job, held, origin, cards, lost>>
vars == <<requests, queues, formVars>>

Job == [form : RequestForm, key : RequestId] \cup [form : QueueForm, key : QueueId]

ASSUME NilIsNoJob == Nil \notin Job

\* Where a card can be posted: Slack takes a channel id or a DM channel, and
\* chat.postMessage with a queue's id is what the code would attempt.
Place == [type : {"user"}, id : User] \cup [type : {"channel"}, id : Channel \cup QueueId]

Card == [req : RequestId, place : Place]

Init ==
  /\ StoreInit
  /\ modal = [f \in Form |-> "open"]
  /\ awaited = [f \in Form |-> Nil]
  /\ pc = [w \in Worker |-> "idle"]
  /\ job = [w \in Worker |-> Nil]
  /\ held = [w \in Worker |-> Nil]
  /\ origin = {} /\ cards = {}
  /\ lost = [f \in Form |-> 0]

-----------------------------------------------------------------------------
\* A bug: ids counted up by the process, which starts counting again.
FreshAmongJobs(key) == \A w \in Worker : job[w] # Nil => job[w].key # key

\* uuid.New(): an id that no row and no other goroutine has.
Fresh(key) ==
  /\ key \notin DOMAIN requests \cup DOMAIN queues
  /\ \A w \in Worker : job[w] # Nil => job[w].key # key

\* The goroutine takes up form f with a new row; the modal waits for it.
TakeUp(w, f, key, row) ==
  /\ pc' = [pc EXCEPT ![w] = "save"]
  /\ job' = [job EXCEPT ![w] = [form |-> f, key |-> key]]
  /\ held' = [held EXCEPT ![w] = row]
  /\ modal' = [modal EXCEPT ![f] = "waiting"]
  /\ awaited' = [awaited EXCEPT ![f] = w]

\* A request form that passes the checks of the parser and of the service; one
\* that does not is answered with an error before anything happened.
SubmitRequest(w, f) ==
  /\ pc[w] = "idle" /\ modal[f] = "open"
  /\ \E key \in RequestId, creator \in Creators, recipient \in Recipients :
       /\ Fresh(key)
       /\ TakeUp(w, f, key, NewRequest(creator, recipient))
  /\ UNCHANGED <<requests, queues, origin, cards, lost>>

\* A bug: the selected admins are added as they come.
QueueOfFormUnchecked(creator, channel, chosen) ==
  [NewQueue(creator) EXCEPT !.channel = channel, !.admins = @ \o chosen]

\* NewQueue, its channel, then AddAdmin for every selected user but the
\* creator; the error of adding somebody twice is only logged.
QueueOfForm(creator, channel, chosen) ==
  LET queue[i \in 0..Len(chosen)] ==
        IF i = 0 THEN [NewQueue(creator) EXCEPT !.channel = channel]
        ELSE IF chosen[i] # creator /\ AddAdminAllowed(queue[i-1], chosen[i])
          THEN AddAdmin(queue[i-1], chosen[i])
        ELSE queue[i-1]
  IN  queue[Len(chosen)]

SubmitQueue(w, f) ==
  /\ pc[w] = "idle" /\ modal[f] = "open"
  /\ \E key \in QueueId, creator \in Creators, channel \in Channel, chosen \in AdminChoices :
       /\ Fresh(key)
       /\ TakeUp(w, f, key, QueueOfForm(creator, channel, chosen))
  /\ UNCHANGED <<requests, queues, origin, cards, lost>>

\* The goroutine answers and ends; the modal hears it if it still waits for it.
Answer(w, outcome) ==
  LET f == job[w].form IN
  /\ pc' = [pc EXCEPT ![w] = "idle"]
  /\ job' = [job EXCEPT ![w] = Nil]
  /\ held' = [held EXCEPT ![w] = Nil]
  /\ IF awaited[f] = w
       THEN /\ modal' = [modal EXCEPT ![f] = outcome]
            /\ awaited' = [awaited EXCEPT ![f] = Nil]
       ELSE UNCHANGED <<modal, awaited>>

Proceed(w, next) ==
  /\ pc' = [pc EXCEPT ![w] = next]
  /\ UNCHANGED <<job, held, modal, awaited>>

SaveForm(w) ==
  /\ pc[w] = "save"
  /\ \/ /\ job[w].form \in RequestForm
        /\ SaveRequest(job[w].key, held[w])
        /\ Proceed(w, IF held[w].recipient.type = "user" THEN "address" ELSE "render")
        /\ origin' = origin \cup {<<job[w].form, job[w].key>>}
        /\ UNCHANGED queues
     \/ /\ job[w].form \in QueueForm
        /\ SaveQueue(job[w].key, held[w])
        /\ Answer(w, "closed")
        /\ origin' = origin \cup {<<job[w].form, job[w].key>>}
        /\ UNCHANGED requests
     \/ /\ Answer(w, "open")
        /\ UNCHANGED <<requests, queues, origin>>
  /\ UNCHANGED <<cards, lost>>

\* A bug: when it fails the goroutine ends without an answer.
OpenConversationOrVanish(w) ==
  /\ pc[w] = "address"
  /\ \/ Proceed(w, "render")
     \/ /\ pc' = [pc EXCEPT ![w] = "idle"]
        /\ job' = [job EXCEPT ![w] = Nil]
        /\ held' = [held EXCEPT ![w] = Nil]
        /\ UNCHANGED <<modal, awaited>>
  /\ UNCHANGED <<requests, queues, origin, cards, lost>>

\* For a user: SendDirectMessage opens the conversation the card goes to.
OpenConversation(w) ==
  /\ pc[w] = "address"
  /\ Proceed(w, "render") \/ Answer(w, "closed")
  /\ UNCHANGED <<requests, queues, origin, cards, lost>>

\* A bug: a direct message for the creator instead of the addressed user.
PlaceAtCreator(row) ==
  IF row.recipient.type = "user"
    THEN [type |-> "user", id |-> row.createdBy]
    ELSE [type |-> "channel", id |-> row.recipient.id]

\* Where the card goes: the conversation with the addressed user, or else the
\* channel named by the recipient's id, be the recipient a channel or a queue.
PlaceOf(row) ==
  IF row.recipient.type = "user"
    THEN [type |-> "user", id |-> row.recipient.id]
    ELSE [type |-> "channel", id |-> row.recipient.id]

\* A bug: a card that cannot be posted is answered as an error.
RenderOrRefuse(w) ==
  /\ pc[w] = "render"
  /\ \/ /\ cards' = cards \cup {[req |-> job[w].key, place |-> PlaceOf(held[w])]}
        /\ Answer(w, "closed")
     \/ /\ Answer(w, "open")
        /\ UNCHANGED cards
  /\ UNCHANGED <<requests, queues, origin, lost>>

\* RenderRequestNotification; failing to notify is logged, not answered.
Render(w) ==
  /\ pc[w] = "render"
  /\ \/ cards' = cards \cup {[req |-> job[w].key, place |-> PlaceOf(held[w])]}
     \/ UNCHANGED cards
  /\ Answer(w, "closed")
  /\ UNCHANGED <<requests, queues, origin, lost>>

-----------------------------------------------------------------------------
(* The surroundings *)

\* Slack has waited long enough (three seconds) and hangs up: the user is told
\* to try again, the goroutine goes on with a cancelled context.
GiveUp(f) ==
  /\ modal[f] = "waiting" /\ lost[f] < MaxLost
  /\ modal' = [modal EXCEPT ![f] = "open"]
  /\ awaited' = [awaited EXCEPT ![f] = Nil]
  /\ lost' = [lost EXCEPT ![f] = @ + 1]
  /\ UNCHANGED <<requests, queues, pc, job, held, origin, cards>>

\* The process dies: every goroutine is lost and every connection breaks.
Crash ==
  /\ \E w \in Worker : pc[w] # "idle"
  /\ \A f \in Form : modal[f] = "waiting" => lost[f] < MaxLost
  /\ modal' = [f \in Form |-> IF modal[f] = "waiting" THEN "open" ELSE modal[f]]
  /\ lost' = [f \in Form |-> IF modal[f] = "waiting" THEN lost[f] + 1 ELSE lost[f]]
  /\ awaited' = [f \in Form |-> Nil]
  /\ pc' = [w \in Worker |-> "idle"]
  /\ job' = [w \in Worker |-> Nil]
  /\ held' = [w \in Worker |-> Nil]
  /\ UNCHANGED <<requests, queues, origin, cards>>

-----------------------------------------------------------------------------
Goes(w) == SaveForm(w) \/ OpenConversation(w) \/ Render(w)

Next ==
  \/ \E w \in Worker, f \in RequestForm : SubmitRequest(w, f)
  \/ \E w \in Worker, f \in QueueForm : SubmitQueue(w, f)
  \/ \E w \in Worker : SaveForm(w) \/ OpenConversation(w) \/ Render(w)
  \/ \E f \in Form : GiveUp(f)
  \/ Crash

Spec == Init /\ [][Next]_vars

\* Goroutines are scheduled and their round trips return or fail.  Nothing is
\* assumed of users, of Slack's patience or of crashes.
FairSpec == Spec /\ \A w \in Worker : WF_vars(Goes(w))

-----------------------------------------------------------------------------
(* Properties *)

\* Tables, modals, goroutines and histories hold values of their types.
TypeOK ==
  /\ StoreTypeOK
  /\ modal \in [Form -> {"open", "waiting", "closed"}]
  /\ awaited \in [Form -> Worker \cup {Nil}]
  /\ pc \in [Worker -> {"idle", "save", "address", "render"}]
  /\ job \in [Worker -> Job \cup {Nil}]
  /\ held \in [Worker -> RequestRow \cup QueueRow \cup {Nil}]
  /\ origin \subseteq Form \X (RequestId \cup QueueId)
  /\ cards \subseteq Card
  /\ lost \in [Form -> 0..MaxLost]

StoredFrom(f) == {o \in origin : o[1] = f}

\* A modal that closed was stored, and one that is still open has been stored
\* at most as often as its answer got lost: an error answer always means that
\* nothing was stored, so submitting again after one makes no duplicate.
OneRowPerSubmission ==
  \A f \in Form :
    /\ modal[f] = "closed" => StoredFrom(f) # {}
    /\ Cardinality(StoredFrom(f)) <= lost[f] + (IF modal[f] = "open" THEN 0 ELSE 1)

\* A card shows a request that is stored and never reaches the wrong people:
\* the conversation with the addressed user, or the addressed channel.
CardsReachRecipient ==
  \A c \in cards :
    /\ c.req \in DOMAIN requests
    /\ requests[c.req].recipient.type \in {"user", "channel"} =>
         c.place = [type |-> requests[c.req].recipient.type,
                    id |-> requests[c.req].recipient.id]

\* A modal that waits is in the hands of a goroutine that serves it and has not
\* come to an end: no failure and no crash leaves a user waiting for nobody.
\* (The safety half of SubmissionsAnswered, at every moment.)
NoneWaitsInVain ==
  \A f \in Form : modal[f] = "waiting" =>
    /\ awaited[f] \in Worker
    /\ pc[awaited[f]] # "idle" /\ job[awaited[f]].form = f

\* Every submission is answered, or Slack stops waiting for it.
SubmissionsAnswered == \A f \in Form : modal[f] = "waiting" ~> modal[f] # "waiting"

\* The queues that queue forms ask for, and who is on their staff.
QueuesAsked ==
  {QueueOfForm(creator, channel, chosen) :
     creator \in Creators, channel \in Channel, chosen \in AdminChoices}

StaffNow ==
  {s \in QueueId \X User : Found(queues, s[1]) /\ CanRespondToRequests(queues[s[1]], s[2])}

\* The answering service seen from here: nobody answers, and all that happens
\* is what it reckons with from its surroundings.
Responses ==
  INSTANCE RequestResponse
    WITH Worker <- {}, StaffRows <- QueuesAsked, MaxCrashes <- 0,
         pc <- [w \in {} |-> "idle"], call <- [w \in {} |-> Nil],
         held <- [w \in {} |-> Nil], crashes <- 0,
         commits <- {}, sent <- {}, staffed <- StaffNow

\* For RequestResponseService submitted forms are what it takes them for: each
\* request stored is new and pending under an id of its own, however often its
\* modal was submitted, and a queue stored puts on its staff whom the form chose
\* and takes over nobody else's queue.
FormsServeRequests == Responses!Spec

\* golang_app/README.md: "Queue recipient: Message in queue's associated
\* channel".  The code posts to the queue's own id, though the queue is stored.
QueueCardInQueueChannel ==
  [][\A c \in cards' \ cards :
       LET recipient == requests[c.req].recipient IN
       recipient.type = "queue" /\ Found(queues, recipient.id)
         => c.place = [type |-> "channel", id |-> queues[recipient.id].channel]]_vars
=============================================================================
