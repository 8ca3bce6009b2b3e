----------------------------- MODULE SlackForms -----------------------------
(***************************************************************************)
(* The modals between a slash command and a submitted form: SlackHandler,  *)
(* FormParser and SlackViewRenderer.  A command opens a modal.  In a       *)
(* request form the user first selects a type of recipient; Slack posts    *)
(* that as a block action, and its handler replaces the fields (UpdateView *)
(* by view id, with no hash: the last to arrive wins).  Meanwhile the user *)
(* may select again or submit what he sees.  A submission is dispatched on *)
(* the modal's callback id and parsed by the ids of its fields.            *)
(*                                                                         *)
(* A submission carries one value for each input field of the modal, since *)
(* Slack takes none with an input left empty, and the selected type if the *)
(* modal has that select.  What the services then do is FormSubmission's:  *)
(* here they take a form or answer an error.  Messages, labels and texts   *)
(* are left out.                                                           *)
(***************************************************************************)
EXTENDS Naturals, FiniteSets

CONSTANTS View,      \* modals by view id
          Worker,    \* goroutines serving block actions and submissions
          User,      \* whom a user select offers
          Channel,   \* what a channel select offers
          Nil,       \* no form, no job
          MaxPicks   \* bound on selections of a type per modal

ASSUME SlackFormsAssumption ==
  /\ User \cap Channel = {}
  /\ "" \notin User \cup Channel
  /\ MaxPicks \in Nat

VARIABLES status,  \* of each modal, see Statuses
          form,    \* what each modal is made of
          picked,  \* the type selected in it
          picks,   \* how often one was selected
          pc,      \* what each goroutine is doing
          job,     \* the interaction it serves
          made     \* history: what came of the forms that were taken

vars == <<status, form, picked, picks, pc, job, made>>

Statuses == {"none", "open", "waiting", "closed", "dismissed"}

RecipientType == {"user", "channel", "queue"}

RequestCallback == "request_form"
QueueCallback == "queue_form"

-----------------------------------------------------------------------------
(* Forms *)

\* A bug waiting for another: the id that is asked for, but written otherwise
\* than the handler's constant.
ModalHyphened(callback, submit, select, fields) ==
  [callback |-> "request-form", submit |-> submit, select |-> select, fields |-> fields]

\* newModalViewRequest: whatever callback id is asked for, the modal has the
\* one of request forms.
Modal(callback, submit, select, fields) ==
  [callback |-> RequestCallback, submit |-> submit, select |-> select, fields |-> fields]

\* A bug: the title is only asked for together with a user.
RequestFieldsUntitled(type) ==
  CASE type = ""        -> {}
    [] type = "user"    -> {"user_select_block", "request_title_block", "request_description_block"}
    [] type = "channel" -> {"channel_select_block", "request_description_block"}
    [] type = "queue"   -> {"request_title_block", "request_description_block"}

\* The fields of a request form in which `type` was selected; the one for a
\* queue is "Not implemented".
RequestFields(type) ==
  CASE type = ""        -> {}
    [] type = "user"    -> {"user_select_block", "request_title_block", "request_description_block"}
    [] type = "channel" -> {"channel_select_block", "request_title_block", "request_description_block"}
    [] type = "queue"   -> {"request_title_block", "request_description_block"}

\* Without a selected type there is nothing to submit.
RequestForm(type) == Modal(RequestCallback, type # "", TRUE, RequestFields(type))

QueueFields ==
  {"queue_channel_block", "queue_name_block", "queue_description_block", "queue_admins_block"}

QueueForm == Modal(QueueCallback, TRUE, FALSE, QueueFields)

\* The form a subcommand opens; the others are answered with a text.
FormOf(text) ==
  CASE text \in {"new-request", "manage-queue", "delete-queues"} -> RequestForm("")
    [] text \in {"new-queue", "list-queues"}                      -> QueueForm

FormCommands == {"new-request", "manage-queue", "delete-queues", "new-queue", "list-queues"}

-----------------------------------------------------------------------------
(* Submissions *)

\* What can be chosen in a field.
Choices(field) ==
  CASE field = "user_select_block"                               -> User
    [] field \in {"channel_select_block", "queue_channel_block"} -> Channel
    [] OTHER                                                     -> {"filled in"}

Values(fields) == {v \in [fields -> UNION {Choices(f) : f \in fields}] :
                     \A f \in fields : v[f] \in Choices(f)}

\* The payload of a submitted modal.
Submission(v, values) ==
  [view |-> v, callback |-> form[v].callback, type |-> picked[v], values |-> values]

Block(s, field) == IF field \in DOMAIN s.values THEN s.values[field] ELSE ""

\* A bug: whichever recipient was chosen counts, whatever the type.
ParsedRequestLeniently(s) ==
  [type |-> s.type,
   recipient |-> IF Block(s, "user_select_block") # ""
                   THEN Block(s, "user_select_block")
                   ELSE Block(s, "channel_select_block")]

\* ParseRequestForm: the recipient is looked up under the selected type.
ParsedRequest(s) ==
  [type |-> s.type,
   recipient |-> CASE s.type = "user"    -> Block(s, "user_select_block")
                   [] s.type = "channel" -> Block(s, "channel_select_block")
                   [] s.type = "queue"   -> Block(s, "queue_select_block")]

RequestParses(s) ==
  /\ s.type # ""
  /\ Block(s, "request_title_block") # ""
  /\ ParsedRequest(s).recipient # ""

\* ParseQueueForm.
QueueParses(s) ==
  /\ Block(s, "queue_name_block") # ""
  /\ Block(s, "queue_channel_block") # ""

-----------------------------------------------------------------------------
Init ==
  /\ status = [v \in View |-> "none"]
  /\ form = [v \in View |-> Nil]
  /\ picked = [v \in View |-> ""]
  /\ picks = [v \in View |-> 0]
  /\ pc = [w \in Worker |-> "idle"]
  /\ job = [w \in Worker |-> Nil]
  /\ made = {}

\* HandleSlashCommand; a modal that cannot be opened leaves no trace.
OpenForm(v) ==
  /\ status[v] = "none"
  /\ \E text \in FormCommands : form' = [form EXCEPT ![v] = FormOf(text)]
  /\ status' = [status EXCEPT ![v] = "open"]
  /\ UNCHANGED <<picked, picks, pc, job, made>>

Dismiss(v) ==
  /\ status[v] = "open"
  /\ status' = [status EXCEPT ![v] = "dismissed"]
  /\ UNCHANGED <<form, picked, picks, pc, job, made>>

\* A bug: a block action without a selected option is handled like the others.
PickTypeOrNone(w, v) ==
  /\ pc[w] = "idle"
  /\ status[v] = "open" /\ form[v].select /\ picks[v] < MaxPicks
  /\ \E type \in RecipientType \cup {""} :
       /\ picked' = [picked EXCEPT ![v] = type]
       /\ job' = [job EXCEPT ![w] = [view |-> v, type |-> type]]
  /\ picks' = [picks EXCEPT ![v] = @ + 1]
  /\ pc' = [pc EXCEPT ![w] = "update"]
  /\ UNCHANGED <<status, form, made>>

\* The user selects a type and Slack posts the block action to the handler.
PickType(w, v) ==
  /\ pc[w] = "idle"
  /\ status[v] = "open" /\ form[v].select /\ picks[v] < MaxPicks
  /\ \E type \in RecipientType :
       /\ picked' = [picked EXCEPT ![v] = type]
       /\ job' = [job EXCEPT ![w] = [view |-> v, type |-> type]]
  /\ picks' = [picks EXCEPT ![v] = @ + 1]
  /\ pc' = [pc EXCEPT ![w] = "update"]
  /\ UNCHANGED <<status, form, made>>

Return(w) ==
  /\ pc' = [pc EXCEPT ![w] = "idle"]
  /\ job' = [job EXCEPT ![w] = Nil]

\* UpdateRequestForm replaces the fields, if the modal is still there.  The
\* type shown as selected may stay or follow the form's initial option.
UpdateForm(w) ==
  /\ pc[w] = "update"
  /\ LET v == job[w].view  type == job[w].type IN
     \/ /\ status[v] \in {"open", "waiting"}
        /\ form' = [form EXCEPT ![v] = RequestForm(type)]
        /\ picked' \in {picked, [picked EXCEPT ![v] = type]}
     \/ UNCHANGED <<form, picked>>
  /\ Return(w)
  /\ UNCHANGED <<status, picks, made>>

\* The user submits what he sees.
Submit(w, v) ==
  /\ pc[w] = "idle"
  /\ status[v] = "open" /\ form[v].submit
  /\ \E values \in Values(form[v].fields) :
       job' = [job EXCEPT ![w] = Submission(v, values)]
  /\ pc' = [pc EXCEPT ![w] = "submission"]
  /\ status' = [status EXCEPT ![v] = "waiting"]
  /\ UNCHANGED <<form, picked, picks, made>>

\* Whether a submission is understood: dispatched on the callback id and
\* parsed.  An unknown id is logged and answered like a success.
Understood(s) ==
  CASE s.callback = RequestCallback -> RequestParses(s)
    [] s.callback = QueueCallback   -> QueueParses(s)
    [] OTHER                        -> TRUE

\* What is made of a submission that is understood and taken by the service.
Made(s) ==
  CASE s.callback = RequestCallback -> {[kind |-> "request", from |-> s, as |-> ParsedRequest(s)]}
    [] s.callback = QueueCallback   -> {[kind |-> "queue", from |-> s, as |-> Nil]}
    [] OTHER                        -> {}

\* handleViewSubmission: success closes the modal, an error (of the parser or
\* of the service) leaves it open.
HandleSubmission(w) ==
  /\ pc[w] = "submission"
  /\ LET s == job[w] IN
     \/ /\ Understood(s)
        /\ made' = made \cup Made(s)
        /\ status' = [status EXCEPT ![s.view] = "closed"]
     \/ /\ s.callback \in {RequestCallback, QueueCallback}
        /\ status' = [status EXCEPT ![s.view] = "open"]
        /\ UNCHANGED made
  /\ Return(w)
  /\ UNCHANGED <<form, picked, picks>>

Next ==
  \/ \E v \in View : OpenForm(v) \/ Dismiss(v)
  \/ \E w \in Worker, v \in View : PickType(w, v) \/ Submit(w, v)
  \/ \E w \in Worker : UpdateForm(w) \/ HandleSubmission(w)

Spec == Init /\ [][Next]_vars

-----------------------------------------------------------------------------
(* Properties *)

\* Modals, goroutines and the history hold what the code puts in them.
TypeOK ==
  /\ status \in [View -> Statuses]
  /\ \A v \in View :
       form[v] \in {RequestForm(type) : type \in RecipientType \cup {""}} \cup {QueueForm, Nil}
  /\ picked \in [View -> RecipientType \cup {""}]
  /\ picks \in [View -> 0..MaxPicks]
  /\ pc \in [Worker -> {"idle", "update", "submission"}]
  /\ \A w \in Worker :
       /\ pc[w] = "update" => job[w] \in [view : View, type : RecipientType]
       /\ pc[w] = "submission" => status[job[w].view] = "waiting"

\* Whichever update arrives last and whenever the user submits: a request is
\* addressed to something he chose, and of the type he had selected.
RequestsAsPicked ==
  \A m \in made :
    m.kind = "request" =>
      \/ m.as.type = "user" /\ m.as.recipient \in User
      \/ m.as.type = "channel" /\ m.as.recipient \in Channel

\* A modal that closes on submission has made what the user submitted.
ClosedMeansMade ==
  \A v \in View : status[v] = "closed" => \E m \in made : m.from.view = v

\* The form and its parser fit: once the fields are those of the selected user
\* or channel, whatever the user fills in is understood.
SettledFormsParse ==
  \A v \in View :
    status[v] = "open" /\ picked[v] \in {"user", "channel"} /\ form[v] = RequestForm(picked[v])
      => \A values \in Values(form[v].fields) : Understood(Submission(v, values))

-----------------------------------------------------------------------------
\* golang_app/README.md: "Queues can be created from any channel using
\* `/request new-queue`".  The form has the callback id of request forms, so
\* its submissions go to ParseRequestForm, which understands none.
QueueFormsAreUnderstood ==
  \A w \in Worker :
    pc[w] = "submission" /\ DOMAIN job[w].values = QueueFields => Understood(job[w])
=============================================================================
