-------------------------- MODULE SlackForms_proofs --------------------------
(***************************************************************************)
(* What is made of forms, for any number of modals, goroutines and         *)
(* selections.  Everything a submission can say follows from the modal it  *)
(* was taken from, so the invariant says of each submission on its way     *)
(* what it says of modals (FromModal); and a modal waits for one           *)
(* submission only.                                                        *)
(***************************************************************************)
EXTENDS SlackForms, Integers, TLAPS

AnyType == RecipientType \cup {""}

Forms == {RequestForm(type) : type \in AnyType} \cup {QueueForm}

\* A submission some modal can have produced.
FromModal(s) ==
  /\ s.view \in View
  /\ s.callback = RequestCallback
  /\ s.type \in AnyType
  /\ "queue_select_block" \notin DOMAIN s.values
  /\ \A field \in DOMAIN s.values : s.values[field] \in Choices(field)

OpenedHaveForms == \A v \in View : status[v] # "none" => form[v] \in Forms

SubmissionsFromModals == \A w \in Worker : pc[w] = "submission" => FromModal(job[w])

OneAnswerEach ==
  \A w1, w2 \in Worker :
    pc[w1] = "submission" /\ pc[w2] = "submission" /\ job[w1].view = job[w2].view => w1 = w2

AreFunctions ==
  form = [v \in View |-> form[v]] /\ job = [w \in Worker |-> job[w]]

\* TypeOK in three parts: what holds variable by variable, what modals are
\* made of, and what goroutines serve.
PlainTypes ==
  /\ status \in [View -> Statuses]
  /\ picked \in [View -> AnyType]
  /\ picks \in [View -> 0..MaxPicks]
  /\ pc \in [Worker -> {"idle", "update", "submission"}]

FormsOK == \A v \in View : form[v] \in Forms \cup {Nil}

JobsOK ==
  \A w \in Worker :
    /\ pc[w] = "update" => job[w] \in [view : View, type : RecipientType]
    /\ pc[w] = "submission" => status[job[w].view] = "waiting"

Inv == /\ PlainTypes /\ FormsOK /\ JobsOK /\ AreFunctions
       /\ OpenedHaveForms /\ SubmissionsFromModals /\ OneAnswerEach
       /\ RequestsAsPicked /\ ClosedMeansMade

-----------------------------------------------------------------------------
(* Forms and their parser *)

LEMMA FormShape ==
  ASSUME NEW f \in Forms
  PROVE  f.callback = RequestCallback /\ "queue_select_block" \notin f.fields
<1>1. CASE f = QueueForm
  BY <1>1 DEF QueueForm, Modal, QueueFields
<1>2. ASSUME NEW type \in AnyType, f = RequestForm(type)
      PROVE  f.callback = RequestCallback /\ "queue_select_block" \notin f.fields
  <2>1. f.callback = RequestCallback /\ f.fields = RequestFields(type)
    BY <1>2 DEF RequestForm, Modal
  <2>2. "queue_select_block" \notin RequestFields(type)
    BY <1>2 DEF RequestFields, AnyType, RecipientType
  <2> QED
    BY <2>1, <2>2
<1> QED
  BY <1>1, <1>2 DEF Forms

LEMMA SubmittedFromModal ==
  ASSUME NEW v \in View, form[v] \in Forms, picked[v] \in AnyType,
         NEW values \in Values(form[v].fields)
  PROVE  FromModal(Submission(v, values))
<1>1. /\ DOMAIN values = form[v].fields
      /\ \A field \in form[v].fields : values[field] \in Choices(field)
  BY DEF Values
<1> QED
  BY <1>1, FormShape DEF FromModal, Submission

LEMMA ParsedAsPicked ==
  ASSUME NEW s, FromModal(s), RequestParses(s)
  PROVE  LET as == ParsedRequest(s)
         IN  \/ as.type = "user" /\ as.recipient \in User
             \/ as.type = "channel" /\ as.recipient \in Channel
<1>1. ParsedRequest(s).recipient # "" /\ s.type \in RecipientType
  BY DEF RequestParses, FromModal, AnyType
<1>2. CASE s.type = "user"
  <2>1. ParsedRequest(s).type = "user" /\ ParsedRequest(s).recipient = Block(s, "user_select_block")
    BY <1>2 DEF ParsedRequest
  <2> QED
    BY <1>1, <2>1 DEF Block, FromModal, Choices
<1>3. CASE s.type = "channel"
  <2>1. ParsedRequest(s).type = "channel" /\ ParsedRequest(s).recipient = Block(s, "channel_select_block")
    BY <1>3 DEF ParsedRequest
  <2> QED
    BY <1>1, <2>1 DEF Block, FromModal, Choices
<1>4. CASE s.type = "queue"
  <2>1. ParsedRequest(s).recipient = Block(s, "queue_select_block")
    BY <1>4 DEF ParsedRequest
  <2> QED
    BY <1>1, <2>1 DEF Block, FromModal
<1> QED
  BY <1>1, <1>2, <1>3, <1>4 DEF RecipientType

\* Whatever is made of a submission is one request, as it was picked.
LEMMA MadeOfSubmission ==
  ASSUME NEW s, FromModal(s), Understood(s)
  PROVE  /\ \E m \in Made(s) : m.from = s
         /\ \A m \in Made(s) :
              \/ m.as.type = "user" /\ m.as.recipient \in User
              \/ m.as.type = "channel" /\ m.as.recipient \in Channel
<1>1. s.callback = "request_form"
  BY DEF FromModal, RequestCallback
<1>2. Made(s) = {[kind |-> "request", from |-> s, as |-> ParsedRequest(s)]}
  BY <1>1 DEF Made, RequestCallback, QueueCallback
<1>3. RequestParses(s)
  BY <1>1 DEF Understood, RequestCallback, QueueCallback
<1> QED
  BY <1>2, <1>3, ParsedAsPicked

-----------------------------------------------------------------------------
(* The invariant *)

LEMMA TypeParts == TypeOK <=> PlainTypes /\ FormsOK /\ JobsOK
BY DEF TypeOK, PlainTypes, FormsOK, JobsOK, Forms, AnyType

LEMMA InitInv == Init => Inv
<1> SUFFICES ASSUME Init  PROVE Inv
  OBVIOUS
<1>1. MaxPicks \in Nat
  BY SlackFormsAssumption DEF SlackFormsAssumption
<1>2. PlainTypes
  <2>1. 0 \in 0..MaxPicks
    BY <1>1
  <2>2. picks \in [View -> 0..MaxPicks]
    BY <2>1 DEF Init
  <2>3. picked \in [View -> AnyType] /\ status \in [View -> Statuses]
    BY DEF Init, AnyType, Statuses
  <2>4. pc \in [Worker -> {"idle", "update", "submission"}]
    BY DEF Init
  <2> QED
    BY <2>2, <2>3, <2>4 DEF PlainTypes
<1> QED
  BY <1>2 DEF Init, Inv, FormsOK, JobsOK, AreFunctions, OpenedHaveForms, SubmissionsFromModals,
              OneAnswerEach, RequestsAsPicked, ClosedMeansMade

LEMMA NextInv == Inv /\ [Next]_vars => Inv'
<1> SUFFICES ASSUME Inv, [Next]_vars  PROVE Inv'
  OBVIOUS
<1> USE DEF Inv
<1>1. ASSUME NEW v \in View, OpenForm(v)  PROVE Inv'
  <2>1. PICK text \in FormCommands : form' = [form EXCEPT ![v] = FormOf(text)]
    BY <1>1 DEF OpenForm
  <2>2. FormOf(text) \in Forms
    <3>1. RequestForm("") \in Forms /\ QueueForm \in Forms
      BY DEF Forms, AnyType
    <3>2. FormOf(text) \in {RequestForm(""), QueueForm}
      BY DEF FormCommands, FormOf
    <3> QED
      BY <3>1, <3>2
  <2>3. /\ AreFunctions' /\ \A u \in View : form'[u] = IF u = v THEN FormOf(text) ELSE form[u]
    BY <2>1, <1>1 DEF AreFunctions, OpenForm
  <2>4. status[v] = "none" /\ \A u \in View : status'[u] = IF u = v THEN "open" ELSE status[u]
    BY <1>1 DEF OpenForm, PlainTypes
  <2>5. PlainTypes' /\ FormsOK'
    BY <1>1, <2>2, <2>3 DEF OpenForm, PlainTypes, FormsOK, Statuses
  <2>6. JobsOK'
    BY <1>1, <2>4 DEF OpenForm, JobsOK, SubmissionsFromModals, FromModal
  <2>7. OpenedHaveForms' /\ ClosedMeansMade'
    BY <1>1, <2>2, <2>3, <2>4 DEF OpenForm, OpenedHaveForms, ClosedMeansMade
  <2>8. SubmissionsFromModals' /\ OneAnswerEach' /\ RequestsAsPicked'
    BY <1>1 DEF OpenForm, SubmissionsFromModals, OneAnswerEach, RequestsAsPicked
  <2> QED
    BY <2>3, <2>5, <2>6, <2>7, <2>8
<1>2. ASSUME NEW v \in View, Dismiss(v)  PROVE Inv'
  <2>1. status[v] = "open" /\ \A u \in View : status'[u] = IF u = v THEN "dismissed" ELSE status[u]
    BY <1>2 DEF Dismiss, PlainTypes
  <2>2. PlainTypes' /\ FormsOK' /\ AreFunctions'
    BY <1>2 DEF Dismiss, PlainTypes, FormsOK, AreFunctions, Statuses
  <2>3. JobsOK'
    BY <1>2, <2>1 DEF Dismiss, JobsOK, SubmissionsFromModals, FromModal
  <2>4. OpenedHaveForms' /\ ClosedMeansMade'
    BY <1>2, <2>1 DEF Dismiss, OpenedHaveForms, ClosedMeansMade
  <2>5. SubmissionsFromModals' /\ OneAnswerEach' /\ RequestsAsPicked'
    BY <1>2 DEF Dismiss, SubmissionsFromModals, OneAnswerEach, RequestsAsPicked
  <2> QED
    BY <2>2, <2>3, <2>4, <2>5
<1>3. ASSUME NEW w \in Worker, NEW v \in View, PickType(w, v)  PROVE Inv'
  <2>1. PICK type \in RecipientType : /\ picked' = [picked EXCEPT ![v] = type]
                                      /\ job' = [job EXCEPT ![w] = [view |-> v, type |-> type]]
    BY <1>3 DEF PickType
  <2>2. picks' \in [View -> 0..MaxPicks]
    <3>1. picks[v] \in 0..MaxPicks /\ picks[v] < MaxPicks /\ MaxPicks \in Nat
      BY <1>3, SlackFormsAssumption DEF PickType, PlainTypes, SlackFormsAssumption
    <3>2. picks[v] + 1 \in 0..MaxPicks
      BY <3>1
    <3> QED
      BY <1>3, <3>2 DEF PickType, PlainTypes
  <2>3. PlainTypes' /\ FormsOK' /\ AreFunctions'
    BY <1>3, <2>1, <2>2 DEF PickType, PlainTypes, AnyType, FormsOK, AreFunctions
  <2>4. \A u \in Worker : pc'[u] = "submission" => pc[u] = "submission" /\ job'[u] = job[u]
    BY <1>3, <2>1 DEF PickType, PlainTypes, AreFunctions
  <2>5. \A u \in Worker : pc'[u] = "update" => \/ pc[u] = "update" /\ job'[u] = job[u]
                                               \/ job'[u] = [view |-> v, type |-> type]
    BY <1>3, <2>1 DEF PickType, PlainTypes, AreFunctions
  <2>6. JobsOK'
    BY <1>3, <2>4, <2>5 DEF PickType, JobsOK
  <2>7. SubmissionsFromModals' /\ OneAnswerEach'
    BY <2>4 DEF SubmissionsFromModals, OneAnswerEach, FromModal
  <2>8. OpenedHaveForms' /\ RequestsAsPicked' /\ ClosedMeansMade'
    BY <1>3 DEF PickType, OpenedHaveForms, RequestsAsPicked, ClosedMeansMade
  <2> QED
    BY <2>3, <2>6, <2>7, <2>8
<1>4. ASSUME NEW w \in Worker, NEW v \in View, Submit(w, v)  PROVE Inv'
  <2>1. PICK values \in Values(form[v].fields) :
          job' = [job EXCEPT ![w] = Submission(v, values)]
    BY <1>4 DEF Submit
  <2>2. FromModal(Submission(v, values))
    BY <1>4, SubmittedFromModal DEF Submit, OpenedHaveForms, PlainTypes
  <2>3. Submission(v, values).view = v
    BY DEF Submission
  <2>4. job'[w] = Submission(v, values) /\ pc'[w] = "submission" /\ pc[w] = "idle"
    BY <1>4, <2>1 DEF Submit, PlainTypes, AreFunctions
  <2>5. \A u \in Worker : u # w => pc'[u] = pc[u] /\ job'[u] = job[u]
    BY <1>4, <2>1 DEF Submit, PlainTypes, AreFunctions
  <2>6. \A u \in Worker : pc[u] = "submission" => job[u].view # v
    BY <1>4 DEF Submit, JobsOK
  <2>7. \A u \in View : status'[u] = IF u = v THEN "waiting" ELSE status[u]
    BY <1>4 DEF Submit, PlainTypes
  <2>8. PlainTypes' /\ FormsOK' /\ AreFunctions'
    BY <1>4, <2>1 DEF Submit, PlainTypes, FormsOK, AreFunctions, Statuses
  <2>9. JobsOK'
    <3>1. ASSUME NEW u \in Worker
          PROVE  /\ pc'[u] = "update" => job'[u] \in [view : View, type : RecipientType]
                 /\ pc'[u] = "submission" => status'[job'[u].view] = "waiting"
      <4>1. CASE u = w
        BY <2>3, <2>4, <2>7, <4>1
      <4>2. CASE u # w
        <5>1. pc'[u] = pc[u] /\ job'[u] = job[u]
          BY <2>5, <4>2
        <5>2. pc[u] = "submission" => job[u].view \in View /\ job[u].view # v
          BY <2>6 DEF SubmissionsFromModals, FromModal
        <5> QED
          BY <2>7, <5>1, <5>2 DEF JobsOK
      <4> QED
        BY <4>1, <4>2
    <3> QED
      BY <3>1 DEF JobsOK
  <2>10. SubmissionsFromModals' /\ OneAnswerEach'
    BY <2>2, <2>3, <2>4, <2>5, <2>6 DEF SubmissionsFromModals, FromModal, OneAnswerEach
  <2>11. OpenedHaveForms' /\ RequestsAsPicked' /\ ClosedMeansMade'
    BY <1>4, <2>7 DEF Submit, OpenedHaveForms, RequestsAsPicked, ClosedMeansMade
  <2> QED
    BY <2>8, <2>9, <2>10, <2>11
<1>5. ASSUME NEW w \in Worker, UpdateForm(w)  PROVE Inv'
  <2>1. job[w] \in [view : View, type : RecipientType]
    BY <1>5 DEF UpdateForm, JobsOK
  <2>2. /\ form' \in {form, [form EXCEPT ![job[w].view] = RequestForm(job[w].type)]}
        /\ picked' \in {picked, [picked EXCEPT ![job[w].view] = job[w].type]}
    BY <1>5 DEF UpdateForm
  <2>3. RequestForm(job[w].type) \in Forms
    BY <2>1 DEF Forms, AnyType
  <2>4. \A u \in Worker : pc'[u] # "idle" => pc'[u] = pc[u] /\ job'[u] = job[u]
    BY <1>5 DEF UpdateForm, Return, PlainTypes, AreFunctions
  <2>5. /\ AreFunctions' /\ picked' \in [View -> AnyType]
        /\ \A v \in View : form'[v] \in {form[v], RequestForm(job[w].type)}
    BY <1>5, <2>1, <2>2 DEF UpdateForm, Return, PlainTypes, AreFunctions, AnyType
  <2>6. PlainTypes' /\ FormsOK'
    BY <1>5, <2>3, <2>5 DEF UpdateForm, Return, PlainTypes, FormsOK
  <2>7. JobsOK'
    BY <1>5, <2>4 DEF UpdateForm, JobsOK
  <2>8. SubmissionsFromModals' /\ OneAnswerEach'
    BY <2>4 DEF SubmissionsFromModals, OneAnswerEach, FromModal
  <2>9. OpenedHaveForms' /\ RequestsAsPicked' /\ ClosedMeansMade'
    BY <1>5, <2>3, <2>5 DEF UpdateForm, OpenedHaveForms, RequestsAsPicked, ClosedMeansMade
  <2> QED
    BY <2>5, <2>6, <2>7, <2>8, <2>9
<1>6. ASSUME NEW w \in Worker, HandleSubmission(w)  PROVE Inv'
  <2> DEFINE s == job[w]
  <2>1. FromModal(s) /\ pc[w] = "submission" /\ s.view \in View
    BY <1>6 DEF HandleSubmission, SubmissionsFromModals, FromModal
  <2>2. \A u \in Worker : pc'[u] # "idle" => u # w /\ pc'[u] = pc[u] /\ job'[u] = job[u]
    BY <1>6 DEF HandleSubmission, Return, PlainTypes, AreFunctions
  <2>3. \A u \in Worker : pc'[u] = "submission" => job'[u].view # s.view
    BY <2>1, <2>2 DEF OneAnswerEach
  <2>4. PICK outcome \in {"closed", "open"} :
          /\ status' = [status EXCEPT ![s.view] = outcome]
          /\ outcome = "closed" => Understood(s) /\ made' = made \cup Made(s)
          /\ outcome = "open" => made' = made
    <3>1. \/ Understood(s) /\ made' = made \cup Made(s) /\ status' = [status EXCEPT ![s.view] = "closed"]
          \/ made' = made /\ status' = [status EXCEPT ![s.view] = "open"]
      BY <1>6 DEF HandleSubmission
    <3> QED
      BY <3>1
  <2>5. \A v \in View : status'[v] = IF v = s.view THEN outcome ELSE status[v]
    BY <2>4 DEF PlainTypes
  <2>6. PlainTypes' /\ FormsOK' /\ AreFunctions'
    BY <1>6, <2>4 DEF HandleSubmission, Return, PlainTypes, FormsOK, AreFunctions, Statuses
  <2>7. JobsOK'
    <3>1. ASSUME NEW u \in Worker, pc'[u] = "submission"  PROVE status'[job'[u].view] = "waiting"
      <4>1. pc[u] = "submission" /\ job'[u] = job[u] /\ job[u].view # s.view /\ job[u].view \in View
        BY <2>2, <2>3, <3>1 DEF SubmissionsFromModals, FromModal
      <4> QED
        BY <2>5, <4>1 DEF JobsOK
    <3>2. ASSUME NEW u \in Worker, pc'[u] = "update"
          PROVE  job'[u] \in [view : View, type : RecipientType]
      BY <2>2, <3>2 DEF JobsOK
    <3> QED
      BY <3>1, <3>2 DEF JobsOK
  <2>8. SubmissionsFromModals' /\ OneAnswerEach'
    BY <2>2 DEF SubmissionsFromModals, FromModal, OneAnswerEach
  <2>9. OpenedHaveForms'
    <3>1. status[s.view] = "waiting"
      BY <2>1 DEF JobsOK
    <3> QED
      BY <1>6, <2>5, <3>1 DEF HandleSubmission, OpenedHaveForms
  <2>10. RequestsAsPicked'
    BY <2>1, <2>4, MadeOfSubmission DEF RequestsAsPicked
  <2>11. ClosedMeansMade'
    <3>1. ASSUME NEW v \in View, status'[v] = "closed"  PROVE \E m \in made' : m.from.view = v
      <4>1. CASE v = s.view
        BY <2>1, <2>4, <2>5, <3>1, <4>1, MadeOfSubmission
      <4>2. CASE v # s.view
        BY <2>4, <2>5, <3>1, <4>2 DEF ClosedMeansMade
      <4> QED
        BY <4>1, <4>2
    <3> QED
      BY <3>1 DEF ClosedMeansMade
  <2> QED
    BY <2>6, <2>7, <2>8, <2>9, <2>10, <2>11
<1>7. CASE UNCHANGED vars
  BY <1>7 DEF vars, PlainTypes, FormsOK, JobsOK, AreFunctions, OpenedHaveForms,
              SubmissionsFromModals, FromModal, OneAnswerEach, RequestsAsPicked, ClosedMeansMade
<1> QED
  BY <1>1, <1>2, <1>3, <1>4, <1>5, <1>6, <1>7 DEF Next

LEMMA InvHolds == Spec => []Inv
BY InitInv, NextInv, PTL DEF Spec

\* Modals, goroutines and the history keep their types; what a goroutine
\* submitted for is waiting (HandleInteractions, handleViewSubmission).
THEOREM TypeCorrect == Spec => []TypeOK
<1>1. Inv => TypeOK
  BY TypeParts DEF Inv
<1> QED
  BY <1>1, InvHolds, PTL

\* Whichever updates overtake each other, a request made by handleViewSubmission
\* is addressed to something the user chose, of the type he had selected.
THEOREM RequestsAreAsPicked == Spec => []RequestsAsPicked
<1>1. Inv => RequestsAsPicked
  BY DEF Inv
<1> QED
  BY <1>1, InvHolds, PTL

\* A modal that closes on its submission has made what was submitted: with the
\* callback ids as they are, no submission is answered without being handled.
THEOREM ClosedModalsMade == Spec => []ClosedMeansMade
<1>1. Inv => ClosedMeansMade
  BY DEF Inv
<1> QED
  BY <1>1, InvHolds, PTL

-----------------------------------------------------------------------------
(* The form fits its parser: no behaviour is needed for that *)

LEMMA UserFormParses ==
  ASSUME NEW v \in View, picked[v] = "user", form[v] = RequestForm("user"),
         NEW values \in Values(form[v].fields)
  PROVE  Understood(Submission(v, values))
<1> DEFINE s == Submission(v, values)
<1>1. /\ form[v].fields = {"user_select_block", "request_title_block", "request_description_block"}
      /\ form[v].callback = RequestCallback
  BY DEF RequestForm, RequestFields, Modal
<1>2. /\ DOMAIN values = form[v].fields
      /\ values["user_select_block"] \in Choices("user_select_block")
      /\ values["request_title_block"] \in Choices("request_title_block")
  BY <1>1 DEF Values
<1>3. s.callback = RequestCallback /\ s.type = "user" /\ s.values = values
  BY <1>1 DEF Submission
<1>4. Block(s, "user_select_block") # "" /\ Block(s, "request_title_block") # ""
  BY <1>1, <1>2, <1>3, SlackFormsAssumption DEF SlackFormsAssumption, Block, Choices
<1>5. ParsedRequest(s).recipient = Block(s, "user_select_block")
  BY <1>3 DEF ParsedRequest
<1>6. RequestParses(s)
  BY <1>3, <1>4, <1>5 DEF RequestParses
<1> QED
  BY <1>3, <1>6 DEF Understood, RequestCallback, QueueCallback

LEMMA ChannelFormParses ==
  ASSUME NEW v \in View, picked[v] = "channel", form[v] = RequestForm("channel"),
         NEW values \in Values(form[v].fields)
  PROVE  Understood(Submission(v, values))
<1> DEFINE s == Submission(v, values)
<1>1. /\ form[v].fields = {"channel_select_block", "request_title_block", "request_description_block"}
      /\ form[v].callback = RequestCallback
  BY DEF RequestForm, RequestFields, Modal
<1>2. /\ DOMAIN values = form[v].fields
      /\ values["channel_select_block"] \in Choices("channel_select_block")
      /\ values["request_title_block"] \in Choices("request_title_block")
  BY <1>1 DEF Values
<1>3. s.callback = RequestCallback /\ s.type = "channel" /\ s.values = values
  BY <1>1 DEF Submission
<1>4. Block(s, "channel_select_block") # "" /\ Block(s, "request_title_block") # ""
  BY <1>1, <1>2, <1>3, SlackFormsAssumption DEF SlackFormsAssumption, Block, Choices
<1>5. ParsedRequest(s).recipient = Block(s, "channel_select_block")
  BY <1>3 DEF ParsedRequest
<1>6. RequestParses(s)
  BY <1>3, <1>4, <1>5 DEF RequestParses
<1> QED
  BY <1>3, <1>6 DEF Understood, RequestCallback, QueueCallback

\* Once the fields are those of the selected user or channel, ParseRequestForm
\* understands whatever is filled in.
THEOREM SettledFormsAreParsed == Spec => []SettledFormsParse
<1>1. SettledFormsParse
  BY UserFormParses, ChannelFormParses DEF SettledFormsParse
<1> QED
  BY <1>1, PTL
=============================================================================
