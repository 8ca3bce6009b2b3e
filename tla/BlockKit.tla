------------------------------ MODULE BlockKit ------------------------------
(***************************************************************************)
(* The messages the Node application builds for Slack (nodejs_app/src/lib/ *)
(* slack/blocks, common/buttons, ui/forms).  A builder is the condition    *)
(* under which its constructors return instead of throwing; a message is   *)
(* whether it could be built and the buttons it shows.  A button carries   *)
(* the JSON its value holds: a snapshot of a queue, or what the handler of *)
(* a request will need.  Wording, emojis and block ids are left out.       *)
(***************************************************************************)
EXTENDS Naturals, FiniteSets

CONSTANT Undefined   \* JavaScript's undefined

-----------------------------------------------------------------------------
(* Text, blocks and elements *)

\* A text object, or the bare string a caller may pass where one is wanted:
\* only the object has a text with a length.
TextObject(length) == [object |-> TRUE, length |-> length]
BareString(length) == [object |-> FALSE, length |-> length]

HeaderBlock(text)  == text.object /\ text.length <= 100
SectionBlock(text) == text.object /\ text.length <= 3000
ActionBlock(elements) == Cardinality(elements) <= 25
PlainTextInput(maxLength) == maxLength <= 3000
RadioButtons(options) == options <= 10
InputBlock(element) == element

-----------------------------------------------------------------------------
(* Buttons *)

CancelButton == [kind |-> "cancel"]
ViewReqButton(queue) == [kind |-> "view", queue |-> queue]
AddReqButton(queue) == [kind |-> "add", queue |-> queue]
DeleteQueueButton(queue) == [kind |-> "delete", queue |-> queue]
SubmitButton(queue) == [kind |-> "submit", queue |-> queue]

AcceptButton(id, row, viewer) ==
  [kind |-> "accept", request |-> id, user |-> viewer, title |-> "name",
   owner |-> row.createdBy]

\* The value of this button has neither a title nor a description.
RejectButton(id, row, viewer) ==
  [kind |-> "reject", request |-> id, user |-> viewer, title |-> Undefined,
   owner |-> row.createdBy]

-----------------------------------------------------------------------------
(* Messages *)

MessagePayload(built, buttons) ==
  [built |-> built, buttons |-> IF built THEN buttons ELSE {}]

QueueButtons(queue) ==
  {ViewReqButton(queue), AddReqButton(queue), DeleteQueueButton(queue)}

\* The answer to the list command.  No personal queue: reading its name throws.
QueueList(personal, listed) ==
  MessagePayload(/\ personal # Undefined
                 /\ HeaderBlock(TextObject(16))
                 /\ SectionBlock(TextObject(24))
                 /\ \A queue \in listed : ActionBlock(QueueButtons(queue)),
                 {ViewReqButton(personal), CancelButton}
                   \cup UNION {QueueButtons(queue) : queue \in listed})

\* The longest request the form lets a user type.
QueueMaxCharLength == 250

RequestForm(queue) ==
  MessagePayload(/\ InputBlock(PlainTextInput(QueueMaxCharLength))
                 /\ ActionBlock({SubmitButton(queue), CancelButton}),
                 {SubmitButton(queue), CancelButton})

\* The requests of a queue, each under a section with its creator (an id of at
\* most 20 characters) and its description.
RequestList(rows, viewer) ==
  MessagePayload(/\ HeaderBlock(TextObject(8))
                 /\ SectionBlock(TextObject(QueueMaxCharLength + 25)),
                 {CancelButton}
                   \cup {AcceptButton(id, rows[id], viewer) : id \in DOMAIN rows}
                   \cup {RejectButton(id, rows[id], viewer) : id \in DOMAIN rows})

\* The form of the create-queue command: its header is given a bare string.
CreateQueueForm ==
  MessagePayload(/\ HeaderBlock(BareString(26))
                 /\ InputBlock(RadioButtons(1))
                 /\ InputBlock(PlainTextInput(0))
                 /\ ActionBlock({[kind |-> "submit-new-queue"], CancelButton}),
                 {[kind |-> "submit-new-queue"], CancelButton})

\* The text of a notice: the title if there is one, else the description cut to
\* 50 characters, which throws when there is no description either.
NoticeText(button) == button.title # Undefined
=============================================================================
