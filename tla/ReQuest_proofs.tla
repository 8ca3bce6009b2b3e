--------------------------- MODULE ReQuest_proofs ---------------------------
(***************************************************************************)
(* Who answers, for any number of goroutines of both services, users,      *)
(* queues and requests.  What QueueManagement_proofs shows of the queues   *)
(* holds beside the other services too; here it is used by the authorizing *)
(* step, at which the answer becomes entitled.  It stays so until it is    *)
(* saved, because nobody is ever taken out of StaffSoFar.                  *)
(***************************************************************************)
EXTENDS ReQuest, QueueManagement_proofs, Integers, FiniteSetTheorems

\* The domain rules are the same in either service.
LEMMA SameRows ==
  /\ Responses!Empty = Empty
  /\ Responses!RequestRow = RequestRow
  /\ \A creator, recipient : Responses!NewRequest(creator, recipient) = NewRequest(creator, recipient)
BY DEF Responses!Empty, Empty, Responses!RequestRow, RequestRow, Responses!Recipient, Recipient,
       Responses!Status, Status, Responses!NewRequest, NewRequest

LEMMA SameRules ==
  /\ \A queue, u : Responses!CanRespondToRequests(queue, u) <=> CanRespondToRequests(queue, u)
  /\ \A key, row : Responses!SaveRequest(key, row) <=> SaveRequest(key, row)
  /\ \A table, key : Responses!Found(table, key) <=> Found(table, key)
BY DEF Responses!CanRespondToRequests, CanRespondToRequests, Responses!IsAdmin, IsAdmin,
       Responses!IsMember, IsMember, Responses!Contains, Contains,
       Responses!SaveRequest, SaveRequest, Responses!Upsert, Upsert, Responses!Found, Found

\* A row of the table, signed by somebody if it is accepted.
Signed(row) == row \in RequestRow /\ (row.status = "accepted" => row.acceptedBy # Empty)

RowsSigned == \A r \in DOMAIN requests : Signed(requests[r])

AnswersSound ==
  \A w \in Worker :
    /\ answering[w] # "idle" => answer[w] \in Responses!Call /\ Signed(copy[w])
    /\ answering[w] = "save" => Entitled(answer[w], copy[w], StaffSoFar)

DraftsKeepCreator ==
  \A e \in Editor :
    pc[e] # "idle" => /\ call[e].queue \in DOMAIN queues
                      /\ held[e].createdBy = queues[call[e].queue].createdBy

AnswersTyped ==
  /\ answering \in [Worker -> {"idle", "authorize", "save", "creator", "acceptor"}]
  /\ answer = [w \in Worker |-> answer[w]]
  /\ copy = [w \in Worker |-> copy[w]]

AllInv == /\ Inv /\ DraftsKeepCreator
          /\ RowsSigned /\ AnswersTyped /\ AnswersSound /\ AnswersWereEntitled

-----------------------------------------------------------------------------
(* The staff so far *)

LEMMA StaffIsSoFar ==
  ASSUME Inv, NEW q \in DOMAIN queues, NEW u \in User, CanRespondToRequests(queues[q], u)
  PROVE  <<q, u>> \in StaffSoFar
<1>1. \/ u = queues[q].createdBy
      \/ <<q, "admins", u>> \in appointed
      \/ <<q, "members", u>> \in appointed
  BY DEF Inv, StaffWasAppointed, CanRespondToRequests
<1>2. ASSUME NEW list, <<q, list, u>> \in appointed  PROVE <<q, u>> \in StaffSoFar
  BY <1>2 DEF StaffSoFar
<1>3. CASE u = queues[q].createdBy
  BY <1>3 DEF StaffSoFar
<1> QED
  BY <1>1, <1>2, <1>3

StaffGrows == StaffSoFar \subseteq StaffSoFar'

LEMMA StaffGrowsWith ==
  ASSUME appointed \subseteq appointed', DOMAIN queues \subseteq DOMAIN queues',
         \A q \in DOMAIN queues : queues'[q].createdBy = queues[q].createdBy
  PROVE  StaffGrows
BY DEF StaffGrows, StaffSoFar

LEMMA EntitledKept ==
  ASSUME NEW c, NEW row, NEW staff, NEW more, staff \subseteq more, Entitled(c, row, staff)
  PROVE  Entitled(c, row, more)
BY DEF Entitled

\* An answering goroutine after a step: idle, or sound.
AnswerSound(w) ==
  /\ answering[w] # "idle" => answer[w] \in Responses!Call /\ Signed(copy[w])
  /\ answering[w] = "save" => Entitled(answer[w], copy[w], StaffSoFar)

\* What the answering goroutines and the saved answers need of any step.
LEMMA AnswerKept ==
  ASSUME AllInv, StaffGrows, NEW w \in Worker,
         answering'[w] = answering[w], answer'[w] = answer[w], copy'[w] = copy[w]
  PROVE  AnswerSound(w)'
BY EntitledKept DEF AllInv, AnswersSound, AnswerSound, StaffGrows, Signed

LEMMA CommitsKept ==
  ASSUME AllInv, StaffGrows, NEW c \in commits  PROVE Entitled(c.call, c.wrote, StaffSoFar')
BY EntitledKept DEF AllInv, AnswersWereEntitled, StaffGrows

LEMMA AnswersKept ==
  ASSUME AllInv, StaffGrows, UNCHANGED <<answering, answer, copy, commits>>
  PROVE  AnswersTyped' /\ AnswersSound' /\ AnswersWereEntitled'
<1>1. AnswersTyped'
  BY DEF AllInv, AnswersTyped
<1>2. \A w \in Worker : AnswerSound(w)'
  BY AnswerKept
<1>3. AnswersSound'
  BY <1>2 DEF AnswersSound, AnswerSound
<1> QED
  BY <1>1, <1>3, CommitsKept DEF AnswersWereEntitled

\* What the queues and their editors need of a step of the answering service
\* that leaves the requests as they should be.
LEMMA ManagementKept ==
  ASSUME AllInv, UNCHANGED <<queues, managementVars>>, IsTable(requests', RequestId, RequestRow)
  PROVE  Inv' /\ DraftsKeepCreator' /\ StaffGrows
<1>1. Inv'
  BY DEF managementVars, AllInv, Inv, TypeOK, StoreTypeOK, QueuesWellStaffed, StaffWasAppointed, CopiesSound
<1>2. DraftsKeepCreator'
  BY DEF managementVars, AllInv, DraftsKeepCreator
<1>3. StaffGrows
  BY StaffGrowsWith DEF managementVars
<1> QED
  BY <1>1, <1>2, <1>3

\* A stored row that is signed keeps the requests signed and typed.
LEMMA SaveKeepsSigned ==
  ASSUME AllInv, NEW r \in RequestId, NEW row, Signed(row), SaveRequest(r, row)
  PROVE  RowsSigned' /\ IsTable(requests', RequestId, RequestRow)
<1>1. row \in RequestRow /\ IsTable(requests, RequestId, RequestRow)
  BY DEF Signed, AllInv, Inv, TypeOK, StoreTypeOK
<1>2. /\ IsTable(requests', RequestId, RequestRow)
      /\ DOMAIN requests' = DOMAIN requests \cup {r}
      /\ requests'[r] = row
      /\ \A k \in DOMAIN requests : k # r => requests'[k] = requests[k]
  BY <1>1 DEF SaveRequest, Upsert, IsTable
<1> QED
  BY <1>2 DEF AllInv, RowsSigned

-----------------------------------------------------------------------------
(* The queue service *)

\* A draft is saved, or forgotten, or made from the stored row.
LEMMA ManageKeeps ==
  ASSUME AllInv, NEW e \in Editor, Step(e)
  PROVE  Inv' /\ DraftsKeepCreator' /\ StaffGrows
<1>1. Inv'
  BY NextInv DEF AllInv, Next
<1>2. /\ pc \in [Editor -> {"idle", "check", "save"}]
      /\ call \in [Editor -> Call \cup {Nil}]
      /\ held \in [Editor -> QueueRow \cup {Nil}]
  BY DEF AllInv, Inv, TypeOK
<1>3. CASE UNCHANGED <<queues, appointed>>
  <2>1. StaffGrows
    BY <1>3, StaffGrowsWith
  <2>2. ASSUME NEW f \in Editor, pc'[f] # "idle"
        PROVE  /\ call'[f].queue \in DOMAIN queues
               /\ held'[f].createdBy = queues[call'[f].queue].createdBy
    <3>1. CASE f # e
      <4>1. pc'[f] = pc[f] /\ call'[f] = call[f] /\ held'[f] = held[f]
        BY <1>2, <3>1 DEF Step, StartEdit, GetQueueToUpdate, CheckExisting, Save, Proceed, Return
      <4> QED
        BY <2>2, <4>1 DEF AllInv, DraftsKeepCreator
    <3>2. CASE f = e
      <4>1. CASE StartEdit(e)
        <5>1. PICK c \in {d \in Call : d.op \in Edits} :
                /\ Found(queues, c.queue)
                /\ Proceed(e, "save", c, EditApplied(c, queues[c.queue]))
          BY <4>1 DEF StartEdit
        <5>2. call'[e] = c /\ held'[e] = EditApplied(c, queues[c.queue])
          BY <1>2, <5>1 DEF Proceed
        <5>3. EditApplied(c, queues[c.queue]).createdBy = queues[c.queue].createdBy
          <6>1. queues[c.queue] \in QueueRow
            BY <5>1 DEF Found, AllInv, Inv, TypeOK, StoreTypeOK, IsTable
          <6> QED
            BY <6>1 DEF EditApplied, Edits, AddAdmin, RemoveAdmin, AddMember, RemoveMember, QueueRow
        <5> QED
          BY <3>2, <5>1, <5>2, <5>3 DEF Found
      <4>2. CASE GetQueueToUpdate(e)
        <5>1. PICK c \in Call : Found(queues, c.queue) /\ Proceed(e, "check", c, queues[c.queue])
          BY <4>2 DEF GetQueueToUpdate
        <5> QED
          BY <1>2, <3>2, <5>1 DEF Proceed, Found
      <4>3. CASE CheckExisting(e)
        <5>1. Proceed(e, "save", call[e], held[e]) /\ pc[e] # "idle"
          BY <1>2, <2>2, <3>2, <4>3 DEF CheckExisting, Return
        <5> QED
          BY <1>2, <3>2, <5>1 DEF Proceed, AllInv, DraftsKeepCreator
      <4>4. CASE Save(e)
        BY <1>2, <2>2, <3>2, <4>4 DEF Save, Return
      <4> QED
        BY <4>1, <4>2, <4>3, <4>4 DEF Step
    <3> QED
      BY <3>1, <3>2
  <2> QED
    BY <1>1, <1>3, <2>1, <2>2 DEF DraftsKeepCreator
<1>4. CASE Save(e) /\ SaveQueue(call[e].queue, held[e]) /\ appointed \subseteq appointed'
  <2>1. /\ call[e].queue \in DOMAIN queues
        /\ held[e].createdBy = queues[call[e].queue].createdBy
    BY <1>4 DEF Save, AllInv, DraftsKeepCreator
  <2>2. /\ DOMAIN queues' = DOMAIN queues
        /\ \A q \in DOMAIN queues : queues'[q].createdBy = queues[q].createdBy
    BY <1>4, <2>1 DEF SaveQueue, Upsert
  <2>3. StaffGrows
    BY <1>4, <2>2, StaffGrowsWith
  <2>4. \A f \in Editor : pc'[f] # "idle" => pc[f] # "idle" /\ call'[f] = call[f] /\ held'[f] = held[f]
    BY <1>2, <1>4 DEF Save, Return
  <2> QED
    BY <1>1, <2>2, <2>3, <2>4 DEF AllInv, DraftsKeepCreator
<1> QED
  BY <1>3, <1>4 DEF Step, StartEdit, GetQueueToUpdate, CheckExisting, Save

\* A queue is made: with its creator, or with an admin besides.
LEMMA MadeQueueKeeps ==
  ASSUME AllInv, NEW q \in QueueId, ~ Found(queues, q), NEW row, SaveQueue(q, row),
         appointed \subseteq appointed', UNCHANGED <<pc, call, held>>
  PROVE  DraftsKeepCreator' /\ StaffGrows
<1>1. /\ DOMAIN queues' = DOMAIN queues \cup {q}
      /\ \A p \in DOMAIN queues : queues'[p] = queues[p]
  BY DEF SaveQueue, Upsert, Found
<1>2. DraftsKeepCreator'
  BY <1>1 DEF AllInv, DraftsKeepCreator
<1> QED
  BY <1>1, <1>2, StaffGrowsWith

\* A queue form with one further admin selected.
LEMMA SubmittedQueue ==
  ASSUME NEW creator \in User, NEW admin \in User, admin # creator
  PROVE  LET row == AddAdmin(NewQueue(creator), admin) IN
         /\ row \in QueueRow /\ WellStaffed(row) /\ row.createdBy = creator
         /\ \A u : IsAdmin(row, u) <=> u \in {creator, admin}
         /\ \A u : ~ IsMember(row, u)
<1> DEFINE new == NewQueue(creator)
<1>1. /\ new \in QueueRow /\ WellStaffed(new) /\ new.createdBy = creator
      /\ \A u : IsAdmin(new, u) <=> u = creator
      /\ \A u : ~ IsMember(new, u)
  BY NewQueueWellStaffed DEF NewQueue, IsAdmin, IsMember, Contains
<1>2. AddAdminAllowed(new, admin)
  BY <1>1 DEF AddAdminAllowed
<1> HIDE DEF new
<1>3. /\ AddAdmin(new, admin) \in QueueRow /\ WellStaffed(AddAdmin(new, admin))
      /\ AddAdmin(new, admin).createdBy = new.createdBy
      /\ \A x : IsAdmin(AddAdmin(new, admin), x) <=> IsAdmin(new, x) \/ x = admin
      /\ \A x : IsMember(AddAdmin(new, admin), x) <=> IsMember(new, x)
  BY <1>1, <1>2, AddAdminKeeps
<1> QED
  BY <1>1, <1>3 DEF new

LEMMA SubmitQueueKeeps ==
  ASSUME AllInv, NEW q \in QueueId, SubmitQueue(q)
  PROVE  Inv' /\ DraftsKeepCreator' /\ StaffGrows
<1>1. PICK creator \in User, admin \in User :
        /\ admin # creator
        /\ SaveQueue(q, AddAdmin(NewQueue(creator), admin))
        /\ appointed' = appointed \cup {<<q, "admins", admin>>}
  BY ManagementAssumption DEF SubmitQueue
<1> DEFINE row == AddAdmin(NewQueue(creator), admin)
<1>3. /\ row \in QueueRow /\ WellStaffed(row) /\ row.createdBy = creator
      /\ \A u : IsAdmin(row, u) <=> u \in {creator, admin}
      /\ \A u : ~ IsMember(row, u)
  BY <1>1, SubmittedQueue
<1> HIDE DEF row
<1>4. /\ IsTable(queues', QueueId, QueueRow)
      /\ DOMAIN queues' = DOMAIN queues \cup {q}
      /\ queues'[q] = row
      /\ \A p \in DOMAIN queues : p # q => queues'[p] = queues[p]
  BY <1>1, <1>3, SaveQueueTable DEF row, AllInv, Inv, TypeOK, StoreTypeOK
<1>5. QueuesWellStaffed'
  BY <1>3, <1>4 DEF AllInv, Inv, QueuesWellStaffed
<1>6. StaffWasAppointed'
  <2>1. ASSUME NEW p \in DOMAIN queues'  PROVE Traced(queues'[p], p, appointed')
    <3>1. CASE p = q
      BY <1>1, <1>3, <1>4, <3>1 DEF Traced
    <3>2. CASE p # q
      <4>1. p \in DOMAIN queues /\ queues'[p] = queues[p] /\ Traced(queues[p], p, appointed)
        BY <1>4, <3>2, StoredIsSound DEF AllInv
      <4> QED
        BY <1>1, <4>1 DEF Traced
    <3> QED
      BY <3>1, <3>2
  <2> QED
    BY <2>1 DEF StaffWasAppointed, Traced
<1>7. CopiesSound'
  BY <1>1 DEF SubmitQueue, AllInv, Inv, CopiesSound, Sound, Traced
<1>8. TypeOK'
  BY <1>1, <1>4 DEF SubmitQueue, AllInv, Inv, TypeOK, StoreTypeOK
<1>9. DraftsKeepCreator' /\ StaffGrows
  BY <1>1, MadeQueueKeeps DEF SubmitQueue
<1> QED
  BY <1>5, <1>6, <1>7, <1>8, <1>9 DEF Inv

-----------------------------------------------------------------------------
(* The answering service *)

\* Who passes CanAccept is entitled now, by the queue as it is stored.
LEMMA AcceptorEntitled ==
  ASSUME AllInv, NEW row \in RequestRow, NEW u \in User,
         Responses!ContextBuilt(row), Responses!CanAccept(row, Responses!QueueOf(row), u)
  PROVE  /\ u # row.createdBy
         /\ \/ row.recipient.type = "channel"
            \/ row.recipient.type = "user" /\ row.recipient.id = u
            \/ row.recipient.type = "queue" /\ <<row.recipient.id, u>> \in StaffSoFar
<1>1. CASE row.recipient.type = "queue"
  <2>1. row.recipient.id \in DOMAIN queues
    BY <1>1 DEF Responses!ContextBuilt, Responses!Found
  <2>2. u # row.createdBy /\ Responses!CanRespondToRequests(queues[row.recipient.id], u)
    BY <1>1 DEF Responses!CanAccept, Responses!QueueOf
  <2>3. CanRespondToRequests(queues[row.recipient.id], u)
    BY <2>2, SameRules
  <2> QED
    BY <1>1, <2>1, <2>2, <2>3, StaffIsSoFar DEF AllInv
<1>2. CASE row.recipient.type # "queue"
  BY <1>2 DEF Responses!CanAccept
<1> QED
  BY <1>1, <1>2

\* The authorizing step leaves a signed row that its call is entitled to save.
LEMMA AppliedEntitled ==
  ASSUME AllInv, NEW c \in Responses!Call, NEW row, Signed(row),
         Responses!ContextBuilt(row), Responses!Permitted(c, row)
  PROVE  Signed(Responses!Applied(c, row)) /\ Entitled(c, Responses!Applied(c, row), StaffSoFar)
<1>1. row \in RequestRow /\ c.user \in User /\ c.user # Empty
  BY DomainAssumption DEF Signed, Responses!Call, DomainAssumption
<1>2. CASE c.op = "accept"
  <2>1. Responses!Applied(c, row) = [row EXCEPT !.status = "accepted", !.acceptedBy = c.user]
    BY <1>2 DEF Responses!Applied, Responses!Accept
  <2>2. Responses!CanAccept(row, Responses!QueueOf(row), c.user)
    BY <1>2 DEF Responses!Permitted
  <2>3. Signed(Responses!Applied(c, row))
    <3>1. Responses!Applied(c, row) \in RequestRow
      BY <1>1, <2>1 DEF RequestRow, Status
    <3>2. Responses!Applied(c, row).acceptedBy = c.user
      BY <1>1, <2>1 DEF RequestRow
    <3> QED
      BY <1>1, <3>1, <3>2 DEF Signed
  <2>4. /\ Responses!Applied(c, row).recipient = row.recipient
        /\ Responses!Applied(c, row).createdBy = row.createdBy
    BY <1>1, <2>1 DEF RequestRow
  <2> QED
    BY <1>1, <1>2, <2>2, <2>3, <2>4, AcceptorEntitled DEF Entitled
<1>3. CASE c.op = "reject"
  <2>1. Responses!Applied(c, row) = [row EXCEPT !.status = "rejected", !.reason = c.reason]
    BY <1>3 DEF Responses!Applied, Responses!Reject
  <2>2. c.reason \in Reason
    BY <1>3 DEF Responses!Call
  <2>3. Signed(Responses!Applied(c, row))
    <3>1. Responses!Applied(c, row) \in RequestRow
      BY <1>1, <2>1, <2>2 DEF RequestRow, Status
    <3>2. Responses!Applied(c, row).status = "rejected"
      BY <1>1, <2>1 DEF RequestRow
    <3> QED
      BY <3>1, <3>2 DEF Signed
  <2>4. /\ Responses!Applied(c, row).recipient = row.recipient
        /\ Responses!Applied(c, row).createdBy = row.createdBy
        /\ Responses!Applied(c, row).acceptedBy = row.acceptedBy
    BY <1>1, <2>1 DEF RequestRow
  <2>5. CASE Responses!CanAccept(row, Responses!QueueOf(row), c.user)
    BY <1>1, <1>3, <2>3, <2>4, <2>5, AcceptorEntitled DEF Entitled
  <2>6. CASE Responses!CanComplete(row, c.user)
    BY <1>1, <1>3, <2>3, <2>4, <2>6 DEF Entitled, Signed, Responses!CanComplete, Responses!CanBeCompletedBy
  <2> QED
    BY <1>3, <2>5, <2>6 DEF Responses!Permitted, Responses!CanReject
<1>4. CASE c.op = "complete"
  <2>1. Responses!Applied(c, row) = [row EXCEPT !.status = "completed"]
    BY <1>4 DEF Responses!Applied, Responses!Complete
  <2>2. Signed(Responses!Applied(c, row))
    BY <1>1, <2>1 DEF Signed, RequestRow, Status
  <2>3. /\ Responses!Applied(c, row).createdBy = row.createdBy
        /\ Responses!Applied(c, row).acceptedBy = row.acceptedBy
    BY <1>1, <2>1 DEF RequestRow
  <2>4. Responses!CanComplete(row, c.user)
    BY <1>4 DEF Responses!Permitted
  <2> QED
    BY <1>1, <1>4, <2>2, <2>3, <2>4 DEF Entitled, Signed, Responses!CanComplete, Responses!CanBeCompletedBy
<1> QED
  BY <1>2, <1>3, <1>4 DEF Responses!Permitted

\* One goroutine goes on, or returns.
LEMMA MoveKeeps ==
  ASSUME AllInv, UNCHANGED <<queues, managementVars>>,
         RowsSigned', IsTable(requests', RequestId, RequestRow),
         NEW w \in Worker, NEW next \in {"idle", "authorize", "save", "creator", "acceptor"},
         NEW c, NEW row,
         answering' = [answering EXCEPT ![w] = next],
         answer' = [answer EXCEPT ![w] = c], copy' = [copy EXCEPT ![w] = row],
         next # "idle" => c \in Responses!Call /\ Signed(row),
         next = "save" => Entitled(c, row, StaffSoFar),
         \A d \in commits' : d \in commits \/ Entitled(d.call, d.wrote, StaffSoFar)
  PROVE  AllInv'
<1>1. Inv' /\ DraftsKeepCreator' /\ StaffGrows
  BY ManagementKept
<1>2. AnswersTyped'
  BY DEF AllInv, AnswersTyped
<1>3. ASSUME NEW u \in Worker  PROVE AnswerSound(u)'
  <2>1. CASE u = w
    <3>1. answering'[u] = next /\ answer'[u] = c /\ copy'[u] = row
      BY <2>1 DEF AllInv, AnswersTyped
    <3>2. next = "save" => Entitled(c, row, StaffSoFar')
      BY <1>1, EntitledKept DEF StaffGrows
    <3> QED
      BY <3>1, <3>2 DEF AnswerSound, Signed
  <2>2. CASE u # w
    <3>1. answering'[u] = answering[u] /\ answer'[u] = answer[u] /\ copy'[u] = copy[u]
      BY <2>2 DEF AllInv, AnswersTyped
    <3> QED
      BY <1>1, <3>1, AnswerKept
  <2> QED
    BY <2>1, <2>2
<1>4. AnswersSound'
  BY <1>3 DEF AnswersSound, AnswerSound
<1>5. AnswersWereEntitled'
  BY <1>1, EntitledKept, CommitsKept DEF AnswersWereEntitled, StaffGrows
<1> QED
  BY <1>1, <1>2, <1>4, <1>5 DEF AllInv

LEMMA ReturnKeeps ==
  ASSUME AllInv, NEW w \in Worker, Responses!Return(w),
         UNCHANGED <<requests, queues, managementVars, commits>>
  PROVE  AllInv'
<1>1. RowsSigned' /\ IsTable(requests', RequestId, RequestRow)
  BY DEF AllInv, RowsSigned, Signed, Inv, TypeOK, StoreTypeOK, IsTable
<1> QED
  BY <1>1, MoveKeeps DEF Responses!Return

LEMMA ProceedKeeps ==
  ASSUME AllInv, NEW w \in Worker, NEW next \in {"save", "creator", "acceptor"}, NEW row,
         Responses!Proceed(w, next, row), answering[w] # "idle", Signed(row),
         next = "save" => Entitled(answer[w], row, StaffSoFar),
         UNCHANGED <<queues, managementVars>>,
         RowsSigned', IsTable(requests', RequestId, RequestRow),
         \A d \in commits' : d \in commits \/ Entitled(d.call, d.wrote, StaffSoFar)
  PROVE  AllInv'
<1>1. answer[w] \in Responses!Call
  BY DEF AllInv, AnswersSound
<1>2. answer' = [answer EXCEPT ![w] = answer[w]]
  BY DEF Responses!Proceed, AllInv, AnswersTyped
<1>3. answering' = [answering EXCEPT ![w] = next] /\ copy' = [copy EXCEPT ![w] = row]
  BY DEF Responses!Proceed
<1> QED
  BY <1>1, <1>2, <1>3, MoveKeeps

LEMMA RespondKeeps ==
  ASSUME AllInv, NEW w \in Worker, Respond(w)
  PROVE  AllInv'
<1>1. UNCHANGED <<queues, managementVars>>
  BY DEF Respond, Responses!Step, Responses!Start, Responses!Authorize, Responses!Save,
         Responses!TellCreator, Responses!TellAcceptor
<1>2. UNCHANGED requests => RowsSigned' /\ IsTable(requests', RequestId, RequestRow)
  BY DEF AllInv, RowsSigned, Signed, Inv, TypeOK, StoreTypeOK, IsTable
<1>3. answering[w] # "idle" => Signed(copy[w]) /\ answer[w] \in Responses!Call
  BY DEF AllInv, AnswersSound
<1>4. CASE Responses!Start(w)
  <2>1. PICK c \in Responses!Call :
          /\ Responses!Found(requests, c.req)
          /\ answer' = [answer EXCEPT ![w] = c]
          /\ copy' = [copy EXCEPT ![w] = requests[c.req]]
    BY <1>4 DEF Responses!Start
  <2>2. Signed(requests[c.req])
    BY <2>1 DEF Responses!Found, AllInv, RowsSigned
  <2>3. answering' = [answering EXCEPT ![w] = "authorize"] /\ UNCHANGED <<requests, commits>>
    BY <1>4 DEF Responses!Start
  <2> QED
    BY <1>1, <1>2, <2>1, <2>2, <2>3, MoveKeeps
<1>5. CASE Responses!Authorize(w)
  <2>1. answering[w] = "authorize" /\ UNCHANGED <<requests, commits>>
    BY <1>5 DEF Responses!Authorize
  <2>2. CASE /\ Responses!ContextBuilt(copy[w])
             /\ Responses!Permitted(answer[w], copy[w])
             /\ Responses!Proceed(w, "save", Responses!Applied(answer[w], copy[w]))
    <3>1. /\ Signed(Responses!Applied(answer[w], copy[w]))
          /\ Entitled(answer[w], Responses!Applied(answer[w], copy[w]), StaffSoFar)
      BY <1>3, <2>1, <2>2, AppliedEntitled
    <3> QED
      BY <1>1, <1>2, <2>1, <2>2, <3>1, ProceedKeeps
  <2>3. CASE Responses!Return(w)
    BY <1>1, <2>1, <2>3, ReturnKeeps
  <2> QED
    BY <1>5, <2>2, <2>3 DEF Responses!Authorize
<1>6. CASE Responses!Save(w)
  <2>1. answering[w] = "save"
    BY <1>6 DEF Responses!Save
  <2>2. CASE /\ Responses!SaveRequest(answer[w].req, copy[w])
             /\ commits' = commits \cup {[call |-> answer[w], wrote |-> copy[w]]}
             /\ Responses!Proceed(w, "creator", copy[w])
    <3>1. SaveRequest(answer[w].req, copy[w]) /\ answer[w].req \in RequestId
      BY <1>3, <2>1, <2>2, SameRules DEF Responses!Call
    <3>2. RowsSigned' /\ IsTable(requests', RequestId, RequestRow)
      BY <1>3, <2>1, <3>1, SaveKeepsSigned
    <3>3. \A d \in commits' : d \in commits \/ Entitled(d.call, d.wrote, StaffSoFar)
      <4>1. Entitled(answer[w], copy[w], StaffSoFar)
        BY <2>1 DEF AllInv, AnswersSound
      <4> QED
        BY <2>2, <4>1
    <3> QED
      BY <1>1, <1>3, <2>1, <2>2, <3>2, <3>3, ProceedKeeps
  <2>3. CASE Responses!Return(w) /\ UNCHANGED <<requests, commits>>
    BY <1>1, <2>3, ReturnKeeps
  <2> QED
    BY <1>6, <2>2, <2>3 DEF Responses!Save
<1>7. CASE Responses!TellCreator(w)
  <2>1. /\ answering[w] = "creator" /\ UNCHANGED <<requests, commits>>
        /\ Responses!Proceed(w, "acceptor", copy[w])
    BY <1>7 DEF Responses!TellCreator
  <2> QED
    BY <1>1, <1>2, <1>3, <2>1, ProceedKeeps
<1>8. CASE Responses!TellAcceptor(w)
  <2>1. Responses!Return(w) /\ UNCHANGED <<requests, commits>>
    BY <1>8 DEF Responses!TellAcceptor
  <2> QED
    BY <1>1, <2>1, ReturnKeeps
<1> QED
  BY <1>4, <1>5, <1>6, <1>7, <1>8 DEF Respond, Responses!Step

-----------------------------------------------------------------------------
(* The services together *)

LEMMA AllInitInv == AllInit => AllInv
<1> SUFFICES ASSUME AllInit  PROVE AllInv
  OBVIOUS
<1>1. Inv
  BY InitInv DEF AllInit
<1>2. DraftsKeepCreator /\ RowsSigned
  BY DEF AllInit, Init, StoreInit, EmptyTable, DraftsKeepCreator, RowsSigned
<1>3. AnswersTyped /\ AnswersSound /\ AnswersWereEntitled
  BY DEF AllInit, AnswersTyped, AnswersSound, AnswersWereEntitled
<1> QED
  BY <1>1, <1>2, <1>3 DEF AllInv

LEMMA AllNextInv == AllInv /\ [AllNext]_allVars => AllInv'
<1> SUFFICES ASSUME AllInv, [AllNext]_allVars  PROVE AllInv'
  OBVIOUS
<1>1. UNCHANGED requests => RowsSigned'
  BY DEF AllInv, RowsSigned, Signed
<1>2. ASSUME NEW w \in Worker, Respond(w)  PROVE AllInv'
  BY <1>2, RespondKeeps
<1>3. ASSUME NEW e \in Editor, Manage(e)  PROVE AllInv'
  <2>1. Step(e) /\ UNCHANGED <<requests, responseVars>>
    BY <1>3 DEF Manage, Step, StartEdit, GetQueueToUpdate, CheckExisting, Save
  <2> QED
    BY <1>1, <2>1, ManageKeeps, AnswersKept DEF responseVars, AllInv
<1>4. ASSUME NEW q \in QueueId, MakeQueue(q)  PROVE AllInv'
  <2>1. CreateQueue(q) /\ UNCHANGED <<requests, responseVars>>
    BY <1>4 DEF MakeQueue, CreateQueue
  <2>2. Inv'
    BY <2>1, NextInv DEF AllInv, Next
  <2>3. DraftsKeepCreator' /\ StaffGrows
    BY <2>1, MadeQueueKeeps DEF CreateQueue
  <2> QED
    BY <1>1, <2>1, <2>2, <2>3, AnswersKept DEF responseVars, AllInv
<1>5. ASSUME NEW q \in QueueId, SubmitQueue(q)  PROVE AllInv'
  <2>1. UNCHANGED <<requests, responseVars>>
    BY <1>5 DEF SubmitQueue
  <2> QED
    BY <1>1, <1>5, <2>1, SubmitQueueKeeps, AnswersKept DEF responseVars, AllInv
<1>6. ASSUME NEW r \in RequestId, SubmitRequest(r)  PROVE AllInv'
  <2>1. PICK creator \in Creators, recipient \in Recipients :
          Responses!SaveRequest(r, Responses!NewRequest(creator, recipient))
    BY <1>6 DEF SubmitRequest, Responses!FormSaves
  <2>2. SaveRequest(r, NewRequest(creator, recipient))
    BY <2>1, SameRows, SameRules
  <2>3. Signed(NewRequest(creator, recipient))
    BY SharedAssumption DEF SharedAssumption, NewRequest, Signed, RequestRow, Status
  <2>4. RowsSigned' /\ IsTable(requests', RequestId, RequestRow)
    BY <2>2, <2>3, SaveKeepsSigned
  <2>5. UNCHANGED <<queues, managementVars, answering, answer, copy, commits>>
    BY <1>6 DEF SubmitRequest, Responses!FormSaves, Responses!responseVars
  <2>6. Inv' /\ DraftsKeepCreator' /\ StaffGrows
    BY <2>4, <2>5, ManagementKept
  <2> QED
    BY <2>4, <2>5, <2>6, AnswersKept DEF AllInv
<1>7. CASE CrashAll
  <2>1. /\ Crash
        /\ answering' = [w \in Worker |-> "idle"] /\ answer' = [w \in Worker |-> Nil]
        /\ copy' = [w \in Worker |-> Nil] /\ UNCHANGED <<requests, queues, appointed, commits>>
    BY <1>7 DEF CrashAll, Crash, Responses!Crash
  <2>2. Inv'
    BY <2>1, NextInv DEF AllInv, Next
  <2>3. DraftsKeepCreator'
    BY <2>1 DEF Crash, DraftsKeepCreator
  <2>4. StaffGrows
    BY <2>1, StaffGrowsWith
  <2>5. AnswersTyped' /\ AnswersSound'
    BY <2>1 DEF AnswersTyped, AnswersSound
  <2>6. AnswersWereEntitled'
    BY <2>1, <2>4, CommitsKept DEF AnswersWereEntitled
  <2> QED
    BY <1>1, <2>1, <2>2, <2>3, <2>5, <2>6 DEF AllInv
<1>8. CASE UNCHANGED allVars
  <2>1. UNCHANGED <<requests, queues, managementVars, answering, answer, copy, commits>>
    BY <1>8 DEF allVars, responseVars
  <2>2. IsTable(requests', RequestId, RequestRow)
    BY <2>1 DEF AllInv, Inv, TypeOK, StoreTypeOK, IsTable
  <2>3. Inv' /\ DraftsKeepCreator' /\ StaffGrows
    BY <2>1, <2>2, ManagementKept
  <2> QED
    BY <1>1, <2>1, <2>3, AnswersKept DEF AllInv
<1> QED
  BY <1>2, <1>3, <1>4, <1>5, <1>6, <1>7, <1>8 DEF AllNext

\* However stale the copies of queues and of requests that the two services
\* save, only those entitled to it accept, reject or complete a request.
THEOREM AnswersAreEntitled == SharedSpec => []AnswersWereEntitled
<1>1. AllInv => AnswersWereEntitled
  BY DEF AllInv
<1> QED
  BY <1>1, AllInitInv, AllNextInv, PTL DEF SharedSpec

\* What QueueService keeps of the queues it keeps beside the other services,
\* with HandleQueueFormSubmission making queues too.
THEOREM StaffStaysAppointed == SharedSpec => [](QueuesWellStaffed /\ StaffWasAppointed)
<1>1. AllInv => QueuesWellStaffed /\ StaffWasAppointed
  BY DEF AllInv, Inv
<1> QED
  BY <1>1, AllInitInv, AllNextInv, PTL DEF SharedSpec

\* And that a saved edit has its effect, and was asked for by an admin.
THEOREM SharedEditsAreEffective == SharedSpec => EditsTakeEffect
<1>1. ASSUME AllInv, [AllNext]_allVars, NEW e \in Editor, SavedBy(e)  PROVE Save(e)
  BY <1>1, OnlySavesSave
     DEF AllInv, SavedBy, AllNext, Respond, Manage, MakeQueue, SubmitQueue, SubmitRequest, CrashAll,
         CreateQueue, Crash, Responses!Crash, managementVars, allVars
<1>2. AllInv /\ [AllNext]_allVars => [\A e \in Editor : TakesEffect(e)]_vars
  BY <1>1, SaveTakesEffect DEF AllInv, TakesEffect
<1> QED
  BY <1>2, AllInitInv, AllNextInv, PTL DEF SharedSpec, EditsTakeEffect, TakesEffect

-----------------------------------------------------------------------------
(* What the answering service sees of the others *)

\* A list that repeats nobody is no longer than there are users.
LEMMA ListsAreShort ==
  ASSUME NEW S, IsFiniteSet(S), NEW list \in Seq(S), NoRepetition(list)
  PROVE  list \in SeqOf(S, Cardinality(S))
<1>1. Len(list) \in Nat /\ DOMAIN list = 1..Len(list) /\ list \in [1..Len(list) -> S]
  BY LenProperties
<1>2. list \in Injection(1..Len(list), S)
  BY <1>1 DEF NoRepetition, Injection, IsInjective
<1>3. Cardinality(1..Len(list)) <= Cardinality(S)
  BY <1>2, FS_Injection
<1>4. Cardinality(1..Len(list)) = Len(list)
  BY <1>1, FS_Interval
<1>5. Cardinality(S) \in Nat
  BY FS_CardinalityType
<1>6. Len(list) \in 0..Cardinality(S)
  BY <1>1, <1>3, <1>4, <1>5
<1> QED
  BY <1>1, <1>6 DEF SeqOf

LEMMA WellStaffedIsStaffed ==
  ASSUME NEW row \in QueueRow, WellStaffed(row)
  PROVE  row \in StaffedRows
<1>1. /\ row.admins \in Seq(User) /\ NoRepetition(row.admins)
      /\ row.members \in Seq(User) /\ NoRepetition(row.members)
  BY DEF QueueRow, WellStaffed
<1>2. row.admins \in StaffLists /\ row.members \in StaffLists
  BY <1>1, SharedAssumption, ListsAreShort DEF SharedAssumption, StaffLists
<1> QED
  BY <1>2 DEF StaffedRows, QueueRows, QueueRow

\* A saved queue that keeps its creator and whose staff is recorded, and nobody
\* else besides, is all that the answering service reckons with.
LEMMA RecordedSave ==
  ASSUME Inv, NEW q \in QueueId, NEW row \in QueueRow, WellStaffed(row),
         SaveQueue(q, row), UNCHANGED <<requests, responseVars>>,
         Found(queues, q) => row.createdBy = queues[q].createdBy,
         Traced(row, q, appointed'), appointed \subseteq appointed',
         \A a \in appointed' \ appointed :
            a[1] = q /\ a[3] \in User /\ CanRespondToRequests(row, a[3])
  PROVE  Responses!QueueSaves(q)
<1> DEFINE staff == {q} \X {u \in User : CanRespondToRequests(row, u)}
<1>1. /\ DOMAIN queues' = DOMAIN queues \cup {q}
      /\ queues'[q] = row
      /\ \A p \in DOMAIN queues : queues'[p].createdBy = queues[p].createdBy
  BY DEF SaveQueue, Upsert, Found
<1>2. row.createdBy \in User /\ CanRespondToRequests(row, row.createdBy)
  BY DEF QueueRow, WellStaffed, CanRespondToRequests
<1>3. StaffSoFar \subseteq StaffSoFar'
  BY <1>1 DEF StaffSoFar
<1>4. staff \subseteq StaffSoFar'
  <2>1. SUFFICES ASSUME NEW u \in User, CanRespondToRequests(row, u)
                 PROVE  <<q, u>> \in StaffSoFar'
    OBVIOUS
  <2>2. \/ u = row.createdBy
        \/ <<q, "admins", u>> \in appointed'
        \/ <<q, "members", u>> \in appointed'
    BY <2>1 DEF Traced, CanRespondToRequests
  <2>3. CASE u = row.createdBy
    BY <1>1, <2>3 DEF StaffSoFar
  <2>4. ASSUME NEW list, <<q, list, u>> \in appointed'  PROVE <<q, u>> \in StaffSoFar'
    BY <2>4 DEF StaffSoFar
  <2> QED
    BY <2>2, <2>3, <2>4
<1>5. StaffSoFar' \subseteq StaffSoFar \cup staff
  <2>1. ASSUME NEW a \in appointed'  PROVE <<a[1], a[3]>> \in StaffSoFar \cup staff
    BY DEF StaffSoFar
  <2>2. ASSUME NEW p \in DOMAIN queues'
        PROVE  <<p, queues'[p].createdBy>> \in StaffSoFar \cup staff
    <3>1. CASE p = q
      BY <1>1, <1>2, <3>1
    <3>2. CASE p # q
      BY <1>1, <3>2 DEF StaffSoFar
    <3> QED
      BY <3>1, <3>2
  <2> QED
    BY <2>1, <2>2 DEF StaffSoFar
<1>6. StaffSoFar' = StaffSoFar \cup staff
  BY <1>3, <1>4, <1>5
<1>7. row \in StaffedRows
  BY WellStaffedIsStaffed
<1>8. Responses!SaveQueue(q, row)
  BY DEF Responses!SaveQueue, Responses!Upsert, SaveQueue, Upsert
<1>9. staff = {q} \X {u \in User : Responses!CanRespondToRequests(row, u)}
  BY SameRules
<1> QED
  BY <1>6, <1>7, <1>8, <1>9, SameRules DEF Responses!QueueSaves, Responses!responseVars, responseVars

LEMMA ManageServes ==
  ASSUME AllInv, NEW e \in Editor, Manage(e)
  PROVE  (\E q \in QueueId : Responses!QueueSaves(q)) \/ UNCHANGED Responses!vars
<1>1. Step(e) /\ UNCHANGED <<requests, responseVars>>
  BY DEF Manage, Step, StartEdit, GetQueueToUpdate, CheckExisting, Save
<1>2. CASE UNCHANGED <<queues, appointed>>
  BY <1>1, <1>2 DEF Responses!vars, Responses!responseVars, responseVars, StaffSoFar
<1>3. CASE /\ Save(e) /\ SaveQueue(call[e].queue, held[e])
           /\ appointed' = appointed \cup Appointments(call[e])
  <2> DEFINE c == call[e]
             row == held[e]
  <2>1. Sound("save", c, row, appointed)
    BY <1>3 DEF Save, AllInv, Inv, CopiesSound
  <2>2. c.queue \in QueueId /\ row \in QueueRow /\ WellStaffed(row) /\ Traced(row, c.queue, appointed')
    BY <1>3, <2>1 DEF Sound, Call
  <2>3. row.createdBy = queues[c.queue].createdBy
    BY <1>3 DEF Save, AllInv, DraftsKeepCreator
  <2>4. ASSUME NEW a \in Appointments(c)
        PROVE  a[1] = c.queue /\ a[3] \in User /\ CanRespondToRequests(row, a[3])
    <3>1. /\ c.op \in {"AddQueueAdmin", "AddQueueMember"} /\ a[1] = c.queue /\ a[3] = c.user
      BY <2>4 DEF Appointments
    <3> QED
      BY <2>1, <3>1 DEF Sound, Effective, Edits, Call, CanRespondToRequests
  <2> HIDE DEF c, row
  <2>5. SaveQueue(c.queue, row) /\ appointed' = appointed \cup Appointments(c)
    BY <1>3 DEF c, row
  <2>6. Responses!QueueSaves(c.queue)
    BY <1>1, <2>2, <2>3, <2>4, <2>5, RecordedSave DEF AllInv
  <2> QED
    BY <2>2, <2>6
<1> QED
  BY <1>1, <1>2, <1>3 DEF Step, StartEdit, GetQueueToUpdate, CheckExisting, Save

LEMMA MakeQueueServes ==
  ASSUME AllInv, NEW q \in QueueId, MakeQueue(q)
  PROVE  Responses!QueueSaves(q)
<1>1. PICK creator \in User : SaveQueue(q, NewQueue(creator))
  BY ManagementAssumption DEF MakeQueue, CreateQueue
<1>2. /\ NewQueue(creator) \in QueueRow /\ WellStaffed(NewQueue(creator))
      /\ Traced(NewQueue(creator), q, appointed)
  BY NewQueueWellStaffed DEF NewQueue, Traced, IsAdmin, IsMember, Contains
<1>3. ~ Found(queues, q) /\ appointed' = appointed /\ UNCHANGED <<requests, responseVars>>
  BY DEF MakeQueue, CreateQueue
<1> QED
  BY <1>1, <1>2, <1>3, RecordedSave DEF AllInv

LEMMA SubmitQueueServes ==
  ASSUME AllInv, NEW q \in QueueId, SubmitQueue(q)
  PROVE  Responses!QueueSaves(q)
<1>1. PICK creator \in User, admin \in User :
        /\ admin # creator
        /\ SaveQueue(q, AddAdmin(NewQueue(creator), admin))
        /\ appointed' = appointed \cup {<<q, "admins", admin>>}
  BY ManagementAssumption DEF SubmitQueue
<1> DEFINE row == AddAdmin(NewQueue(creator), admin)
<1>2. /\ row \in QueueRow /\ WellStaffed(row) /\ row.createdBy = creator
      /\ \A u : IsAdmin(row, u) <=> u \in {creator, admin}
      /\ \A u : ~ IsMember(row, u)
  BY <1>1, SubmittedQueue
<1> HIDE DEF row
<1>3. Traced(row, q, appointed') /\ CanRespondToRequests(row, admin)
  BY <1>1, <1>2 DEF Traced, CanRespondToRequests
<1>4. ~ Found(queues, q) /\ UNCHANGED <<requests, responseVars>> /\ SaveQueue(q, row)
  BY <1>1 DEF SubmitQueue, row
<1> QED
  BY <1>1, <1>2, <1>3, <1>4, RecordedSave DEF AllInv

\* Every step of the services together is one that the answering service makes
\* or reckons with, or one it does not see.
LEMMA AllNextServes == AllInv /\ [AllNext]_allVars => [Responses!Next]_(Responses!vars)
<1> SUFFICES ASSUME AllInv, [AllNext]_allVars
             PROVE  Responses!Next \/ UNCHANGED Responses!vars
  OBVIOUS
<1>1. ASSUME NEW w \in Worker, Respond(w)  PROVE Responses!Next
  BY <1>1 DEF Respond, Responses!Next
<1>2. ASSUME NEW e \in Editor, Manage(e)  PROVE Responses!Next \/ UNCHANGED Responses!vars
  BY <1>2, ManageServes DEF Responses!Next
<1>3. ASSUME NEW q \in QueueId, MakeQueue(q) \/ SubmitQueue(q)  PROVE Responses!Next
  BY <1>3, MakeQueueServes, SubmitQueueServes DEF Responses!Next
<1>4. ASSUME NEW r \in RequestId, SubmitRequest(r)  PROVE Responses!Next
  BY <1>4 DEF SubmitRequest, Responses!Next
<1>5. CASE CrashAll
  BY <1>5 DEF CrashAll, Responses!Next
<1>6. CASE UNCHANGED allVars
  BY <1>6 DEF allVars, managementVars, responseVars, Responses!vars, Responses!responseVars, StaffSoFar
<1> QED
  BY <1>1, <1>2, <1>3, <1>4, <1>5, <1>6 DEF AllNext

LEMMA AllInitServes == AllInit => Responses!Init
BY DEF AllInit, Init, StoreInit, EmptyTable, Responses!Init, Responses!StoreInit,
       Responses!EmptyTable, StaffSoFar

\* The other services are what RequestResponse takes them for, so whatever is
\* shown of it there holds beside them too.
THEOREM OthersServeRequests == SharedSpec => ServesRequests
BY AllInitInv, AllNextInv, AllInitServes, AllNextServes, PTL
   DEF SharedSpec, ServesRequests, Responses!Spec

-----------------------------------------------------------------------------
(* What RequestResponse_proofs shows, carried over *)

Proven == INSTANCE RequestResponse_proofs
            WITH pc <- answering, call <- answer, held <- copy, staffed <- StaffSoFar,
                 StaffRows <- StaffedRows

\* RequestResponse_proofs assumes nothing that is not so here.
LEMMA ProvenAssumptions ==
  Proven!DomainAssumption /\ Proven!NilIsNoRow /\ Proven!ResponseAssumption
<1>1. Proven!Empty = Empty /\ Proven!Recipient = Recipient /\ Proven!RequestRow = RequestRow
  BY DEF Proven!Empty, Empty, Proven!Recipient, Recipient, Proven!RequestRow, RequestRow,
         Proven!Status, Status
<1>2. Proven!DomainAssumption /\ Proven!NilIsNoRow
  BY <1>1, DomainAssumption, NilIsNoRow
     DEF Proven!DomainAssumption, DomainAssumption, Proven!NilIsNoRow, NilIsNoRow
<1>3. StaffLists \subseteq Seq(User)
  BY SharedAssumption, FS_CardinalityType DEF SharedAssumption, StaffLists, SeqOf
<1>4. \A row \in StaffedRows : row \in Proven!QueueRow /\ Proven!WellStaffed(row)
  BY <1>1, <1>3 DEF StaffedRows, QueueRows, Proven!QueueRow, WellStaffed, Proven!WellStaffed,
     NoRepetition, Proven!NoRepetition, IsAdmin, Proven!IsAdmin, Contains, Proven!Contains
<1>5. Proven!ResponseAssumption
  BY <1>1, <1>4, SharedAssumption DEF Proven!ResponseAssumption, SharedAssumption
<1> QED
  BY <1>2, <1>5

\* The two instances are the same service.
LEMMA SameService == ServesRequests => Proven!Spec
<1>1. Responses!Init => Proven!Init
  BY DEF Responses!Init, Proven!Init, Responses!StoreInit, Proven!StoreInit,
         Responses!EmptyTable, Proven!EmptyTable
<1>2. \A c, row : Responses!Permitted(c, row) <=> Proven!Permitted(c, row)
  BY DEF Responses!Permitted, Proven!Permitted, Responses!CanAccept, Proven!CanAccept,
         Responses!CanReject, Proven!CanReject, Responses!CanComplete,
         Proven!CanComplete, Responses!CanBeCompletedBy, Proven!CanBeCompletedBy,
         Responses!CanRespondToRequests, Proven!CanRespondToRequests,
         Responses!IsAdmin, Proven!IsAdmin, Responses!IsMember, Proven!IsMember,
         Responses!Contains, Proven!Contains, Responses!AcceptAllowed,
         Proven!AcceptAllowed, Responses!RejectAllowed, Proven!RejectAllowed,
         Responses!CompleteAllowed, Proven!CompleteAllowed, Responses!QueueOf,
         Proven!QueueOf, Responses!Empty, Proven!Empty
<1>3. \A c, row : Responses!Applied(c, row) = Proven!Applied(c, row)
  BY DEF Responses!Applied, Proven!Applied, Responses!Accept, Proven!Accept,
         Responses!Reject, Proven!Reject, Responses!Complete, Proven!Complete
<1>4. ASSUME NEW w  PROVE Responses!Step(w) <=> Proven!Step(w)
  BY <1>2, <1>3 DEF Responses!Step, Proven!Step, Responses!Start, Proven!Start,
         Responses!Authorize, Proven!Authorize, Responses!Save, Proven!Save,
         Responses!TellCreator, Proven!TellCreator, Responses!TellAcceptor,
         Proven!TellAcceptor, Responses!Call, Proven!Call, Responses!Found,
         Proven!Found, Responses!Return, Proven!Return, Responses!Proceed,
         Proven!Proceed, Responses!ContextBuilt, Proven!ContextBuilt,
         Responses!SaveRequest, Proven!SaveRequest, Responses!Upsert, Proven!Upsert,
         Responses!Tell, Proven!Tell, Responses!NoticeDue, Proven!NoticeDue,
         Responses!NoticeTo, Proven!NoticeTo, Responses!Empty, Proven!Empty
<1>5. Responses!Crash <=> Proven!Crash
  BY DEF Responses!Crash, Proven!Crash
<1>6. ASSUME NEW r  PROVE Responses!FormSaves(r) <=> Proven!FormSaves(r)
  BY DEF Responses!FormSaves, Proven!FormSaves, Responses!Found, Proven!Found,
         Responses!SaveRequest, Proven!SaveRequest, Responses!Upsert, Proven!Upsert,
         Responses!NewRequest, Proven!NewRequest, Responses!Empty, Proven!Empty,
         Responses!responseVars, Proven!responseVars
<1>7. ASSUME NEW q  PROVE Responses!QueueSaves(q) <=> Proven!QueueSaves(q)
  BY DEF Responses!QueueSaves, Proven!QueueSaves, Responses!Found, Proven!Found,
         Responses!SaveQueue, Proven!SaveQueue, Responses!Upsert, Proven!Upsert,
         Responses!CanRespondToRequests, Proven!CanRespondToRequests,
         Responses!IsAdmin, Proven!IsAdmin, Responses!IsMember, Proven!IsMember,
         Responses!Contains, Proven!Contains, Responses!responseVars,
         Proven!responseVars
<1>8. Responses!Next <=> Proven!Next
  BY <1>4, <1>5, <1>6, <1>7 DEF Responses!Next, Proven!Next
<1>9. [Responses!Next]_(Responses!vars) => [Proven!Next]_(Proven!vars)
  BY <1>8 DEF Responses!vars, Proven!vars, Responses!responseVars, Proven!responseVars
<1> QED
  BY <1>1, <1>9, PTL DEF ServesRequests, Responses!Spec, Proven!Spec

\* Beside the other services, and so beside whatever their stale copies bring
\* back, no stored request mixes two decisions, an acceptor accepted and was
\* entitled to, no message is untrue or forgotten, and what nobody may answer
\* stays pending.
THEOREM RequestsStaySound ==
  SharedSpec => [](/\ RowsConsistent
                   /\ Responses!AcceptorReallyAccepted
                   /\ Responses!AcceptorWasEligible
                   /\ Responses!NoticesAreTrue
                   /\ Responses!DeadEndsStayPending
                   /\ Responses!NoneForgotten)
<1>1. Proven!RowsConsistent => RowsConsistent
  BY DEF Proven!RowsConsistent, RowsConsistent, Proven!Consistent, Consistent, Proven!Empty, Empty
<1>2. Proven!AcceptorReallyAccepted => Responses!AcceptorReallyAccepted
  BY DEF Proven!AcceptorReallyAccepted, Responses!AcceptorReallyAccepted, Proven!Empty, Responses!Empty
<1>3. Proven!AcceptorWasEligible => Responses!AcceptorWasEligible
  BY DEF Proven!AcceptorWasEligible, Responses!AcceptorWasEligible, Proven!Empty, Responses!Empty
<1>4. Proven!NoticesAreTrue => Responses!NoticesAreTrue
  BY DEF Proven!NoticesAreTrue, Responses!NoticesAreTrue
<1>5. Proven!DeadEndsStayPending => Responses!DeadEndsStayPending
  BY DEF Proven!DeadEndsStayPending, Responses!DeadEndsStayPending, Proven!DeadEnd,
         Responses!DeadEnd, Proven!Found, Responses!Found
<1>6. Proven!NoneForgotten => Responses!NoneForgotten
  BY DEF Proven!NoneForgotten, Responses!NoneForgotten, Proven!Unannounced,
         Responses!Unannounced, Proven!Announcing, Responses!Announcing,
         Proven!NoticeDue, Responses!NoticeDue, Proven!NoticeTo, Responses!NoticeTo,
         Proven!Empty, Responses!Empty
<1>7. SharedSpec => Proven!Spec
  BY OthersServeRequests, SameService
<1>8. Proven!Spec => []Proven!RowsConsistent
  BY ProvenAssumptions, Proven!RowsStayConsistent
<1>9. Proven!Spec => []Proven!AcceptorReallyAccepted
  BY ProvenAssumptions, Proven!AcceptorsAccepted
<1>10. Proven!Spec => []Proven!AcceptorWasEligible
  BY ProvenAssumptions, Proven!AcceptorsWereEligible
<1>11. Proven!Spec => []Proven!NoticesAreTrue
  BY ProvenAssumptions, Proven!NoticesStayTrue
<1>12. Proven!Spec => []Proven!DeadEndsStayPending
  BY ProvenAssumptions, Proven!DeadEndsAreFinal
<1>13. Proven!Spec => []Proven!NoneForgotten
  BY ProvenAssumptions, Proven!NoneIsForgotten
<1> QED
  BY <1>1, <1>2, <1>3, <1>4, <1>5, <1>6, <1>7, <1>8, <1>9, <1>10, <1>11, <1>12, <1>13, PTL

\* Nor is a decision ever taken back or skipped there.
THEOREM SharedDecisionsAreKept == SharedSpec => Responses!DecisionsStand
<1>1. SharedSpec => Proven!Spec
  BY OthersServeRequests, SameService
<1>2. Proven!Spec => Proven!DecisionsStand
  BY ProvenAssumptions, Proven!DecisionsAreKept
<1>3. [\A r \in DOMAIN requests : Proven!DecisionStands(r)]_(Proven!vars)
        => [\A r \in DOMAIN requests : Responses!DecisionStands(r)]_(Responses!vars)
  BY DEF Proven!DecisionStands, Responses!DecisionStands, Proven!vars, Responses!vars,
         Proven!responseVars, Responses!responseVars
<1>4. Proven!DecisionsStand => Responses!DecisionsStand
  BY <1>3, PTL DEF Proven!DecisionsStand, Responses!DecisionsStand
<1> QED
  BY <1>1, <1>2, <1>4
=============================================================================
