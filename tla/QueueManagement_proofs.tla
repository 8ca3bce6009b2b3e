----------------------- MODULE QueueManagement_proofs -----------------------
(***************************************************************************)
(* What QueueManagement keeps true for any number of goroutines, queues    *)
(* and users, although saves overwrite each other.                         *)
(***************************************************************************)
EXTENDS QueueManagement, Domain_proofs

\* Everyone in the row but its creator is on the list by one of the `grants`.
Traced(row, q, grants) ==
  \A u \in User :
    /\ IsAdmin(row, u) => u = row.createdBy \/ <<q, "admins", u>> \in grants
    /\ IsMember(row, u) => <<q, "members", u>> \in grants

\* An edit got what it asked for.
Effective(c, row) ==
  /\ c.op = "AddQueueAdmin" => IsAdmin(row, c.user)
  /\ c.op = "RemoveQueueAdmin" => ~ IsAdmin(row, c.user)
  /\ c.op = "AddQueueMember" => IsMember(row, c.user)
  /\ c.op = "RemoveQueueMember" => ~ IsMember(row, c.user)

\* What a goroutine at `where` knows of its call and of its copy: the copy is
\* as good as a stored row once the call's own appointment is counted.
Sound(where, c, row, grants) ==
  /\ c \in Call /\ row \in QueueRow /\ WellStaffed(row)
  /\ Traced(row, c.queue, grants \cup Appointments(c))
  /\ where = "check" => c.op = "UpdateQueue"
  /\ c.op \in Edits =>
       /\ Effective(c, row)
       /\ c.by = row.createdBy \/ <<c.queue, "admins", c.by>> \in grants

CopiesSound == \A e \in Editor : pc[e] # "idle" => Sound(pc[e], call[e], held[e], appointed)

Inv == TypeOK /\ QueuesWellStaffed /\ StaffWasAppointed /\ CopiesSound

-----------------------------------------------------------------------------
\* An edit of a sound stored row, asked for by one of its admins, is sound.
LEMMA EditIsSound ==
  ASSUME NEW c \in Call, c.op \in Edits, NEW row \in QueueRow, WellStaffed(row),
         NEW grants, Traced(row, c.queue, grants),
         CanBeModifiedBy(row, c.by), EditAllowed(c, row)
  PROVE  Sound("save", c, EditApplied(c, row), grants)
<1>1. c.user \in User /\ c.by \in User
  BY DEF Call, Edits
<1>2. c.by = row.createdBy \/ <<c.queue, "admins", c.by>> \in grants
  BY <1>1 DEF CanBeModifiedBy, Traced
<1>3. CASE c.op = "AddQueueAdmin"
  <2>1. /\ EditApplied(c, row) = AddAdmin(row, c.user) /\ AddAdminAllowed(row, c.user)
        /\ Appointments(c) = {<<c.queue, "admins", c.user>>}
    BY <1>3 DEF EditAllowed, EditApplied, Appointments
  <2> QED
    BY <1>1, <1>2, <1>3, <2>1, AddAdminKeeps DEF Sound, Traced, Effective
<1>4. CASE c.op = "RemoveQueueAdmin"
  <2>1. /\ EditApplied(c, row) = RemoveAdmin(row, c.user) /\ RemoveAdminAllowed(row, c.user)
        /\ Appointments(c) = {}
    BY <1>4 DEF EditAllowed, EditApplied, Appointments
  <2> QED
    BY <1>1, <1>2, <1>4, <2>1, RemoveAdminKeeps DEF Sound, Traced, Effective
<1>5. CASE c.op = "AddQueueMember"
  <2>1. /\ EditApplied(c, row) = AddMember(row, c.user) /\ AddMemberAllowed(row, c.user)
        /\ Appointments(c) = {<<c.queue, "members", c.user>>}
    BY <1>5 DEF EditAllowed, EditApplied, Appointments
  <2> QED
    BY <1>1, <1>2, <1>5, <2>1, AddMemberKeeps DEF Sound, Traced, Effective
<1>6. CASE c.op = "RemoveQueueMember"
  <2>1. /\ EditApplied(c, row) = RemoveMember(row, c.user) /\ RemoveMemberAllowed(row, c.user)
        /\ Appointments(c) = {}
    BY <1>6 DEF EditAllowed, EditApplied, Appointments
  <2> QED
    BY <1>1, <1>2, <1>6, <2>1, RemoveMemberKeeps DEF Sound, Traced, Effective
<1> QED
  BY <1>3, <1>4, <1>5, <1>6 DEF Edits

LEMMA SaveQueueTable ==
  ASSUME NEW q \in QueueId, NEW row \in QueueRow,
         IsTable(queues, QueueId, QueueRow), SaveQueue(q, row)
  PROVE  /\ IsTable(queues', QueueId, QueueRow)
         /\ DOMAIN queues' = DOMAIN queues \cup {q}
         /\ queues'[q] = row
         /\ \A p \in DOMAIN queues : p # q => queues'[p] = queues[p]
BY DEF SaveQueue, Upsert, IsTable

\* A stored row is sound.
LEMMA StoredIsSound ==
  ASSUME Inv, NEW q \in DOMAIN queues
  PROVE  q \in QueueId /\ queues[q] \in QueueRow /\ WellStaffed(queues[q])
         /\ Traced(queues[q], q, appointed)
BY DEF Inv, TypeOK, StoreTypeOK, IsTable, QueuesWellStaffed, StaffWasAppointed, Traced

\* What one goroutine that goes on with a sound copy, or returns, leaves.
LEMMA ProceedSound ==
  ASSUME Inv, NEW e \in Editor, NEW next \in {"check", "save"}, NEW c, NEW row,
         Proceed(e, next, c, row), Sound(next, c, row, appointed),
         UNCHANGED <<requests, queues, appointed>>
  PROVE  Inv'
<1>1. TypeOK'
  BY DEF Inv, TypeOK, StoreTypeOK, Proceed, Sound
<1>2. QueuesWellStaffed' /\ StaffWasAppointed'
  BY DEF Inv, QueuesWellStaffed, StaffWasAppointed
<1>3. ASSUME NEW f \in Editor, pc'[f] # "idle"
      PROVE  Sound(pc'[f], call'[f], held'[f], appointed')
  BY <1>3 DEF Inv, TypeOK, Proceed, CopiesSound
<1> QED
  BY <1>1, <1>2, <1>3 DEF Inv, CopiesSound

LEMMA ReturnSound ==
  ASSUME Inv, NEW e \in Editor, Return(e), appointed \subseteq appointed'
  PROVE  /\ pc' \in [Editor -> {"idle", "check", "save"}]
         /\ call' \in [Editor -> Call \cup {Nil}]
         /\ held' \in [Editor -> QueueRow \cup {Nil}]
         /\ CopiesSound'
<1>1. ASSUME NEW f \in Editor, pc'[f] # "idle"
      PROVE  Sound(pc'[f], call'[f], held'[f], appointed')
  <2>1. pc'[f] = pc[f] /\ call'[f] = call[f] /\ held'[f] = held[f]
    BY <1>1 DEF Return, Inv, TypeOK
  <2>2. Sound(pc[f], call[f], held[f], appointed)
    BY <1>1, <2>1 DEF Inv, CopiesSound
  <2>3. Sound(pc[f], call[f], held[f], appointed')
    BY <2>2 DEF Sound, Traced
  <2> QED
    BY <2>1, <2>3
<1> QED
  BY <1>1 DEF Return, Inv, TypeOK, CopiesSound

-----------------------------------------------------------------------------
LEMMA InitInv == Init => Inv
<1> SUFFICES ASSUME Init  PROVE Inv
  OBVIOUS
<1>1. StoreTypeOK
  BY EmptyTableIsTable DEF Init, StoreInit, StoreTypeOK
<1> QED
  BY <1>1 DEF Init, StoreInit, EmptyTable, Inv, TypeOK, QueuesWellStaffed, StaffWasAppointed,
              CopiesSound

LEMMA NextInv == Inv /\ [Next]_vars => Inv'
<1> SUFFICES ASSUME Inv, [Next]_vars  PROVE Inv'
  OBVIOUS
<1>1. ASSUME NEW e \in Editor, StartEdit(e)  PROVE Inv'
  <2>1. PICK c \in {d \in Call : d.op \in Edits} :
          /\ Found(queues, c.queue)
          /\ CanBeModifiedBy(queues[c.queue], c.by)
          /\ EditAllowed(c, queues[c.queue])
          /\ Proceed(e, "save", c, EditApplied(c, queues[c.queue]))
    BY <1>1 DEF StartEdit
  <2>2. Sound("save", c, EditApplied(c, queues[c.queue]), appointed)
    BY <2>1, StoredIsSound, EditIsSound DEF Found
  <2> QED
    BY <1>1, <2>1, <2>2, ProceedSound DEF StartEdit
<1>2. ASSUME NEW e \in Editor, GetQueueToUpdate(e)  PROVE Inv'
  <2>1. PICK c \in {d \in Call : d.op = "UpdateQueue"} :
          Found(queues, c.queue) /\ Proceed(e, "check", c, queues[c.queue])
    BY <1>2 DEF GetQueueToUpdate
  <2>2. Sound("check", c, queues[c.queue], appointed)
    BY <2>1, StoredIsSound DEF Found, Sound, Traced, Edits
  <2> QED
    BY <1>2, <2>1, <2>2, ProceedSound DEF GetQueueToUpdate
<1>3. ASSUME NEW e \in Editor, CheckExisting(e)  PROVE Inv'
  <2>1. pc[e] = "check" /\ UNCHANGED <<requests, queues, appointed>>
        /\ Sound("check", call[e], held[e], appointed)
    BY <1>3 DEF CheckExisting, Inv, CopiesSound
  <2>2. CASE Proceed(e, "save", call[e], held[e])
    BY <2>1, <2>2, ProceedSound DEF Sound, Edits
  <2>3. CASE Return(e)
    BY <2>1, <2>3, ReturnSound DEF Inv, TypeOK, StoreTypeOK, QueuesWellStaffed, StaffWasAppointed
  <2> QED
    BY <1>3, <2>2, <2>3 DEF CheckExisting
<1>4. ASSUME NEW e \in Editor, Save(e)  PROVE Inv'
  <2>1. pc[e] = "save" /\ Return(e) /\ requests' = requests
        /\ Sound("save", call[e], held[e], appointed)
    BY <1>4 DEF Save, Inv, CopiesSound
  <2>2. CASE UNCHANGED <<queues, appointed>>
    BY <2>1, <2>2, ReturnSound DEF Inv, TypeOK, StoreTypeOK, QueuesWellStaffed, StaffWasAppointed
  <2>3. CASE SaveQueue(call[e].queue, held[e]) /\ appointed' = appointed \cup Appointments(call[e])
    <3>1. call[e].queue \in QueueId
      BY <2>1 DEF Sound, Call
    <3>2. /\ IsTable(queues', QueueId, QueueRow)
          /\ DOMAIN queues' = DOMAIN queues \cup {call[e].queue}
          /\ queues'[call[e].queue] = held[e]
          /\ \A p \in DOMAIN queues : p # call[e].queue => queues'[p] = queues[p]
      BY <2>1, <2>3, <3>1, SaveQueueTable DEF Sound, Inv, TypeOK, StoreTypeOK
    <3>3. appointed' \subseteq QueueId \X {"admins", "members"} \X User
      <4>1. CASE call[e].op = "UpdateQueue"
        BY <2>3, <4>1 DEF Appointments, Inv, TypeOK
      <4>2. CASE call[e].op \in Edits
        <5>1. call[e].user \in User
          BY <2>1, <4>2 DEF Sound, Call, Edits
        <5> QED
          BY <2>3, <3>1, <5>1 DEF Appointments, Inv, TypeOK
      <4> QED
        BY <2>1, <4>1, <4>2 DEF Sound, Call
    <3>4. QueuesWellStaffed'
      BY <2>1, <3>2 DEF Inv, QueuesWellStaffed, Sound
    <3>5. ASSUME NEW q \in DOMAIN queues'  PROVE Traced(queues'[q], q, appointed')
      <4>1. CASE q = call[e].queue
        BY <2>1, <2>3, <3>2, <4>1 DEF Sound
      <4>2. CASE q # call[e].queue
        <5>1. q \in DOMAIN queues /\ queues'[q] = queues[q] /\ Traced(queues[q], q, appointed)
          BY <3>2, <3>5, <4>2, StoredIsSound
        <5> QED
          BY <2>3, <5>1 DEF Traced
      <4> QED
        BY <4>1, <4>2
    <3>6. StaffWasAppointed'
      BY <3>5 DEF StaffWasAppointed, Traced
    <3> QED
      BY <2>1, <2>3, <3>2, <3>3, <3>4, <3>6, ReturnSound DEF Inv, TypeOK, StoreTypeOK
  <2> QED
    BY <1>4, <2>2, <2>3 DEF Save
<1>5. ASSUME NEW q \in QueueId, CreateQueue(q)  PROVE Inv'
  <2>1. PICK creator \in User : SaveQueue(q, NewQueue(creator))
    BY <1>5, ManagementAssumption DEF CreateQueue
  <2>2. /\ NewQueue(creator) \in QueueRow /\ WellStaffed(NewQueue(creator))
        /\ Traced(NewQueue(creator), q, appointed)
    BY NewQueueWellStaffed DEF NewQueue, Traced, IsAdmin, IsMember, Contains
  <2>3. /\ IsTable(queues', QueueId, QueueRow)
        /\ DOMAIN queues' = DOMAIN queues \cup {q}
        /\ queues'[q] = NewQueue(creator)
        /\ \A p \in DOMAIN queues : p # q => queues'[p] = queues[p]
    BY <2>1, <2>2, SaveQueueTable DEF Inv, TypeOK, StoreTypeOK
  <2>4. QueuesWellStaffed'
    BY <2>2, <2>3 DEF Inv, QueuesWellStaffed
  <2>5. StaffWasAppointed'
    <3>1. ASSUME NEW p \in DOMAIN queues'  PROVE Traced(queues'[p], p, appointed)
      BY <2>2, <2>3, <3>1, StoredIsSound
    <3> QED
      BY <1>5, <3>1 DEF CreateQueue, StaffWasAppointed, Traced
  <2> QED
    BY <1>5, <2>3, <2>4, <2>5 DEF CreateQueue, Inv, TypeOK, StoreTypeOK, CopiesSound
<1>6. CASE UNCHANGED vars
  BY <1>6 DEF vars, Inv, TypeOK, StoreTypeOK, QueuesWellStaffed, StaffWasAppointed, CopiesSound
<1>7. CASE Crash
  <2>1. \A e \in Editor : pc'[e] = "idle"
    BY <1>7 DEF Crash
  <2>2. TypeOK'
    BY <1>7 DEF Crash, Inv, TypeOK, StoreTypeOK
  <2> QED
    BY <1>7, <2>1, <2>2 DEF Crash, Inv, QueuesWellStaffed, StaffWasAppointed, CopiesSound
<1> QED
  BY <1>1, <1>2, <1>3, <1>4, <1>5, <1>6, <1>7 DEF Next, Step

-----------------------------------------------------------------------------
\* Tables, goroutines and history keep their types.
THEOREM TypeCorrect == Spec => []TypeOK
BY InitInv, NextInv, PTL DEF Spec, Inv

\* Whatever overwrites what, nobody is listed twice and the creator stays an
\* admin, so that there always is somebody who may edit the queue.
THEOREM QueuesStayWellStaffed == Spec => []QueuesWellStaffed
BY InitInv, NextInv, PTL DEF Spec, Inv

\* Nobody gets on a list whom no saved call put there.
THEOREM StaffIsAppointed == Spec => []StaffWasAppointed
BY InitInv, NextInv, PTL DEF Spec, Inv

TakesEffect(e) ==
  SavedBy(e) /\ call[e].op \in Edits =>
    LET c == call[e]  row == queues'[c.queue] IN
    /\ c.by = row.createdBy \/ <<c.queue, "admins", c.by>> \in appointed
    /\ c.op = "AddQueueAdmin" => IsAdmin(row, c.user)
    /\ c.op = "RemoveQueueAdmin" => ~ IsAdmin(row, c.user)
    /\ c.op = "AddQueueMember" => IsMember(row, c.user)
    /\ c.op = "RemoveQueueMember" => ~ IsMember(row, c.user)

\* A goroutine saves in no step but its own.
LEMMA OnlySavesSave ==
  ASSUME Inv, NEW e \in Editor, NEW f \in Editor, Step(f), SavedBy(e)
  PROVE  Save(e)
<1>1. e = f
  BY DEF SavedBy, Step, StartEdit, GetQueueToUpdate, CheckExisting, Save, Proceed, Return, Inv, TypeOK
<1> QED
  BY <1>1 DEF SavedBy, Step, StartEdit, GetQueueToUpdate, CheckExisting

LEMMA SaveTakesEffect ==
  ASSUME Inv, NEW e \in Editor, Save(e)
  PROVE  TakesEffect(e)
<1>1. SUFFICES ASSUME SavedBy(e), call[e].op \in Edits  PROVE TakesEffect(e)
  BY DEF TakesEffect
<1>2. SaveQueue(call[e].queue, held[e]) /\ Sound("save", call[e], held[e], appointed)
  BY <1>1 DEF SavedBy, Save, Inv, CopiesSound
<1>3. queues'[call[e].queue] = held[e]
  BY <1>2 DEF SaveQueue, Upsert
<1> QED
  BY <1>1, <1>2, <1>3 DEF TakesEffect, Sound, Effective

\* A successful save has its effect, and was asked for by an admin.
THEOREM EditsAreEffective == Spec => EditsTakeEffect
<1>1. ASSUME Inv, [Next]_vars, NEW e \in Editor, SavedBy(e)  PROVE Save(e)
  BY <1>1, OnlySavesSave DEF SavedBy, Next, CreateQueue, Crash, vars
<1>2. Inv /\ [Next]_vars => [\A e \in Editor : TakesEffect(e)]_vars
  BY <1>1, SaveTakesEffect DEF TakesEffect
<1> QED
  BY <1>2, InitInv, NextInv, PTL DEF Spec, EditsTakeEffect, TakesEffect
=============================================================================
