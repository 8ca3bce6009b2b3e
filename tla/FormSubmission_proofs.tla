------------------------ MODULE FormSubmission_proofs ------------------------
(***************************************************************************)
(* What submitting a form again may store, and where its card may go, for  *)
(* any number of modals, goroutines, lost answers and crashes.  The count  *)
(* of rows is inductive only together with the goroutines that may still   *)
(* store one (Savers); that a card shows the stored request rests on no    *)
(* two goroutines holding the same uuid.                                   *)
(***************************************************************************)
EXTENDS FormSubmission, Domain_proofs, Integers, FiniteSetTheorems

ModalStates == {"open", "waiting", "closed"}

Typed ==
  /\ modal \in [Form -> ModalStates]
  /\ pc \in [Worker -> {"idle", "save", "address", "render"}]
  /\ job \in [Worker -> Job \cup {Nil}]
  /\ held = [w \in Worker |-> held[w]]
  /\ lost \in [Form -> Nat]

BusyHaveJobs == \A w \in Worker : pc[w] # "idle" => job[w] \in Job

OwnKeys ==
  \A w1, w2 \in Worker :
    pc[w1] # "idle" /\ pc[w2] # "idle" /\ job[w1].key = job[w2].key => w1 = w2

\* A request about to be saved is new, and one that was saved is as it was.
NewUntilSaved ==
  \A w \in Worker :
    pc[w] = "save" /\ job[w].form \in RequestForm => job[w].key \notin DOMAIN requests

SavedAsHeld ==
  \A w \in Worker :
    pc[w] \in {"address", "render"} =>
      /\ <<job[w].form, job[w].key>> \in origin
      /\ job[w].key \in DOMAIN requests
      /\ requests[job[w].key] = held[w]

Savers(f) == {w \in Worker : pc[w] = "save" /\ job[w].form = f}

Slot(f) == IF modal[f] = "open" THEN 0 ELSE 1

Counted(f) ==
  /\ IsFiniteSet(StoredFrom(f)) /\ IsFiniteSet(Savers(f))
  /\ Cardinality(StoredFrom(f)) + Cardinality(Savers(f)) <= lost[f] + Slot(f)

AllCounted == \A f \in Form : Counted(f)

ClosedStored == \A f \in Form : modal[f] = "closed" => StoredFrom(f) # {}

Inv == /\ Typed /\ BusyHaveJobs /\ OwnKeys
       /\ NewUntilSaved /\ SavedAsHeld /\ CardsReachRecipient
       /\ AllCounted /\ ClosedStored

-----------------------------------------------------------------------------
(* What a goroutine's step leaves alone *)

Others(w) == \A u \in Worker : u # w => pc'[u] = pc[u] /\ job'[u] = job[u] /\ held'[u] = held[u]

LEMMA FormsOfJobs == \A j \in Job : j.form \in Form
BY DEF Job, Form

LEMMA AnswerEffect ==
  ASSUME Typed, NEW w \in Worker, job[w] \in Job, NEW outcome \in {"open", "closed"},
         Answer(w, outcome), UNCHANGED lost
  PROVE  /\ Typed' /\ pc'[w] = "idle" /\ Others(w)
         /\ \A f \in Form : modal'[f] = modal[f] \/ (f = job[w].form /\ modal'[f] = outcome)
<1>1. job[w].form \in Form
  BY FormsOfJobs
<1>2. /\ modal' \in [Form -> ModalStates]
      /\ \A f \in Form : modal'[f] = modal[f] \/ (f = job[w].form /\ modal'[f] = outcome)
  BY <1>1 DEF Answer, Typed, ModalStates
<1>3. /\ pc' \in [Worker -> {"idle", "save", "address", "render"}]
      /\ job' \in [Worker -> Job \cup {Nil}]
      /\ held' = [u \in Worker |-> held'[u]]
  BY DEF Answer, Typed
<1>4. pc'[w] = "idle" /\ Others(w)
  BY DEF Answer, Typed, Others
<1> QED
  BY <1>2, <1>3, <1>4 DEF Typed

LEMMA ProceedEffect ==
  ASSUME Typed, NEW w \in Worker, NEW next \in {"address", "render"},
         Proceed(w, next), UNCHANGED lost
  PROVE  /\ Typed' /\ pc'[w] = next /\ Others(w)
         /\ job' = job /\ held' = held /\ modal' = modal
BY DEF Proceed, Typed, Others

LEMMA TakeUpEffect ==
  ASSUME Typed, NEW w \in Worker, NEW f \in Form, NEW key, [form |-> f, key |-> key] \in Job,
         NEW row, TakeUp(w, f, key, row), UNCHANGED lost
  PROVE  /\ Typed' /\ pc'[w] = "save" /\ Others(w)
         /\ job'[w] = [form |-> f, key |-> key]
         /\ \A g \in Form : modal'[g] = IF g = f THEN "waiting" ELSE modal[g]
<1>1. modal' \in [Form -> ModalStates] /\ \A g \in Form : modal'[g] = IF g = f THEN "waiting" ELSE modal[g]
  BY DEF TakeUp, Typed, ModalStates
<1>2. /\ pc' \in [Worker -> {"idle", "save", "address", "render"}]
      /\ job' \in [Worker -> Job \cup {Nil}]
      /\ held' = [u \in Worker |-> held'[u]]
  BY DEF TakeUp, Typed
<1>3. pc'[w] = "save" /\ job'[w] = [form |-> f, key |-> key] /\ Others(w)
  BY DEF TakeUp, Typed, Others
<1> QED
  BY <1>1, <1>2, <1>3 DEF Typed

-----------------------------------------------------------------------------
(* Counting rows *)

\* A form whose rows and savers stay, or whose savers become fewer.
LEMMA CountedStays ==
  ASSUME Typed, Typed', NEW f \in Form, Counted(f),
         StoredFrom(f)' = StoredFrom(f), Savers(f)' \subseteq Savers(f),
         lost'[f] + Slot(f)' >= lost[f] + Slot(f)
  PROVE  Counted(f)'
<1>1. IsFiniteSet(Savers(f)') /\ Cardinality(Savers(f)') <= Cardinality(Savers(f))
  BY FS_Subset DEF Counted
<1>2. /\ Cardinality(Savers(f)') \in Nat /\ Cardinality(Savers(f)) \in Nat
      /\ Cardinality(StoredFrom(f)) \in Nat
  BY <1>1, FS_CardinalityType DEF Counted
<1>3. lost[f] \in Nat /\ lost'[f] \in Nat /\ Slot(f) \in Nat /\ Slot(f)' \in Nat
  BY DEF Typed, Slot
<1>4. /\ IsFiniteSet(StoredFrom(f))
      /\ Cardinality(StoredFrom(f)) + Cardinality(Savers(f)) <= lost[f] + Slot(f)
  BY DEF Counted
<1>5. Cardinality(StoredFrom(f)) + Cardinality(Savers(f)') <= lost'[f] + Slot(f)'
  BY <1>1, <1>2, <1>3, <1>4
<1> QED
  BY <1>1, <1>4, <1>5 DEF Counted

\* One more saver, for a modal that was open and is no longer.
LEMMA CountedTaken ==
  ASSUME Typed, Typed', NEW f \in Form, Counted(f), NEW w,
         StoredFrom(f)' = StoredFrom(f), Savers(f)' = Savers(f) \cup {w},
         lost'[f] = lost[f], Slot(f) = 0, Slot(f)' = 1
  PROVE  Counted(f)'
<1>1. IsFiniteSet(Savers(f)') /\ Cardinality(Savers(f)') <= Cardinality(Savers(f)) + 1
  <2>1. Cardinality(Savers(f)) \in Nat
    BY FS_CardinalityType DEF Counted
  <2> QED
    BY <2>1, FS_AddElement DEF Counted
<1>2. /\ Cardinality(Savers(f)') \in Nat /\ Cardinality(Savers(f)) \in Nat
      /\ Cardinality(StoredFrom(f)) \in Nat /\ lost[f] \in Nat
  BY <1>1, FS_CardinalityType DEF Counted, Typed
<1>3. /\ IsFiniteSet(StoredFrom(f))
      /\ Cardinality(StoredFrom(f)) + Cardinality(Savers(f)) <= lost[f] + Slot(f)
  BY DEF Counted
<1>4. Cardinality(StoredFrom(f)) + Cardinality(Savers(f)') <= lost'[f] + Slot(f)'
  BY <1>1, <1>2, <1>3
<1> QED
  BY <1>1, <1>3, <1>4 DEF Counted

\* A saver turns into a row.
LEMMA CountedStored ==
  ASSUME Typed, Typed', NEW f \in Form, Counted(f), NEW w \in Savers(f), NEW row,
         StoredFrom(f)' = StoredFrom(f) \cup {row}, Savers(f)' = Savers(f) \ {w},
         lost'[f] = lost[f], Slot(f)' >= Slot(f)
  PROVE  Counted(f)'
<1>1. IsFiniteSet(Savers(f)') /\ Cardinality(Savers(f)') = Cardinality(Savers(f)) - 1
  BY FS_RemoveElement DEF Counted
<1>2. IsFiniteSet(StoredFrom(f)') /\ Cardinality(StoredFrom(f)') <= Cardinality(StoredFrom(f)) + 1
  <2> DEFINE S == StoredFrom(f)
  <2>1. IsFiniteSet(S) /\ Cardinality(S) \in Nat
    BY FS_CardinalityType DEF Counted
  <2> HIDE DEF S
  <2>2. IsFiniteSet(S \cup {row}) /\ Cardinality(S \cup {row}) <= Cardinality(S) + 1
    BY <2>1, FS_AddElement
  <2> QED
    BY <2>2 DEF S
<1>3. /\ Cardinality(Savers(f)') \in Nat /\ Cardinality(Savers(f)) \in Nat
      /\ Cardinality(StoredFrom(f)) \in Nat /\ Cardinality(StoredFrom(f)') \in Nat
  BY <1>1, <1>2, FS_CardinalityType DEF Counted
<1>4. lost[f] \in Nat /\ Slot(f) \in Nat /\ Slot(f)' \in Nat
  BY DEF Typed, Slot
<1>5. Cardinality(StoredFrom(f)) + Cardinality(Savers(f)) <= lost[f] + Slot(f)
  BY DEF Counted
<1>6. Cardinality(StoredFrom(f)') + Cardinality(Savers(f)') <= lost'[f] + Slot(f)'
  BY <1>1, <1>2, <1>3, <1>4, <1>5
<1> QED
  BY <1>1, <1>2, <1>6 DEF Counted

\* A saver gives up its modal's slot, or the modal had already lost it.
LEMMA CountedFreed ==
  ASSUME Typed, Typed', NEW f \in Form, Counted(f), NEW w \in Savers(f),
         StoredFrom(f)' = StoredFrom(f), Savers(f)' = Savers(f) \ {w},
         lost'[f] = lost[f]
  PROVE  Counted(f)'
<1>1. IsFiniteSet(Savers(f)') /\ Cardinality(Savers(f)') = Cardinality(Savers(f)) - 1
  BY FS_RemoveElement DEF Counted
<1>2. /\ Cardinality(Savers(f)') \in Nat /\ Cardinality(Savers(f)) \in Nat
      /\ Cardinality(StoredFrom(f)) \in Nat
  BY <1>1, FS_CardinalityType DEF Counted
<1>3. lost[f] \in Nat /\ Slot(f) \in {0, 1} /\ Slot(f)' \in {0, 1}
  BY DEF Typed, Slot
<1>4. /\ IsFiniteSet(StoredFrom(f))
      /\ Cardinality(StoredFrom(f)) + Cardinality(Savers(f)) <= lost[f] + Slot(f)
  BY DEF Counted
<1>5. Cardinality(StoredFrom(f)) + Cardinality(Savers(f)') <= lost'[f] + Slot(f)'
  BY <1>1, <1>2, <1>3, <1>4
<1> QED
  BY <1>1, <1>4, <1>5 DEF Counted

-----------------------------------------------------------------------------
(* The invariant *)

LEMMA InitInv == Init => Inv
<1> SUFFICES ASSUME Init  PROVE Inv
  OBVIOUS
<1>1. Typed /\ BusyHaveJobs /\ OwnKeys /\ NewUntilSaved /\ SavedAsHeld
  BY DEF Init, Typed, ModalStates, BusyHaveJobs, OwnKeys, NewUntilSaved, SavedAsHeld
<1>2. CardsReachRecipient /\ ClosedStored
  BY DEF Init, CardsReachRecipient, ClosedStored
<1>3. ASSUME NEW f \in Form  PROVE Counted(f)
  <2>1. StoredFrom(f) = {} /\ Savers(f) = {}
    BY DEF Init, StoredFrom, Savers
  <2>2. lost[f] = 0 /\ Slot(f) = 0
    BY DEF Init, Slot
  <2> QED
    BY <2>1, <2>2, FS_EmptySet DEF Counted
<1> QED
  BY <1>1, <1>2, <1>3 DEF Inv, AllCounted

\* A goroutine takes up a form that was open.
LEMMA SubmissionInv ==
  ASSUME Inv, NEW w \in Worker, NEW f \in Form, NEW key, NEW row,
         [form |-> f, key |-> key] \in Job, pc[w] = "idle", modal[f] = "open",
         Fresh(key), TakeUp(w, f, key, row),
         UNCHANGED <<requests, queues, origin, cards, lost>>
  PROVE  Inv'
<1>1. /\ Typed' /\ pc'[w] = "save" /\ Others(w)
      /\ job'[w] = [form |-> f, key |-> key]
      /\ \A g \in Form : modal'[g] = IF g = f THEN "waiting" ELSE modal[g]
  BY TakeUpEffect DEF Inv
<1>2. BusyHaveJobs'
  BY <1>1 DEF Inv, BusyHaveJobs, Others
<1>3. \A u \in Worker : pc[u] # "idle" => job[u].key # key
  BY NilIsNoJob DEF Inv, BusyHaveJobs, Fresh
<1>4. OwnKeys'
  BY <1>1, <1>3 DEF Inv, OwnKeys, Others
<1>5. NewUntilSaved' /\ SavedAsHeld'
  BY <1>1 DEF Inv, NewUntilSaved, SavedAsHeld, Others, Fresh
<1>6. ClosedStored' /\ CardsReachRecipient'
  BY <1>1 DEF Inv, ClosedStored, StoredFrom, CardsReachRecipient
<1>7. ASSUME NEW g \in Form  PROVE Counted(g)'
  <2>1. Counted(g) /\ Typed /\ lost'[g] = lost[g] /\ StoredFrom(g)' = StoredFrom(g)
    BY DEF Inv, AllCounted, StoredFrom
  <2>2. CASE g = f
    <3>1. Savers(g)' = Savers(g) \cup {w}
      BY <1>1, <2>2 DEF Savers, Others
    <3>2. Slot(g) = 0 /\ Slot(g)' = 1
      BY <1>1, <2>2 DEF Slot
    <3> QED
      BY <1>1, <2>1, <3>1, <3>2, CountedTaken
  <2>3. CASE g # f
    <3>1. Savers(g)' = Savers(g)
      BY <1>1, <2>3 DEF Savers, Others
    <3>2. Slot(g)' = Slot(g) /\ lost[g] \in Nat /\ Slot(g) \in Nat
      BY <1>1, <2>1, <2>3 DEF Slot, Typed
    <3> QED
      BY <1>1, <2>1, <3>1, <3>2, CountedStays
  <2> QED
    BY <2>2, <2>3
<1> QED
  BY <1>1, <1>2, <1>4, <1>5, <1>6, <1>7 DEF Inv, AllCounted

LEMMA SaveFormInv ==
  ASSUME Inv, NEW w \in Worker, SaveForm(w)
  PROVE  Inv'
<1> DEFINE f == job[w].form
           key == job[w].key
<1>1. pc[w] = "save" /\ job[w] \in Job /\ f \in Form /\ UNCHANGED <<cards, lost>>
  BY FormsOfJobs DEF SaveForm, Inv, BusyHaveJobs
<1>2. w \in Savers(f)
  BY <1>1 DEF Savers
<1>3. CASE /\ f \in RequestForm
           /\ SaveRequest(key, held[w])
           /\ Proceed(w, IF held[w].recipient.type = "user" THEN "address" ELSE "render")
           /\ origin' = origin \cup {<<f, key>>}
           /\ UNCHANGED queues
  <2>1. PICK next \in {"address", "render"} : Proceed(w, next)
    BY <1>3
  <2>2. /\ Typed' /\ pc'[w] = next /\ Others(w)
        /\ job' = job /\ held' = held /\ modal' = modal
    BY <1>1, <2>1, ProceedEffect DEF Inv
  <2>3. /\ DOMAIN requests' = DOMAIN requests \cup {key}
        /\ requests'[key] = held[w]
        /\ \A k \in DOMAIN requests : k # key => requests'[k] = requests[k]
    BY <1>3 DEF SaveRequest, Upsert
  <2>4. key \notin DOMAIN requests
    BY <1>1, <1>3 DEF Inv, NewUntilSaved
  <2>5. \A u \in Worker : u # w /\ pc[u] # "idle" => job[u].key # key
    BY <1>1 DEF Inv, OwnKeys
  <2>6. BusyHaveJobs' /\ OwnKeys'
    BY <1>1, <2>2 DEF Inv, BusyHaveJobs, OwnKeys, Others
  <2>7. NewUntilSaved'
    BY <2>2, <2>3, <2>5 DEF Inv, NewUntilSaved, Others
  <2>8. SavedAsHeld'
    BY <1>3, <2>2, <2>3, <2>4 DEF Inv, SavedAsHeld, Others
  <2>9. CardsReachRecipient'
    BY <1>1, <2>3, <2>4 DEF Inv, CardsReachRecipient
  <2>10. ClosedStored'
    BY <1>3, <2>2 DEF Inv, ClosedStored, StoredFrom
  <2>11. ASSUME NEW g \in Form  PROVE Counted(g)'
    <3>1. Counted(g) /\ Typed /\ lost'[g] = lost[g] /\ lost[g] \in Nat
      BY <1>1 DEF Inv, AllCounted, Typed
    <3>2. Slot(g)' = Slot(g) /\ Slot(g) \in Nat
      BY <2>2 DEF Slot
    <3>3. CASE g = f
      <4>1. Savers(g)' = Savers(g) \ {w}
        BY <2>2 DEF Savers, Others
      <4>2. StoredFrom(g)' = StoredFrom(g) \cup {<<f, key>>}
        BY <1>3, <3>3 DEF StoredFrom
      <4>3. w \in Savers(g) /\ Slot(g)' >= Slot(g)
        BY <1>2, <3>2, <3>3
      <4> QED
        BY <2>2, <3>1, <4>1, <4>2, <4>3, CountedStored
    <3>4. CASE g # f
      <4>1. Savers(g)' = Savers(g) /\ StoredFrom(g)' = StoredFrom(g)
        BY <1>3, <2>2, <3>4 DEF Savers, Others, StoredFrom
      <4> QED
        BY <2>2, <3>1, <3>2, <4>1, CountedStays
    <3> QED
      BY <3>3, <3>4
  <2> QED
    BY <2>2, <2>6, <2>7, <2>8, <2>9, <2>10, <2>11 DEF Inv, AllCounted
<1>4. CASE /\ f \in QueueForm
           /\ SaveQueue(key, held[w])
           /\ Answer(w, "closed")
           /\ origin' = origin \cup {<<f, key>>}
           /\ UNCHANGED requests
  <2>1. /\ Typed' /\ pc'[w] = "idle" /\ Others(w)
        /\ \A g \in Form : modal'[g] = modal[g] \/ (g = f /\ modal'[g] = "closed")
    BY <1>1, <1>4, AnswerEffect DEF Inv
  <2>2. BusyHaveJobs' /\ OwnKeys'
    BY <2>1 DEF Inv, BusyHaveJobs, OwnKeys, Others
  <2>3. NewUntilSaved' /\ SavedAsHeld'
    BY <1>4, <2>1 DEF Inv, NewUntilSaved, SavedAsHeld, Others
  <2>4. CardsReachRecipient'
    BY <1>1, <1>4 DEF Inv, CardsReachRecipient
  <2>5. ClosedStored'
    <3>1. \A g \in Form : /\ StoredFrom(g) \subseteq StoredFrom(g)'
                          /\ g = f => <<f, key>> \in StoredFrom(g)'
      BY <1>4 DEF StoredFrom
    <3> QED
      BY <2>1, <3>1 DEF Inv, ClosedStored
  <2>6. ASSUME NEW g \in Form  PROVE Counted(g)'
    <3>1. Counted(g) /\ Typed /\ lost'[g] = lost[g] /\ lost[g] \in Nat
      BY <1>1 DEF Inv, AllCounted, Typed
    <3>2. Slot(g)' >= Slot(g) /\ Slot(g) \in Nat /\ Slot(g)' \in Nat
      BY <2>1 DEF Slot
    <3>3. CASE g = f
      <4>1. Savers(g)' = Savers(g) \ {w}
        BY <2>1 DEF Savers, Others
      <4>2. StoredFrom(g)' = StoredFrom(g) \cup {<<f, key>>}
        BY <1>4, <3>3 DEF StoredFrom
      <4> QED
        BY <1>2, <2>1, <3>1, <3>2, <3>3, <4>1, <4>2, CountedStored
    <3>4. CASE g # f
      <4>1. Savers(g)' = Savers(g) /\ StoredFrom(g)' = StoredFrom(g)
        BY <1>4, <2>1, <3>4 DEF Savers, Others, StoredFrom
      <4> QED
        BY <2>1, <3>1, <3>2, <4>1, CountedStays
    <3> QED
      BY <3>3, <3>4
  <2> QED
    BY <2>1, <2>2, <2>3, <2>4, <2>5, <2>6 DEF Inv, AllCounted
<1>5. CASE Answer(w, "open") /\ UNCHANGED <<requests, queues, origin>>
  <2>1. /\ Typed' /\ pc'[w] = "idle" /\ Others(w)
        /\ \A g \in Form : modal'[g] = modal[g] \/ (g = f /\ modal'[g] = "open")
    BY <1>1, <1>5, AnswerEffect DEF Inv
  <2>2. BusyHaveJobs' /\ OwnKeys'
    BY <2>1 DEF Inv, BusyHaveJobs, OwnKeys, Others
  <2>3. NewUntilSaved' /\ SavedAsHeld'
    BY <1>5, <2>1 DEF Inv, NewUntilSaved, SavedAsHeld, Others
  <2>4. CardsReachRecipient' /\ ClosedStored'
    BY <1>1, <1>5, <2>1 DEF Inv, CardsReachRecipient, ClosedStored, StoredFrom
  <2>5. ASSUME NEW g \in Form  PROVE Counted(g)'
    <3>1. Counted(g) /\ Typed /\ lost'[g] = lost[g] /\ StoredFrom(g)' = StoredFrom(g)
      BY <1>1, <1>5 DEF Inv, AllCounted, StoredFrom
    <3>2. CASE g = f
      <4>1. Savers(g)' = Savers(g) \ {w}
        BY <2>1 DEF Savers, Others
      <4> QED
        BY <1>2, <2>1, <3>1, <3>2, <4>1, CountedFreed
    <3>3. CASE g # f
      <4>1. Savers(g)' = Savers(g)
        BY <2>1, <3>3 DEF Savers, Others
      <4>2. Slot(g)' = Slot(g) /\ lost[g] \in Nat /\ Slot(g) \in Nat
        BY <2>1, <3>1, <3>3 DEF Slot, Typed
      <4> QED
        BY <2>1, <3>1, <4>1, <4>2, CountedStays
    <3> QED
      BY <3>2, <3>3
  <2> QED
    BY <2>1, <2>2, <2>3, <2>4, <2>5 DEF Inv, AllCounted
<1> QED
  BY <1>3, <1>4, <1>5 DEF SaveForm

\* Once the row is stored, an answer changes no table and only closes.
LEMMA ClosingInv ==
  ASSUME Inv, NEW w \in Worker, pc[w] \in {"address", "render"}, Answer(w, "closed"),
         CardsReachRecipient', UNCHANGED <<requests, queues, origin, lost>>
  PROVE  Inv'
<1>1. job[w] \in Job
  BY DEF Inv, BusyHaveJobs
<1>2. /\ Typed' /\ pc'[w] = "idle" /\ Others(w)
      /\ \A g \in Form : modal'[g] = modal[g] \/ (g = job[w].form /\ modal'[g] = "closed")
  BY <1>1, AnswerEffect DEF Inv
<1>3. BusyHaveJobs' /\ OwnKeys'
  BY <1>2 DEF Inv, BusyHaveJobs, OwnKeys, Others
<1>4. NewUntilSaved' /\ SavedAsHeld'
  BY <1>2 DEF Inv, NewUntilSaved, SavedAsHeld, Others
<1>5. ClosedStored'
  <2>1. <<job[w].form, job[w].key>> \in StoredFrom(job[w].form)
    BY DEF Inv, SavedAsHeld, StoredFrom
  <2>2. \A g \in Form : StoredFrom(g)' = StoredFrom(g)
    BY DEF StoredFrom
  <2> QED
    BY <1>2, <2>1, <2>2 DEF Inv, ClosedStored
<1>6. ASSUME NEW g \in Form  PROVE Counted(g)'
  <2>1. Counted(g) /\ Typed /\ lost'[g] = lost[g] /\ lost[g] \in Nat
    BY DEF Inv, AllCounted, Typed
  <2>2. Savers(g)' \subseteq Savers(g) /\ StoredFrom(g)' = StoredFrom(g)
    BY <1>2 DEF Savers, Others, StoredFrom
  <2>3. Slot(g)' >= Slot(g) /\ Slot(g) \in Nat /\ Slot(g)' \in Nat
    BY <1>2 DEF Slot
  <2>4. lost'[g] + Slot(g)' >= lost[g] + Slot(g)
    BY <2>1, <2>3
  <2> QED
    BY <1>2, <2>1, <2>2, <2>4, CountedStays
<1> QED
  BY <1>2, <1>3, <1>4, <1>5, <1>6 DEF Inv, AllCounted

\* Giving up and crashing open waiting modals at the cost of a lost answer;
\* what goroutines remain keep their forms.
LEMMA LosingInv ==
  ASSUME Inv, Typed', UNCHANGED <<requests, queues, origin, cards>>,
         \A w \in Worker : pc'[w] # "idle" => pc'[w] = pc[w] /\ job'[w] = job[w] /\ held'[w] = held[w],
         \A f \in Form : \/ modal'[f] = modal[f] /\ lost'[f] = lost[f]
                         \/ modal'[f] = "open" /\ lost'[f] = lost[f] + 1
  PROVE  Inv'
<1>1. BusyHaveJobs' /\ OwnKeys'
  BY DEF Inv, BusyHaveJobs, OwnKeys
<1>2. NewUntilSaved' /\ SavedAsHeld'
  BY DEF Inv, NewUntilSaved, SavedAsHeld
<1>3. CardsReachRecipient' /\ ClosedStored'
  BY DEF Inv, CardsReachRecipient, ClosedStored, StoredFrom
<1>4. ASSUME NEW f \in Form  PROVE Counted(f)'
  <2>1. Counted(f) /\ Typed /\ lost[f] \in Nat
    BY DEF Inv, AllCounted, Typed
  <2>2. Savers(f)' \subseteq Savers(f) /\ StoredFrom(f)' = StoredFrom(f)
    BY DEF Savers, StoredFrom
  <2>3. Slot(f) \in {0, 1} /\ Slot(f)' \in {0, 1} /\ (modal'[f] = modal[f] => Slot(f)' = Slot(f))
    BY DEF Slot
  <2>4. lost'[f] + Slot(f)' >= lost[f] + Slot(f)
    BY <2>1, <2>3
  <2> QED
    BY <2>1, <2>2, <2>4, CountedStays
<1> QED
  BY <1>1, <1>2, <1>3, <1>4 DEF Inv, AllCounted

LEMMA NextInv == Inv /\ [Next]_vars => Inv'
<1> SUFFICES ASSUME Inv, [Next]_vars  PROVE Inv'
  OBVIOUS
<1>1. ASSUME NEW w \in Worker, NEW f \in RequestForm, SubmitRequest(w, f)  PROVE Inv'
  <2>1. PICK key \in RequestId, creator \in Creators, recipient \in Recipients :
          Fresh(key) /\ TakeUp(w, f, key, NewRequest(creator, recipient))
    BY <1>1 DEF SubmitRequest
  <2>2. f \in Form /\ [form |-> f, key |-> key] \in Job
    BY DEF Form, Job
  <2> QED
    BY <1>1, <2>1, <2>2, SubmissionInv DEF SubmitRequest
<1>2. ASSUME NEW w \in Worker, NEW f \in QueueForm, SubmitQueue(w, f)  PROVE Inv'
  <2>1. PICK key \in QueueId, creator \in Creators, channel \in Channel, chosen \in AdminChoices :
          Fresh(key) /\ TakeUp(w, f, key, QueueOfForm(creator, channel, chosen))
    BY <1>2 DEF SubmitQueue
  <2>2. f \in Form /\ [form |-> f, key |-> key] \in Job
    BY DEF Form, Job
  <2> QED
    BY <1>2, <2>1, <2>2, SubmissionInv DEF SubmitQueue
<1>3. ASSUME NEW w \in Worker, SaveForm(w)  PROVE Inv'
  BY <1>3, SaveFormInv
<1>4. ASSUME NEW w \in Worker, OpenConversation(w)  PROVE Inv'
  <2>1. pc[w] = "address" /\ UNCHANGED <<requests, queues, origin, cards, lost>>
    BY <1>4 DEF OpenConversation
  <2>2. CardsReachRecipient'
    BY <2>1 DEF Inv, CardsReachRecipient
  <2>3. CASE Proceed(w, "render")
    <3>1. /\ Typed' /\ pc'[w] = "render" /\ Others(w)
          /\ job' = job /\ held' = held /\ modal' = modal
      BY <2>1, <2>3, ProceedEffect DEF Inv
    <3>2. BusyHaveJobs' /\ OwnKeys'
      BY <2>1, <3>1 DEF Inv, BusyHaveJobs, OwnKeys, Others
    <3>3. NewUntilSaved' /\ SavedAsHeld'
      BY <2>1, <3>1 DEF Inv, NewUntilSaved, SavedAsHeld, Others
    <3>4. ClosedStored'
      BY <2>1, <3>1 DEF Inv, ClosedStored, StoredFrom
    <3>5. ASSUME NEW g \in Form  PROVE Counted(g)'
      <4>1. Savers(g)' \subseteq Savers(g) /\ StoredFrom(g)' = StoredFrom(g)
        BY <2>1, <3>1 DEF Savers, Others, StoredFrom
      <4>2. Counted(g) /\ Typed /\ lost'[g] + Slot(g)' >= lost[g] + Slot(g)
        BY <2>1, <3>1 DEF Inv, AllCounted, Typed, Slot
      <4> QED
        BY <3>1, <4>1, <4>2, CountedStays
    <3> QED
      BY <2>2, <3>1, <3>2, <3>3, <3>4, <3>5 DEF Inv, AllCounted
  <2>4. CASE Answer(w, "closed")
    BY <2>1, <2>2, <2>4, ClosingInv
  <2> QED
    BY <1>4, <2>3, <2>4 DEF OpenConversation
<1>5. ASSUME NEW w \in Worker, Render(w)  PROVE Inv'
  <2>1. pc[w] = "render" /\ Answer(w, "closed") /\ UNCHANGED <<requests, queues, origin, lost>>
    BY <1>5 DEF Render
  <2>2. job[w].key \in DOMAIN requests /\ requests[job[w].key] = held[w]
    BY <2>1 DEF Inv, SavedAsHeld
  <2>3. \A c \in cards' : c \in cards \/ c = [req |-> job[w].key, place |-> PlaceOf(held[w])]
    BY <1>5 DEF Render
  <2>4. CardsReachRecipient'
    BY <2>1, <2>2, <2>3 DEF Inv, CardsReachRecipient, PlaceOf
  <2> QED
    BY <2>1, <2>4, ClosingInv
<1>6. ASSUME NEW f \in Form, GiveUp(f)  PROVE Inv'
  <2>1. Typed'
    BY <1>6 DEF GiveUp, Inv, Typed, ModalStates
  <2>2. \A g \in Form : \/ modal'[g] = modal[g] /\ lost'[g] = lost[g]
                        \/ modal'[g] = "open" /\ lost'[g] = lost[g] + 1
    BY <1>6 DEF GiveUp, Inv, Typed
  <2> QED
    BY <1>6, <2>1, <2>2, LosingInv DEF GiveUp
<1>7. CASE Crash
  <2>1. \A g \in Form : /\ modal'[g] = IF modal[g] = "waiting" THEN "open" ELSE modal[g]
                        /\ lost'[g] = IF modal[g] = "waiting" THEN lost[g] + 1 ELSE lost[g]
    BY <1>7 DEF Crash
  <2>2. Typed'
    <3>1. modal' \in [Form -> ModalStates] /\ lost' \in [Form -> Nat]
      BY <1>7 DEF Crash, Inv, Typed, ModalStates
    <3> QED
      BY <1>7, <3>1 DEF Crash, Typed
  <2>3. \A w \in Worker : pc'[w] = "idle"
    BY <1>7 DEF Crash
  <2>4. UNCHANGED <<requests, queues, origin, cards>>
    BY <1>7 DEF Crash
  <2> QED
    BY <2>1, <2>2, <2>3, <2>4, LosingInv
<1>8. CASE UNCHANGED vars
  <2>1. Typed' /\ UNCHANGED <<requests, queues, origin, cards, pc, job, held, modal, lost>>
    BY <1>8 DEF vars, formVars, Inv, Typed
  <2> QED
    BY <2>1, LosingInv
<1> QED
  BY <1>1, <1>2, <1>3, <1>4, <1>5, <1>6, <1>7, <1>8 DEF Next

LEMMA InvHolds == Spec => []Inv
BY InitInv, NextInv, PTL DEF Spec

\* Submitting again after an error answer of handleViewSubmission stores no
\* duplicate, and a modal that closed was stored, whatever Slack's patience and
\* however often the process crashes.
THEOREM OneRowEach == Spec => []OneRowPerSubmission
<1>1. Inv => OneRowPerSubmission
  <2> SUFFICES ASSUME Inv, NEW f \in Form
               PROVE  /\ modal[f] = "closed" => StoredFrom(f) # {}
                      /\ Cardinality(StoredFrom(f)) <= lost[f] + (IF modal[f] = "open" THEN 0 ELSE 1)
    BY DEF OneRowPerSubmission
  <2>1. Counted(f) /\ lost[f] \in Nat
    BY DEF Inv, AllCounted, Typed
  <2>2. Cardinality(StoredFrom(f)) \in Nat /\ Cardinality(Savers(f)) \in Nat
    BY <2>1, FS_CardinalityType DEF Counted
  <2>3. Cardinality(StoredFrom(f)) <= lost[f] + Slot(f)
    BY <2>1, <2>2 DEF Counted, Slot
  <2> QED
    BY <2>3 DEF Inv, ClosedStored, Slot
<1> QED
  BY <1>1, InvHolds, PTL

\* RenderRequestNotification shows a stored request, and a user's or channel's
\* card never goes anywhere else.
THEOREM CardsAreWellPlaced == Spec => []CardsReachRecipient
<1>1. Inv => CardsReachRecipient
  BY DEF Inv
<1> QED
  BY <1>1, InvHolds, PTL

-----------------------------------------------------------------------------
(* The rows that are stored *)

\* Whoever a queue form selects, however often and in whatever order: the new
\* queue has the creator and those selected for admins, each once.
LEMMA QueueOfFormStaff ==
  ASSUME NEW creator \in User, NEW channel \in Channel, NEW chosen \in Seq(User)
  PROVE  LET row == QueueOfForm(creator, channel, chosen) IN
         /\ row \in QueueRow /\ row.createdBy = creator /\ row.channel = channel
         /\ WellStaffed(row)
         /\ \A x : IsAdmin(row, x) <=> x = creator \/ Contains(chosen, x)
         /\ \A x : ~ IsMember(row, x)
<1> DEFINE n == Len(chosen)
           start == [NewQueue(creator) EXCEPT !.channel = channel]
           add(queue, u) == IF u # creator /\ AddAdminAllowed(queue, u)
                              THEN AddAdmin(queue, u) ELSE queue
           step == [i \in 1..n |-> [q \in QueueRow |-> add(q, chosen[i])]]
           queue == CHOOSE g : g = [i \in 0..n |-> IF i = 0 THEN start
                                                  ELSE IF chosen[i] # creator /\ AddAdminAllowed(g[i-1], chosen[i])
                                                    THEN AddAdmin(g[i-1], chosen[i])
                                                  ELSE g[i-1]]
<1>1. n \in Nat /\ \A i \in 1..n : chosen[i] \in User
  BY LenProperties, ElementOfSeq
<1> HIDE DEF queue
<1>2. /\ start \in QueueRow /\ start.createdBy = creator /\ start.channel = channel
      /\ start.admins = <<creator>> /\ start.members = <<>>
  BY NewQueueWellStaffed DEF NewQueue, QueueRow
<1>3. step \in [1..n -> [QueueRow -> QueueRow]]
  <2>1. ASSUME NEW i \in 1..n, NEW q \in QueueRow  PROVE add(q, chosen[i]) \in QueueRow
    BY <1>1, AddAdminKeeps
  <2> QED
    BY <2>1
<1>4. PICK g : Runs(g, n, QueueRow, start, step)
  <2>1. n \in Nat /\ start \in QueueRow /\ step \in [1..n -> [QueueRow -> QueueRow]]
    BY <1>1, <1>2, <1>3
  <2> HIDE DEF start, step, n
  <2> QED
    BY <2>1, RecursionExists
<1>5. \A i \in 1..n : g[i-1] \in QueueRow /\ g[i] = add(g[i-1], chosen[i])
  <2> SUFFICES ASSUME NEW i \in 1..n
               PROVE  g[i-1] \in QueueRow /\ g[i] = add(g[i-1], chosen[i])
    OBVIOUS
  <2>1. i-1 \in 0..n
    BY <1>1
  <2>2. g[i-1] \in QueueRow
    BY <2>1, <1>4 DEF Runs
  <2>3. g[i] = step[i][g[i-1]]
    BY <2>2, <1>4 DEF Runs
  <2> QED
    BY <2>2, <2>3
<1>7. g = [i \in 0..n |-> IF i = 0 THEN start
                         ELSE IF chosen[i] # creator /\ AddAdminAllowed(g[i-1], chosen[i])
                           THEN AddAdmin(g[i-1], chosen[i])
                         ELSE g[i-1]]
  <2> HIDE DEF start, step
  <2> QED
    BY <1>1, <1>4, <1>5 DEF Runs
<1>8. queue = [i \in 0..n |-> IF i = 0 THEN start
                         ELSE IF chosen[i] # creator /\ AddAdminAllowed(queue[i-1], chosen[i])
                           THEN AddAdmin(queue[i-1], chosen[i])
                         ELSE queue[i-1]]
  BY <1>7 DEF queue
<1>9. QueueOfForm(creator, channel, chosen) = queue[n]
  BY DEF QueueOfForm, queue
<1> DEFINE Right(row, i) ==
             /\ row \in QueueRow /\ row.createdBy = creator /\ row.channel = channel
             /\ WellStaffed(row)
             /\ \A x : IsAdmin(row, x) <=> x = creator \/ \E k \in 1..i : chosen[k] = x
             /\ \A x : ~ IsMember(row, x)
           S == {i \in Nat : i <= n => Right(queue[i], i)}
<1>10. 0 \in S
  <2>1. queue[0] = start
    BY <1>1, <1>8
  <2>2. WellStaffed(start) /\ \A x : (IsAdmin(start, x) <=> x = creator) /\ ~ IsMember(start, x)
    BY <1>2 DEF WellStaffed, NoRepetition, IsAdmin, IsMember, Contains
  <2> HIDE DEF start
  <2> QED
    BY <1>1, <1>2, <2>1, <2>2
<1>11. ASSUME NEW i \in Nat, i \in S  PROVE i + 1 \in S
  <2> SUFFICES ASSUME i + 1 <= n  PROVE Right(queue[i+1], i+1)
    OBVIOUS
  <2> DEFINE row == queue[i]
             u == chosen[i+1]
  <2>1. Right(row, i)
    BY <1>1, <1>11
  <2>2. u \in User
    BY <1>1
  <2>3. queue[i+1] = add(row, u)
    <3>1. i+1 \in 0..n /\ i+1 # 0 /\ (i+1) - 1 = i
      BY <1>1
    <3> HIDE DEF start
    <3> QED
      BY <1>8, <3>1
  <2>4. \A x : (\E k \in 1..i+1 : chosen[k] = x) <=> (\E k \in 1..i : chosen[k] = x) \/ u = x
    <3>1. 1..i+1 = 1..i \cup {i+1}
      OBVIOUS
    <3> QED
      BY <3>1
  <2>5. CASE u # creator /\ AddAdminAllowed(row, u)
    <3>1. /\ AddAdmin(row, u) \in QueueRow /\ WellStaffed(AddAdmin(row, u))
          /\ AddAdmin(row, u).createdBy = creator
          /\ \A x : IsAdmin(AddAdmin(row, u), x) <=> IsAdmin(row, x) \/ x = u
          /\ \A x : ~ IsMember(AddAdmin(row, u), x)
      BY <2>1, <2>2, <2>5, AddAdminKeeps
    <3>2. AddAdmin(row, u).channel = channel
      BY <2>1 DEF AddAdmin, QueueRow
    <3>3. queue[i+1] = AddAdmin(row, u)
      BY <2>3, <2>5
    <3> HIDE DEF row, u
    <3> QED
      BY <2>1, <2>4, <3>1, <3>2, <3>3
  <2>6. CASE ~ (u # creator /\ AddAdminAllowed(row, u))
    <3>1. queue[i+1] = row
      BY <2>3, <2>6
    <3>2. u = creator \/ \E k \in 1..i : chosen[k] = u
      BY <2>1, <2>6 DEF AddAdminAllowed
    <3> HIDE DEF row, u
    <3> QED
      BY <2>1, <2>4, <3>1, <3>2
  <2> QED
    BY <2>5, <2>6
<1>12. Right(queue[n], n)
  <2>1. n \in S
    <3> HIDE DEF S
    <3> QED
      BY <1>1, <1>10, <1>11, NatSetInduction
  <2> QED
    BY <1>1, <2>1
<1>13. \A x : Contains(chosen, x) <=> \E k \in 1..n : chosen[k] = x
  BY DEF Contains
<1> HIDE DEF n
<1> QED
  BY <1>9, <1>12, <1>13

\* What a goroutine is about to save, and whom it has saved a request for.
HeldFits ==
  \A w \in Worker :
    /\ pc[w] = "save" /\ job[w].form \in RequestForm => held[w] \in RequestRow
    /\ pc[w] = "save" /\ job[w].form \in QueueForm => held[w] \in QueueRow /\ WellStaffed(held[w])
    /\ pc[w] \in {"address", "render"} => held[w] \in RequestRow

Rows == StoreTypeOK /\ QueuesWellStaffed

Rest ==
  /\ awaited \in [Form -> Worker \cup {Nil}]
  /\ held \in [Worker -> RequestRow \cup QueueRow \cup {Nil}]
  /\ origin \subseteq Form \X (RequestId \cup QueueId)
  /\ cards \subseteq Card
  /\ lost \in [Form -> 0..MaxLost]

TypeInv == Inv /\ Rows /\ HeldFits /\ Rest

LEMMA InitTypes == Init => TypeInv
<1> SUFFICES ASSUME Init  PROVE TypeInv
  OBVIOUS
<1>1. Rows
  BY EmptyTableIsTable DEF Init, StoreInit, Rows, StoreTypeOK, QueuesWellStaffed, EmptyTable
<1>2. HeldFits /\ Rest
  BY FormAssumption DEF Init, HeldFits, Rest
<1> QED
  BY <1>1, <1>2, InitInv DEF TypeInv

LEMMA TakeUpTypes ==
  ASSUME TypeInv, Inv', NEW w \in Worker, NEW f \in Form, NEW key, NEW row,
         [form |-> f, key |-> key] \in Job,
         TakeUp(w, f, key, row), UNCHANGED <<requests, queues, origin, cards, lost>>,
         f \in RequestForm => row \in RequestRow,
         f \in QueueForm => row \in QueueRow /\ WellStaffed(row),
         row \in RequestRow \cup QueueRow
  PROVE  TypeInv'
<1>1. Rows'
  BY DEF TypeInv, Rows, StoreTypeOK, QueuesWellStaffed
<1>2. /\ awaited' \in [Form -> Worker \cup {Nil}]
      /\ held' \in [Worker -> RequestRow \cup QueueRow \cup {Nil}]
      /\ held'[w] = row
  BY DEF TypeInv, Rest, TakeUp
<1>3. Rest'
  BY <1>2 DEF TypeInv, Rest
<1>4. pc'[w] = "save" /\ Others(w) /\ job'[w] = [form |-> f, key |-> key]
  BY TakeUpEffect DEF TypeInv, Inv
<1>5. HeldFits'
  BY <1>2, <1>4 DEF TypeInv, HeldFits, Others
<1> QED
  BY <1>1, <1>3, <1>5 DEF TypeInv

\* An answer, with tables, origins and cards that are typed after the step.
LEMMA AnswerTypes ==
  ASSUME TypeInv, Inv', NEW w \in Worker, job[w] \in Job, NEW outcome \in {"open", "closed"},
         Answer(w, outcome), UNCHANGED lost, Rows',
         origin' \subseteq Form \X (RequestId \cup QueueId), cards' \subseteq Card
  PROVE  TypeInv'
<1>1. pc'[w] = "idle" /\ Others(w)
  BY AnswerEffect DEF TypeInv, Inv
<1>2. HeldFits'
  BY <1>1 DEF TypeInv, HeldFits, Others
<1>3. /\ awaited' \in [Form -> Worker \cup {Nil}]
      /\ held' \in [Worker -> RequestRow \cup QueueRow \cup {Nil}]
  BY DEF TypeInv, Rest, Answer
<1>4. Rest'
  BY <1>3 DEF TypeInv, Rest
<1> QED
  BY <1>2, <1>4 DEF TypeInv

LEMMA ProceedTypes ==
  ASSUME TypeInv, Inv', NEW w \in Worker, held[w] \in RequestRow,
         NEW next \in {"address", "render"}, Proceed(w, next), UNCHANGED <<cards, lost>>, Rows',
         origin' \subseteq Form \X (RequestId \cup QueueId)
  PROVE  TypeInv'
<1>1. pc'[w] = next /\ Others(w) /\ job' = job /\ held' = held
  BY ProceedEffect DEF TypeInv, Inv
<1>2. HeldFits'
  BY <1>1 DEF TypeInv, HeldFits, Others
<1>3. Rest'
  BY <1>1 DEF TypeInv, Rest, Proceed
<1> QED
  BY <1>2, <1>3 DEF TypeInv

LEMMA SaveFormTypes ==
  ASSUME TypeInv, Inv', NEW w \in Worker, SaveForm(w)
  PROVE  TypeInv'
<1> DEFINE f == job[w].form
           key == job[w].key
<1>1. /\ pc[w] = "save" /\ job[w] \in Job /\ f \in Form /\ UNCHANGED <<cards, lost>>
      /\ cards' \subseteq Card
  BY FormsOfJobs DEF SaveForm, TypeInv, Inv, BusyHaveJobs, Rest
<1>2. CASE /\ f \in RequestForm
           /\ SaveRequest(key, held[w])
           /\ Proceed(w, IF held[w].recipient.type = "user" THEN "address" ELSE "render")
           /\ origin' = origin \cup {<<f, key>>}
           /\ UNCHANGED queues
  <2>1. key \in RequestId /\ held[w] \in RequestRow
    BY <1>1, <1>2, FormAssumption DEF Job, TypeInv, HeldFits
  <2>2. Rows'
    BY <1>2, <2>1, UpsertIsTable
    DEF TypeInv, Rows, StoreTypeOK, QueuesWellStaffed, SaveRequest
  <2>3. origin' \subseteq Form \X (RequestId \cup QueueId)
    BY <1>1, <1>2, <2>1 DEF TypeInv, Rest
  <2>4. PICK next \in {"address", "render"} : Proceed(w, next)
    BY <1>2
  <2> QED
    BY <1>1, <2>1, <2>2, <2>3, <2>4, ProceedTypes
<1>3. CASE /\ f \in QueueForm
           /\ SaveQueue(key, held[w])
           /\ Answer(w, "closed")
           /\ origin' = origin \cup {<<f, key>>}
           /\ UNCHANGED requests
  <2>1. key \in QueueId /\ held[w] \in QueueRow /\ WellStaffed(held[w])
    BY <1>1, <1>3, FormAssumption DEF Job, TypeInv, HeldFits
  <2>2. /\ IsTable(queues', QueueId, QueueRow)
        /\ DOMAIN queues' = DOMAIN queues \cup {key}
        /\ queues'[key] = held[w]
        /\ \A k \in DOMAIN queues : k # key => queues'[k] = queues[k]
    <3> HIDE DEF key
    <3> QED
      BY <1>3, <2>1 DEF TypeInv, Rows, StoreTypeOK, SaveQueue, Upsert, IsTable
  <2>3. Rows'
    BY <1>3, <2>1, <2>2 DEF TypeInv, Rows, StoreTypeOK, QueuesWellStaffed
  <2>4. origin' \subseteq Form \X (RequestId \cup QueueId)
    BY <1>1, <1>3, <2>1 DEF TypeInv, Rest
  <2> QED
    BY <1>1, <1>3, <2>3, <2>4, AnswerTypes
<1>4. CASE Answer(w, "open") /\ UNCHANGED <<requests, queues, origin>>
  <2>1. Rows' /\ origin' \subseteq Form \X (RequestId \cup QueueId)
    BY <1>4 DEF TypeInv, Rows, StoreTypeOK, QueuesWellStaffed, Rest
  <2> QED
    BY <1>1, <1>4, <2>1, AnswerTypes
<1> QED
  BY <1>2, <1>3, <1>4 DEF SaveForm

LEMMA NextTypes == TypeInv /\ [Next]_vars => TypeInv'
<1> SUFFICES ASSUME TypeInv, [Next]_vars  PROVE TypeInv'
  OBVIOUS
<1>1. Inv'
  BY NextInv DEF TypeInv
<1>2. ASSUME NEW w \in Worker, NEW f \in RequestForm, SubmitRequest(w, f)  PROVE TypeInv'
  <2>1. PICK key \in RequestId, creator \in Creators, recipient \in Recipients :
          TakeUp(w, f, key, NewRequest(creator, recipient))
    BY <1>2 DEF SubmitRequest
  <2>2. f \in Form /\ f \notin QueueForm /\ [form |-> f, key |-> key] \in Job
    BY FormAssumption DEF Form, Job
  <2>3. NewRequest(creator, recipient) \in RequestRow
    BY FormAssumption DEF NewRequest, RequestRow, Status
  <2>4. UNCHANGED <<requests, queues, origin, cards, lost>>
    BY <1>2 DEF SubmitRequest
  <2> QED
    BY <1>1, <2>1, <2>2, <2>3, <2>4, TakeUpTypes
<1>3. ASSUME NEW w \in Worker, NEW f \in QueueForm, SubmitQueue(w, f)  PROVE TypeInv'
  <2>1. PICK key \in QueueId, creator \in Creators, channel \in Channel, chosen \in AdminChoices :
          TakeUp(w, f, key, QueueOfForm(creator, channel, chosen))
    BY <1>3 DEF SubmitQueue
  <2>2. f \in Form /\ f \notin RequestForm /\ [form |-> f, key |-> key] \in Job
    BY FormAssumption DEF Form, Job
  <2>3. creator \in User /\ chosen \in Seq(User)
    BY FormAssumption
  <2>4. /\ QueueOfForm(creator, channel, chosen) \in QueueRow
        /\ WellStaffed(QueueOfForm(creator, channel, chosen))
    BY <2>3, QueueOfFormStaff
  <2>5. UNCHANGED <<requests, queues, origin, cards, lost>>
    BY <1>3 DEF SubmitQueue
  <2> QED
    BY <1>1, <2>1, <2>2, <2>4, <2>5, TakeUpTypes
<1>4. ASSUME NEW w \in Worker, SaveForm(w)  PROVE TypeInv'
  BY <1>1, <1>4, SaveFormTypes
<1>5. ASSUME NEW w \in Worker, OpenConversation(w)  PROVE TypeInv'
  <2>1. pc[w] = "address" /\ UNCHANGED <<requests, queues, origin, cards, lost>>
    BY <1>5 DEF OpenConversation
  <2>2. job[w] \in Job /\ held[w] \in RequestRow
    BY <2>1 DEF TypeInv, Inv, BusyHaveJobs, HeldFits
  <2>3. Rows' /\ origin' \subseteq Form \X (RequestId \cup QueueId) /\ cards' \subseteq Card
    BY <2>1 DEF TypeInv, Rows, StoreTypeOK, QueuesWellStaffed, Rest
  <2>4. Proceed(w, "render") \/ Answer(w, "closed")
    BY <1>5 DEF OpenConversation
  <2> QED
    BY <1>1, <2>1, <2>2, <2>3, <2>4, ProceedTypes, AnswerTypes
<1>6. ASSUME NEW w \in Worker, Render(w)  PROVE TypeInv'
  <2>1. pc[w] = "render" /\ Answer(w, "closed") /\ UNCHANGED <<requests, queues, origin, lost>>
    BY <1>6 DEF Render
  <2>2. job[w] \in Job /\ held[w] \in RequestRow
    BY <2>1 DEF TypeInv, Inv, BusyHaveJobs, HeldFits
  <2>3. job[w].key \in RequestId
    BY <2>1 DEF TypeInv, Inv, SavedAsHeld, Rows, StoreTypeOK, IsTable
  <2>4. PlaceOf(held[w]) \in Place
    BY <2>2 DEF PlaceOf, Place, RequestRow, Recipient
  <2>5. cards' \subseteq Card
    BY <1>6, <2>3, <2>4 DEF Render, TypeInv, Rest, Card
  <2>6. Rows' /\ origin' \subseteq Form \X (RequestId \cup QueueId)
    BY <2>1 DEF TypeInv, Rows, StoreTypeOK, QueuesWellStaffed, Rest
  <2> QED
    BY <1>1, <2>1, <2>2, <2>5, <2>6, AnswerTypes
<1>7. ASSUME NEW f \in Form, GiveUp(f)  PROVE TypeInv'
  <2>1. Rows'
    BY <1>7 DEF GiveUp, TypeInv, Rows, StoreTypeOK, QueuesWellStaffed
  <2>2. HeldFits'
    BY <1>7 DEF GiveUp, TypeInv, HeldFits
  <2>3. lost' \in [Form -> 0..MaxLost]
    BY <1>7, FormAssumption DEF GiveUp, TypeInv, Rest
  <2>4. Rest'
    BY <1>7, <2>3 DEF GiveUp, TypeInv, Rest
  <2> QED
    BY <1>1, <2>1, <2>2, <2>4 DEF TypeInv
<1>8. CASE Crash
  <2>1. Rows'
    BY <1>8 DEF Crash, TypeInv, Rows, StoreTypeOK, QueuesWellStaffed
  <2>2. HeldFits'
    BY <1>8 DEF Crash, HeldFits
  <2>3. lost' \in [Form -> 0..MaxLost]
    BY <1>8, FormAssumption DEF Crash, TypeInv, Rest
  <2>4. Rest'
    BY <1>8, <2>3 DEF Crash, TypeInv, Rest
  <2> QED
    BY <1>1, <2>1, <2>2, <2>4 DEF TypeInv
<1>9. CASE UNCHANGED vars
  BY <1>1, <1>9
  DEF vars, formVars, TypeInv, Rows, StoreTypeOK, QueuesWellStaffed, HeldFits, Rest
<1> QED
  BY <1>2, <1>3, <1>4, <1>5, <1>6, <1>7, <1>8, <1>9 DEF Next

LEMMA TypesHold == Spec => []TypeInv
BY InitTypes, NextTypes, PTL DEF Spec

\* Tables, modals, goroutines and histories hold values of their types: what
\* FormSubmissionService saves is a row, and a card goes to a place.
THEOREM TypeCorrect == Spec => []TypeOK
<1>1. TypeInv => TypeOK
  BY DEF TypeInv, Inv, Typed, ModalStates, Rows, Rest, TypeOK
<1> QED
  BY <1>1, TypesHold, PTL

\* Whatever admins a queue form selects, the queue that is stored lists nobody
\* twice and its creator as an admin.
THEOREM FormQueuesWellStaffed == Spec => []QueuesWellStaffed
<1>1. TypeInv => QueuesWellStaffed
  BY DEF TypeInv, Rows
<1> QED
  BY <1>1, TypesHold, PTL

-----------------------------------------------------------------------------
(* Who waits for whom, and what the answering service sees of all this *)

\* A goroutine about to save holds what its form asked for, under a key that is
\* still new.
HeldAsAsked ==
  \A w \in Worker :
    pc[w] = "save" =>
      /\ job[w].form \in RequestForm =>
           \E creator \in Creators, recipient \in Recipients :
             held[w] = NewRequest(creator, recipient)
      /\ job[w].form \in QueueForm => held[w] \in QueuesAsked

QueueNewUntilSaved ==
  \A w \in Worker :
    pc[w] = "save" /\ job[w].form \in QueueForm => job[w].key \notin DOMAIN queues

Asked == HeldAsAsked /\ QueueNewUntilSaved /\ NoneWaitsInVain

AskedInv == TypeInv /\ Asked

LEMMA TakeUpAsked ==
  ASSUME AskedInv, NEW w \in Worker, NEW f \in Form, NEW key, NEW row,
         [form |-> f, key |-> key] \in Job, pc[w] = "idle", Fresh(key),
         TakeUp(w, f, key, row), UNCHANGED <<requests, queues, origin, cards, lost>>,
         f \in RequestForm =>
           \E creator \in Creators, recipient \in Recipients : row = NewRequest(creator, recipient),
         f \in QueueForm => row \in QueuesAsked
  PROVE  Asked'
<1>1. /\ pc'[w] = "save" /\ Others(w) /\ job'[w] = [form |-> f, key |-> key]
      /\ \A g \in Form : modal'[g] = IF g = f THEN "waiting" ELSE modal[g]
  BY TakeUpEffect DEF AskedInv, TypeInv, Inv
<1>2. held'[w] = row
  BY DEF AskedInv, TypeInv, Rest, TakeUp
<1>3. HeldAsAsked'
  BY <1>1, <1>2 DEF AskedInv, Asked, HeldAsAsked, Others, QueuesAsked
<1>4. QueueNewUntilSaved'
  BY <1>1 DEF AskedInv, Asked, QueueNewUntilSaved, Others, Fresh
<1>5. \A g \in Form : awaited'[g] = IF g = f THEN w ELSE awaited[g]
  BY DEF AskedInv, TypeInv, Rest, TakeUp
<1>6. NoneWaitsInVain'
  BY <1>1, <1>5 DEF AskedInv, Asked, NoneWaitsInVain, Others
<1> QED
  BY <1>3, <1>4, <1>6 DEF Asked

\* Whoever answers was waited for by the form it served, if by any.
LEMMA AnswerAsked ==
  ASSUME AskedInv, NEW w \in Worker, job[w] \in Job, NEW outcome \in {"open", "closed"},
         Answer(w, outcome), UNCHANGED lost,
         \A u \in Worker : u # w /\ pc[u] = "save" /\ job[u].form \in QueueForm =>
                             job[u].key \notin DOMAIN queues'
  PROVE  Asked'
<1>1. pc'[w] = "idle" /\ Others(w)
  BY AnswerEffect DEF AskedInv, TypeInv, Inv
<1>2. HeldAsAsked' /\ QueueNewUntilSaved'
  BY <1>1 DEF AskedInv, Asked, HeldAsAsked, QueueNewUntilSaved, Others, QueuesAsked
<1>3. ASSUME NEW f \in Form, modal'[f] = "waiting"
      PROVE  modal[f] = "waiting" /\ awaited'[f] = awaited[f] /\ awaited[f] # w
  <2>1. job[w].form \in Form /\ Typed /\ awaited \in [Form -> Worker \cup {Nil}]
    BY FormsOfJobs DEF AskedInv, TypeInv, Inv, Rest
  <2>2. NoneWaitsInVain
    BY DEF AskedInv, Asked
  <2> QED
    BY <1>3, <2>1, <2>2 DEF Answer, Typed, NoneWaitsInVain
<1>4. NoneWaitsInVain'
  BY <1>1, <1>3 DEF AskedInv, Asked, NoneWaitsInVain, Others
<1> QED
  BY <1>2, <1>4 DEF Asked

LEMMA ProceedAsked ==
  ASSUME AskedInv, NEW w \in Worker, NEW next \in {"address", "render"},
         Proceed(w, next), UNCHANGED <<queues, lost>>
  PROVE  Asked'
<1>1. pc'[w] = next /\ Others(w) /\ job' = job /\ held' = held /\ modal' = modal /\ awaited' = awaited
  BY ProceedEffect DEF AskedInv, TypeInv, Inv, Proceed
<1>2. HeldAsAsked' /\ QueueNewUntilSaved'
  BY <1>1 DEF AskedInv, Asked, HeldAsAsked, QueueNewUntilSaved, Others, QueuesAsked
<1>3. NoneWaitsInVain'
  BY <1>1 DEF AskedInv, Asked, NoneWaitsInVain, Others
<1> QED
  BY <1>2, <1>3 DEF Asked

\* A saved request is one the answering service expects.
LEMMA RequestSaved ==
  ASSUME AskedInv, NEW w \in Worker, pc[w] = "save", job[w].form \in RequestForm,
         SaveRequest(job[w].key, held[w]), UNCHANGED queues
  PROVE  \E r \in RequestId : Responses!FormSaves(r)
<1> DEFINE key == job[w].key
<1>1. key \in RequestId /\ key \notin DOMAIN requests
  BY FormAssumption DEF AskedInv, TypeInv, Inv, BusyHaveJobs, Job, NewUntilSaved
<1>2. PICK creator \in Creators, recipient \in Recipients : held[w] = NewRequest(creator, recipient)
  BY DEF AskedInv, Asked, HeldAsAsked
<1>3. StaffNow' = StaffNow
  BY DEF StaffNow
<1>4. Responses!SaveRequest(key, Responses!NewRequest(creator, recipient))
  BY <1>2 DEF SaveRequest, Upsert, NewRequest, Empty, Responses!SaveRequest,
     Responses!Upsert, Responses!NewRequest, Responses!Empty
<1>5. Responses!FormSaves(key)
  BY <1>1, <1>3, <1>4
  DEF Responses!FormSaves, Responses!Found, Responses!responseVars
<1> QED
  BY <1>1, <1>5

\* So is a saved queue: nobody has a queue under its key, and the staff there is
\* grows by its own.
LEMMA QueueSaved ==
  ASSUME AskedInv, NEW w \in Worker, pc[w] = "save", job[w].form \in QueueForm,
         SaveQueue(job[w].key, held[w]), UNCHANGED requests
  PROVE  \E q \in QueueId : Responses!QueueSaves(q)
<1> DEFINE key == job[w].key
           row == held[w]
<1>1. key \in QueueId /\ key \notin DOMAIN queues /\ row \in QueuesAsked
  BY FormAssumption DEF AskedInv, TypeInv, Inv, BusyHaveJobs, Job, Asked, QueueNewUntilSaved,
     HeldAsAsked
<1>2. /\ DOMAIN queues' = DOMAIN queues \cup {key} /\ queues'[key] = row
      /\ \A q \in DOMAIN queues : queues'[q] = queues[q]
  BY <1>1 DEF SaveQueue, Upsert
<1> HIDE DEF key, row
<1>3. StaffNow' = StaffNow \cup ({key} \X {u \in User : CanRespondToRequests(row, u)})
  BY <1>1, <1>2 DEF StaffNow, Found
<1>4. \A u : CanRespondToRequests(row, u) <=> Responses!CanRespondToRequests(row, u)
  BY DEF CanRespondToRequests, IsAdmin, IsMember, Contains,
     Responses!CanRespondToRequests, Responses!IsAdmin, Responses!IsMember,
     Responses!Contains
<1>5. StaffNow' =
        StaffNow \cup ({key} \X {u \in User : Responses!CanRespondToRequests(row, u)})
  BY <1>3, <1>4
<1>6. Responses!SaveQueue(key, row)
  BY DEF key, row, SaveQueue, Upsert, Responses!SaveQueue, Responses!Upsert
<1>7. Responses!QueueSaves(key)
  BY <1>1, <1>5, <1>6
  DEF Responses!QueueSaves, Responses!Found, Responses!responseVars
<1> QED
  BY <1>1, <1>7

LEMMA SaveFormAsked ==
  ASSUME AskedInv, NEW w \in Worker, SaveForm(w)
  PROVE  /\ Asked'
         /\ \/ \E r \in RequestId : Responses!FormSaves(r)
            \/ \E q \in QueueId : Responses!QueueSaves(q)
            \/ UNCHANGED <<requests, queues>>
<1> DEFINE f == job[w].form
           key == job[w].key
<1>1. pc[w] = "save" /\ job[w] \in Job /\ UNCHANGED lost
  BY DEF SaveForm, AskedInv, TypeInv, Inv, BusyHaveJobs
<1>2. CASE /\ f \in RequestForm
           /\ SaveRequest(key, held[w])
           /\ Proceed(w, IF held[w].recipient.type = "user" THEN "address" ELSE "render")
           /\ UNCHANGED queues
  <2>1. PICK next \in {"address", "render"} : Proceed(w, next)
    BY <1>2
  <2> QED
    BY <1>1, <1>2, <2>1, ProceedAsked, RequestSaved
<1>3. CASE f \in QueueForm /\ SaveQueue(key, held[w]) /\ Answer(w, "closed") /\ UNCHANGED requests
  <2>1. DOMAIN queues' = DOMAIN queues \cup {key}
    BY <1>3 DEF SaveQueue, Upsert
  <2>2. \A u \in Worker : u # w /\ pc[u] = "save" => job[u].key # key
    BY <1>1 DEF AskedInv, TypeInv, Inv, OwnKeys
  <2>3. \A u \in Worker : u # w /\ pc[u] = "save" /\ job[u].form \in QueueForm =>
                            job[u].key \notin DOMAIN queues'
    BY <2>1, <2>2 DEF AskedInv, Asked, QueueNewUntilSaved
  <2> QED
    BY <1>1, <1>3, <2>3, AnswerAsked, QueueSaved
<1>4. CASE Answer(w, "open") /\ UNCHANGED <<requests, queues>>
  BY <1>1, <1>4, AnswerAsked DEF AskedInv, Asked, QueueNewUntilSaved
<1> QED
  BY <1>2, <1>3, <1>4 DEF SaveForm

LEMMA NextAsked ==
  ASSUME AskedInv, [Next]_vars
  PROVE  /\ Asked'
         /\ \/ \E r \in RequestId : Responses!FormSaves(r)
            \/ \E q \in QueueId : Responses!QueueSaves(q)
            \/ UNCHANGED <<requests, queues>>
<1>1. ASSUME NEW w \in Worker, NEW f \in RequestForm, SubmitRequest(w, f)
      PROVE  Asked' /\ UNCHANGED <<requests, queues>>
  <2>1. PICK key \in RequestId, creator \in Creators, recipient \in Recipients :
          Fresh(key) /\ TakeUp(w, f, key, NewRequest(creator, recipient))
    BY <1>1 DEF SubmitRequest
  <2>2. f \in Form /\ f \notin QueueForm /\ [form |-> f, key |-> key] \in Job
    BY FormAssumption DEF Form, Job
  <2>3. pc[w] = "idle" /\ UNCHANGED <<requests, queues, origin, cards, lost>>
    BY <1>1 DEF SubmitRequest
  <2> QED
    BY <2>1, <2>2, <2>3, TakeUpAsked
<1>2. ASSUME NEW w \in Worker, NEW f \in QueueForm, SubmitQueue(w, f)
      PROVE  Asked' /\ UNCHANGED <<requests, queues>>
  <2>1. PICK key \in QueueId, creator \in Creators, channel \in Channel, chosen \in AdminChoices :
          Fresh(key) /\ TakeUp(w, f, key, QueueOfForm(creator, channel, chosen))
    BY <1>2 DEF SubmitQueue
  <2>2. f \in Form /\ f \notin RequestForm /\ [form |-> f, key |-> key] \in Job
    BY FormAssumption DEF Form, Job
  <2>3. pc[w] = "idle" /\ UNCHANGED <<requests, queues, origin, cards, lost>>
    BY <1>2 DEF SubmitQueue
  <2>4. QueueOfForm(creator, channel, chosen) \in QueuesAsked
    BY DEF QueuesAsked
  <2> QED
    BY <2>1, <2>2, <2>3, <2>4, TakeUpAsked
<1>3. ASSUME NEW w \in Worker, OpenConversation(w)
      PROVE  Asked' /\ UNCHANGED <<requests, queues>>
  <2>1. pc[w] = "address" /\ UNCHANGED <<requests, queues, lost>>
    BY <1>3 DEF OpenConversation
  <2>2. job[w] \in Job
    BY <2>1 DEF AskedInv, TypeInv, Inv, BusyHaveJobs
  <2>3. Proceed(w, "render") \/ Answer(w, "closed")
    BY <1>3 DEF OpenConversation
  <2> QED
    BY <2>1, <2>2, <2>3, ProceedAsked, AnswerAsked DEF AskedInv, Asked, QueueNewUntilSaved
<1>4. ASSUME NEW w \in Worker, Render(w)
      PROVE  Asked' /\ UNCHANGED <<requests, queues>>
  <2>1. pc[w] = "render" /\ Answer(w, "closed") /\ UNCHANGED <<requests, queues, lost>>
    BY <1>4 DEF Render
  <2>2. job[w] \in Job
    BY <2>1 DEF AskedInv, TypeInv, Inv, BusyHaveJobs
  <2> QED
    BY <2>1, <2>2, AnswerAsked DEF AskedInv, Asked, QueueNewUntilSaved
<1>5. ASSUME NEW f \in Form, GiveUp(f)  PROVE Asked' /\ UNCHANGED <<requests, queues>>
  <2>1. HeldAsAsked' /\ QueueNewUntilSaved'
    BY <1>5 DEF GiveUp, AskedInv, Asked, HeldAsAsked, QueueNewUntilSaved, QueuesAsked
  <2>2. NoneWaitsInVain'
    BY <1>5 DEF GiveUp, AskedInv, TypeInv, Inv, Typed, Rest, Asked, NoneWaitsInVain
  <2> QED
    BY <1>5, <2>1, <2>2 DEF GiveUp, Asked
<1>6. CASE Crash
  BY <1>6 DEF Crash, Asked, HeldAsAsked, QueueNewUntilSaved, NoneWaitsInVain
<1>7. CASE UNCHANGED vars
  BY <1>7 DEF vars, formVars, AskedInv, Asked, HeldAsAsked, QueueNewUntilSaved, NoneWaitsInVain,
     QueuesAsked
<1>8. UNCHANGED <<requests, queues>>
        \/ \E w \in Worker : SaveForm(w)
  BY <1>1, <1>2, <1>3, <1>4, <1>5, <1>6, <1>7 DEF Next, Crash, vars
<1>9. Asked' \/ \E w \in Worker : SaveForm(w)
  BY <1>1, <1>2, <1>3, <1>4, <1>5, <1>6, <1>7 DEF Next
<1> QED
  BY <1>8, <1>9, SaveFormAsked

LEMMA InitAsked == Init => AskedInv
BY InitTypes DEF Init, AskedInv, Asked, HeldAsAsked, QueueNewUntilSaved, NoneWaitsInVain

LEMMA AskedHolds == Spec => []AskedInv
<1>1. AskedInv /\ [Next]_vars => AskedInv'
  BY NextAsked, NextTypes DEF AskedInv
<1> QED
  BY <1>1, InitAsked, PTL DEF Spec

\* Whatever fails or crashes, a user who waits is waiting for a goroutine that
\* is still at work on his form.
THEOREM SubmissionsAreInHand == Spec => []NoneWaitsInVain
<1>1. AskedInv => NoneWaitsInVain
  BY DEF AskedInv, Asked
<1> QED
  BY <1>1, AskedHolds, PTL

\* Every form that is ever submitted, lost and submitted again does to the
\* tables what the answering service reckons with, under the assumption that
\* service makes: the queues it stores are well staffed.
THEOREM FormsFitService == Responses!ResponseAssumption /\ (Spec => FormsServeRequests)
<1>1. Responses!ResponseAssumption
  <2>1. Responses!Recipient = Recipient
    BY DEF Responses!Recipient, Recipient
  <2>2. \A row \in QueuesAsked : row \in QueueRow /\ WellStaffed(row)
    BY FormAssumption, QueueOfFormStaff DEF QueuesAsked
  <2>3. \A row \in QueuesAsked : row \in Responses!QueueRow /\ Responses!WellStaffed(row)
    BY <2>2 DEF QueueRow, Responses!QueueRow, Empty, Responses!Empty,
       WellStaffed, Responses!WellStaffed, NoRepetition, Responses!NoRepetition,
       IsAdmin, Responses!IsAdmin, Contains, Responses!Contains
  <2> QED
    BY <2>1, <2>3, FormAssumption DEF Responses!ResponseAssumption
<1>2. Init => Responses!Init
  BY DEF Init, StoreInit, EmptyTable, StaffNow, Found, Responses!Init,
     Responses!StoreInit, Responses!EmptyTable
<1>3. AskedInv /\ [Next]_vars => [Responses!Next]_(Responses!vars)
  <2> SUFFICES ASSUME AskedInv, [Next]_vars
               PROVE  Responses!Next \/ UNCHANGED Responses!vars
    OBVIOUS
  <2>1. CASE UNCHANGED <<requests, queues>>
    BY <2>1 DEF Responses!vars, Responses!responseVars, StaffNow
  <2> QED
    BY <2>1, NextAsked DEF Responses!Next
<1>4. Spec => FormsServeRequests
  BY <1>2, <1>3, AskedHolds, PTL DEF Spec, FormsServeRequests, Responses!Spec
<1> QED
  BY <1>1, <1>4
=============================================================================
