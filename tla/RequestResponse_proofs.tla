----------------------- MODULE RequestResponse_proofs -----------------------
(***************************************************************************)
(* What RequestResponse keeps true for any number of goroutines, users,    *)
(* requests and queues.                                                    *)
(***************************************************************************)
EXTENDS RequestResponse, Domain_proofs

-----------------------------------------------------------------------------
(* The rows that a call writes *)

LEMMA NewRequestRow ==
  ASSUME NEW creator \in User, NEW recipient \in Recipient
  PROVE  NewRequest(creator, recipient) \in RequestRow /\ Consistent(NewRequest(creator, recipient))
BY DomainAssumption DEF NewRequest, RequestRow, Status, Consistent

LEMMA AppliedRow ==
  ASSUME NEW c \in Call, NEW row \in RequestRow, Permitted(c, row)
  PROVE  /\ Applied(c, row) \in RequestRow
         /\ Applied(c, row).createdBy = row.createdBy
         /\ Applied(c, row).recipient = row.recipient
         /\ Applied(c, row).status # "pending"
         /\ Applied(c, row).status = "completed" => row.status # "pending"
         /\ \/ Applied(c, row).acceptedBy = row.acceptedBy
            \/ c.op = "accept" /\ Applied(c, row).acceptedBy = c.user
         /\ Consistent(row) => Consistent(Applied(c, row))
<1>1. CASE c.op = "accept"
  <2>1. Applied(c, row) = Accept(row, c.user) /\ AcceptAllowed(row, c.user) /\ c.user \in User
    BY <1>1 DEF Applied, Permitted, Call
  <2>2. Accept(row, c.user) \in RequestRow
    BY <2>1 DEF Accept, RequestRow, Status
  <2>3. /\ Accept(row, c.user).status = "accepted" /\ Accept(row, c.user).acceptedBy = c.user
        /\ Accept(row, c.user).createdBy = row.createdBy
        /\ Accept(row, c.user).recipient = row.recipient
        /\ Accept(row, c.user).reason = row.reason
    BY <2>1 DEF Accept, RequestRow
  <2>4. Consistent(row) => Consistent(Accept(row, c.user))
    BY <2>1, <2>3, DomainAssumption DEF AcceptAllowed, Consistent
  <2> QED
    BY <1>1, <2>1, <2>2, <2>3, <2>4
<1>2. CASE c.op = "reject"
  <2>1. Applied(c, row) = Reject(row, c.reason) /\ RejectAllowed(row, c.reason) /\ c.reason \in Reason
    BY <1>2 DEF Applied, Permitted, Call
  <2> QED
    BY <1>2, <2>1, DomainAssumption DEF Reject, RejectAllowed, RequestRow, Status, Consistent
<1>3. CASE c.op = "complete"
  <2>1. Applied(c, row) = Complete(row) /\ CompleteAllowed(row)
    BY <1>3 DEF Applied, Permitted, Call
  <2> QED
    BY <1>3, <2>1, DomainAssumption DEF Complete, CompleteAllowed, RequestRow, Status, Consistent
<1> QED
  BY <1>1, <1>2, <1>3 DEF Call

-----------------------------------------------------------------------------
(* Types *)

LEMMA SaveRequestTable ==
  ASSUME NEW id \in RequestId, NEW row \in RequestRow,
         IsTable(requests, RequestId, RequestRow), SaveRequest(id, row)
  PROVE  /\ IsTable(requests', RequestId, RequestRow)
         /\ DOMAIN requests' = DOMAIN requests \cup {id}
         /\ requests'[id] = row
         /\ \A r \in DOMAIN requests : r # id => requests'[r] = requests[r]
BY DEF SaveRequest, Upsert, IsTable

\* A goroutine in the middle of a call has its arguments and its copy, and the
\* row it read still exists: no service deletes one.
BusyHolds ==
  \A w \in Worker :
    pc[w] \in Holding =>
      /\ call[w] \in Call /\ held[w] \in RequestRow
      /\ call[w].req \in DOMAIN requests

TypeInv == TypeOK /\ BusyHolds

LEMMA InitTypes == Init => TypeInv
<1> SUFFICES ASSUME Init  PROVE TypeInv
  OBVIOUS
<1>1. StoreTypeOK
  BY EmptyTableIsTable DEF Init, StoreInit, StoreTypeOK
<1>2. crashes \in 0..MaxCrashes
  BY ResponseAssumption DEF Init
<1> QED
  BY <1>1, <1>2 DEF Init, TypeInv, TypeOK, BusyHolds, Holding

\* What a Return of w leaves of the types.
LEMMA ReturnTypes ==
  ASSUME TypeInv, NEW w \in Worker, Return(w), DOMAIN requests \subseteq DOMAIN requests'
  PROVE  /\ pc' \in [Worker -> {"idle"} \cup Holding]
         /\ call' \in [Worker -> Call \cup {Nil}]
         /\ held' \in [Worker -> RequestRow \cup {Nil}]
         /\ BusyHolds'
BY DEF TypeInv, TypeOK, BusyHolds, Return, Holding

\* And what advancing w within its call does.
LEMMA ProceedTypes ==
  ASSUME TypeInv, NEW w \in Worker, NEW next \in Holding, NEW row \in RequestRow,
         pc[w] \in Holding, Proceed(w, next, row), DOMAIN requests \subseteq DOMAIN requests'
  PROVE  /\ pc' \in [Worker -> {"idle"} \cup Holding]
         /\ call' \in [Worker -> Call \cup {Nil}]
         /\ held' \in [Worker -> RequestRow \cup {Nil}]
         /\ BusyHolds'
BY DEF TypeInv, TypeOK, BusyHolds, Proceed, Holding

LEMMA NextTypes == TypeInv /\ [Next]_vars => TypeInv'
<1> SUFFICES ASSUME TypeInv, [Next]_vars  PROVE TypeInv'
  OBVIOUS
<1>1. ASSUME NEW w \in Worker, Start(w)  PROVE TypeInv'
  <2>1. PICK c \in Call : /\ Found(requests, c.req)
                          /\ call' = [call EXCEPT ![w] = c]
                          /\ held' = [held EXCEPT ![w] = requests[c.req]]
    BY <1>1 DEF Start
  <2>2. requests[c.req] \in RequestRow
    BY <2>1 DEF TypeInv, TypeOK, StoreTypeOK, IsTable, Found
  <2> QED
    BY <1>1, <2>1, <2>2 DEF Start, TypeInv, TypeOK, StoreTypeOK, BusyHolds, Holding, Found
<1>2. ASSUME NEW w \in Worker, Authorize(w)  PROVE TypeInv'
  <2>1. call[w] \in Call /\ held[w] \in RequestRow /\ pc[w] \in Holding
    BY <1>2 DEF Authorize, TypeInv, BusyHolds, Holding
  <2>2. CASE Return(w)
    BY <1>2, <2>2, ReturnTypes DEF Authorize, TypeInv, TypeOK, StoreTypeOK
  <2>3. CASE Permitted(call[w], held[w]) /\ Proceed(w, "save", Applied(call[w], held[w]))
    <3>1. Applied(call[w], held[w]) \in RequestRow
      BY <2>1, <2>3, AppliedRow
    <3> QED
      BY <1>2, <2>1, <2>3, <3>1, ProceedTypes DEF Authorize, Holding, TypeInv, TypeOK, StoreTypeOK
  <2> QED
    BY <1>2, <2>2, <2>3 DEF Authorize
<1>3. ASSUME NEW w \in Worker, Save(w)  PROVE TypeInv'
  <2>1. /\ call[w] \in Call /\ held[w] \in RequestRow /\ pc[w] \in Holding
        /\ call[w].req \in DOMAIN requests /\ call[w].req \in RequestId
    BY <1>3 DEF Save, TypeInv, BusyHolds, Holding, Call
  <2>2. CASE Return(w) /\ UNCHANGED <<requests, commits>>
    BY <1>3, <2>2, ReturnTypes DEF Save, TypeInv, TypeOK, StoreTypeOK
  <2>3. CASE /\ SaveRequest(call[w].req, held[w])
             /\ commits' = commits \cup {[call |-> call[w], wrote |-> held[w]]}
             /\ Proceed(w, "creator", held[w])
    <3>1. IsTable(requests', RequestId, RequestRow) /\ DOMAIN requests \subseteq DOMAIN requests'
      BY <2>1, <2>3, SaveRequestTable DEF TypeInv, TypeOK, StoreTypeOK
    <3>2. commits' \subseteq Commit
      BY <2>1, <2>3 DEF TypeInv, TypeOK, Commit
    <3> QED
      BY <1>3, <2>1, <2>3, <3>1, <3>2, ProceedTypes
         DEF Save, Holding, TypeInv, TypeOK, StoreTypeOK
  <2> QED
    BY <1>3, <2>2, <2>3 DEF Save
<1>4. ASSUME NEW w \in Worker, NEW role \in {"creator", "acceptor"},
             pc[w] \in Holding, Tell(w, role)
      PROVE  sent' \subseteq Notice
  <2>1. call[w] \in Call /\ held[w] \in RequestRow
    BY <1>4 DEF TypeInv, BusyHolds
  <2>2. NoticeDue(role, call[w], held[w]) => NoticeTo(role, call[w], held[w]) \in Notice
    BY <1>4, <2>1 DEF NoticeDue, NoticeTo, Notice, RequestRow
  <2> QED
    BY <1>4, <2>2 DEF Tell, TypeInv, TypeOK
<1>5. ASSUME NEW w \in Worker, TellCreator(w)  PROVE TypeInv'
  <2>1. pc[w] \in Holding /\ held[w] \in RequestRow
    BY <1>5 DEF TellCreator, TypeInv, BusyHolds, Holding
  <2>2. sent' \subseteq Notice
    BY <1>4, <1>5, <2>1 DEF TellCreator
  <2> QED
    BY <1>5, <2>1, <2>2, ProceedTypes DEF TellCreator, Holding, TypeInv, TypeOK, StoreTypeOK
<1>6. ASSUME NEW w \in Worker, TellAcceptor(w)  PROVE TypeInv'
  <2>1. pc[w] \in Holding
    BY <1>6 DEF TellAcceptor, Holding
  <2>2. sent' \subseteq Notice
    BY <1>4, <1>6, <2>1 DEF TellAcceptor
  <2> QED
    BY <1>6, <2>2, ReturnTypes DEF TellAcceptor, TypeInv, TypeOK, StoreTypeOK
<1>7. CASE Crash
  BY <1>7, ResponseAssumption DEF Crash, TypeInv, TypeOK, StoreTypeOK, BusyHolds, Holding
<1>8. ASSUME NEW r \in RequestId, FormSaves(r)  PROVE TypeInv'
  <2>1. PICK creator \in Creators, recipient \in Recipients :
          SaveRequest(r, NewRequest(creator, recipient))
    BY <1>8 DEF FormSaves
  <2>2. NewRequest(creator, recipient) \in RequestRow
    BY ResponseAssumption, NewRequestRow
  <2>3. IsTable(requests', RequestId, RequestRow) /\ DOMAIN requests \subseteq DOMAIN requests'
    BY <2>1, <2>2, SaveRequestTable DEF TypeInv, TypeOK, StoreTypeOK
  <2> QED
    BY <1>8, <2>3 DEF FormSaves, responseVars, TypeInv, TypeOK, StoreTypeOK, BusyHolds
<1>9. ASSUME NEW q \in QueueId, QueueSaves(q)  PROVE TypeInv'
  <2>1. PICK row \in StaffRows :
          /\ SaveQueue(q, row)
          /\ staffed' = staffed \cup ({q} \X {u \in User : CanRespondToRequests(row, u)})
    BY <1>9 DEF QueueSaves
  <2>2. row \in QueueRow
    BY <2>1, ResponseAssumption DEF ResponseAssumption
  <2>3. IsTable(queues', QueueId, QueueRow)
    BY <2>1, <2>2, UpsertIsTable DEF SaveQueue, TypeInv, TypeOK, StoreTypeOK
  <2>4. staffed' \subseteq QueueId \X User
    BY <2>1 DEF TypeInv, TypeOK
  <2> QED
    BY <1>9, <2>3, <2>4 DEF QueueSaves, responseVars, TypeInv, TypeOK, StoreTypeOK, BusyHolds
<1>10. CASE UNCHANGED vars
  BY <1>10 DEF vars, responseVars, TypeInv, TypeOK, StoreTypeOK, BusyHolds
<1> QED
  BY <1>1, <1>2, <1>3, <1>5, <1>6, <1>7, <1>8, <1>9, <1>10 DEF Next, Step

\* Every variable keeps its type, whatever steps the goroutines take.
THEOREM TypeCorrect == Spec => []TypeOK
<1>1. Spec => []TypeInv
  BY InitTypes, NextTypes, PTL DEF Spec
<1> QED
  BY <1>1, PTL DEF TypeInv

-----------------------------------------------------------------------------
(* Consistent rows and decisions that stand *)

\* What a goroutine at `where` knows of its copy and of the row now stored: a
\* copy is of the same request, and as soon as it is not pending (or will write
\* "completed") neither is the stored row.
Agrees(where, copy, stored) ==
  /\ Consistent(copy)
  /\ copy.createdBy = stored.createdBy
  /\ copy.recipient = stored.recipient
  /\ where = "authorize" /\ copy.status # "pending" => stored.status # "pending"
  /\ where # "authorize" => copy.status # "pending"
  /\ where = "save" /\ copy.status = "completed" => stored.status # "pending"

CopiesAgree ==
  \A w \in Worker : pc[w] \in Holding => Agrees(pc[w], held[w], requests[call[w].req])

DecisionInv == RowsConsistent /\ CopiesAgree

\* The steps that leave the tables alone and at most end calls.
LEMMA QuietDecisions ==
  ASSUME TypeInv, DecisionInv, requests' = requests,
         \A w \in Worker : pc'[w] \in Holding =>
            pc[w] \in Holding /\ pc'[w] = pc[w] /\ call'[w] = call[w] /\ held'[w] = held[w]
  PROVE  DecisionInv'
BY DEF DecisionInv, RowsConsistent, CopiesAgree

LEMMA ReturnQuiet ==
  ASSUME TypeInv, NEW w \in Worker, Return(w)
  PROVE  \A v \in Worker : pc'[v] \in Holding =>
            pc[v] \in Holding /\ pc'[v] = pc[v] /\ call'[v] = call[v] /\ held'[v] = held[v]
BY DEF Return, TypeInv, TypeOK, Holding

LEMMA InitDecisions == Init => DecisionInv
BY DEF Init, StoreInit, EmptyTable, DecisionInv, RowsConsistent, CopiesAgree, Holding

LEMMA NextDecisions == TypeInv /\ DecisionInv /\ [Next]_vars => DecisionInv'
<1> SUFFICES ASSUME TypeInv, DecisionInv, [Next]_vars  PROVE DecisionInv'
  OBVIOUS
<1>1. ASSUME NEW w \in Worker, Start(w)  PROVE DecisionInv'
  <2>1. PICK c \in Call : /\ Found(requests, c.req)
                          /\ call' = [call EXCEPT ![w] = c]
                          /\ held' = [held EXCEPT ![w] = requests[c.req]]
    BY <1>1 DEF Start
  <2>2. requests' = requests /\ pc' = [pc EXCEPT ![w] = "authorize"]
    BY <1>1 DEF Start
  <2>3. Agrees("authorize", requests[c.req], requests[c.req])
    BY <2>1 DEF DecisionInv, RowsConsistent, Agrees, Found
  <2>4. CopiesAgree'
    <3>1. ASSUME NEW v \in Worker, pc'[v] \in Holding
          PROVE  Agrees(pc'[v], held'[v], requests'[call'[v].req])
      BY <2>1, <2>2, <2>3, <3>1 DEF DecisionInv, CopiesAgree, TypeInv, TypeOK
    <3> QED
      BY <3>1 DEF CopiesAgree
  <2> QED
    BY <2>2, <2>4 DEF DecisionInv, RowsConsistent
<1>2. ASSUME NEW w \in Worker, Authorize(w)  PROVE DecisionInv'
  <2>1. /\ call[w] \in Call /\ held[w] \in RequestRow /\ pc[w] = "authorize"
        /\ Agrees("authorize", held[w], requests[call[w].req])
        /\ requests' = requests
    BY <1>2 DEF Authorize, TypeInv, BusyHolds, Holding, DecisionInv, CopiesAgree
  <2>2. CASE Return(w)
    BY <2>1, <2>2, QuietDecisions, ReturnQuiet
  <2>3. CASE Permitted(call[w], held[w]) /\ Proceed(w, "save", Applied(call[w], held[w]))
    <3>1. Agrees("save", Applied(call[w], held[w]), requests[call[w].req])
      BY <2>1, <2>3, AppliedRow DEF Agrees
    <3>2. ASSUME NEW v \in Worker, pc'[v] \in Holding
          PROVE  Agrees(pc'[v], held'[v], requests'[call'[v].req])
      BY <2>1, <2>3, <3>1, <3>2 DEF Proceed, DecisionInv, CopiesAgree, TypeInv, TypeOK
    <3> QED
      BY <2>1, <3>2 DEF DecisionInv, CopiesAgree, RowsConsistent
  <2> QED
    BY <1>2, <2>2, <2>3 DEF Authorize
<1>3. ASSUME NEW w \in Worker, Save(w)  PROVE DecisionInv'
  <2>1. /\ call[w] \in Call /\ held[w] \in RequestRow /\ pc[w] = "save"
        /\ call[w].req \in DOMAIN requests /\ call[w].req \in RequestId
        /\ Agrees("save", held[w], requests[call[w].req])
    BY <1>3 DEF Save, TypeInv, BusyHolds, Holding, Call, DecisionInv, CopiesAgree
  <2>2. CASE Return(w) /\ UNCHANGED <<requests, commits>>
    BY <2>2, QuietDecisions, ReturnQuiet
  <2>3. CASE SaveRequest(call[w].req, held[w]) /\ Proceed(w, "creator", held[w])
    <3>1. /\ DOMAIN requests' = DOMAIN requests
          /\ requests'[call[w].req] = held[w]
          /\ \A r \in DOMAIN requests : r # call[w].req => requests'[r] = requests[r]
      BY <2>1, <2>3, SaveRequestTable DEF TypeInv, TypeOK, StoreTypeOK
    <3>2. RowsConsistent'
      BY <2>1, <3>1 DEF RowsConsistent, DecisionInv, Agrees
    <3>3. ASSUME NEW v \in Worker, pc'[v] \in Holding
          PROVE  Agrees(pc'[v], held'[v], requests'[call'[v].req])
      <4>1. /\ pc[v] \in Holding /\ call'[v] = call[v] /\ held'[v] = held[v]
            /\ call[v].req \in DOMAIN requests
            /\ pc'[v] = IF v = w THEN "creator" ELSE pc[v]
        BY <2>1, <2>3, <3>3 DEF Proceed, TypeInv, TypeOK, BusyHolds, Holding
      <4>2. Agrees(pc[v], held[v], requests[call[v].req])
        BY <4>1 DEF DecisionInv, CopiesAgree
      <4>3. CASE call[v].req = call[w].req
        BY <2>1, <3>1, <4>1, <4>2, <4>3 DEF Agrees
      <4>4. CASE call[v].req # call[w].req
        BY <2>1, <3>1, <4>1, <4>2, <4>4 DEF Agrees
      <4> QED
        BY <4>3, <4>4
    <3> QED
      BY <3>2, <3>3 DEF DecisionInv, CopiesAgree
  <2> QED
    BY <1>3, <2>2, <2>3 DEF Save
<1>4. ASSUME NEW w \in Worker, TellCreator(w)  PROVE DecisionInv'
  <2>1. pc[w] = "creator" /\ Proceed(w, "acceptor", held[w]) /\ requests' = requests
    BY <1>4 DEF TellCreator
  <2>2. ASSUME NEW v \in Worker, pc'[v] \in Holding
        PROVE  Agrees(pc'[v], held'[v], requests'[call'[v].req])
    BY <2>1, <2>2 DEF Proceed, DecisionInv, CopiesAgree, Agrees, Holding, TypeInv, TypeOK
  <2> QED
    BY <2>1, <2>2 DEF DecisionInv, CopiesAgree, RowsConsistent
<1>5. ASSUME NEW w \in Worker, TellAcceptor(w)  PROVE DecisionInv'
  BY <1>5, QuietDecisions, ReturnQuiet DEF TellAcceptor
<1>6. CASE Crash
  BY <1>6, QuietDecisions DEF Crash, Holding
<1>7. ASSUME NEW r \in RequestId, FormSaves(r)  PROVE DecisionInv'
  <2>1. PICK creator \in Creators, recipient \in Recipients :
          SaveRequest(r, NewRequest(creator, recipient))
    BY <1>7 DEF FormSaves
  <2>2. NewRequest(creator, recipient) \in RequestRow /\ Consistent(NewRequest(creator, recipient))
    BY ResponseAssumption, NewRequestRow
  <2>3. /\ r \notin DOMAIN requests /\ DOMAIN requests' = DOMAIN requests \cup {r}
        /\ Consistent(requests'[r])
        /\ \A s \in DOMAIN requests : requests'[s] = requests[s]
    BY <1>7, <2>1, <2>2, SaveRequestTable DEF FormSaves, Found, TypeInv, TypeOK, StoreTypeOK
  <2>4. RowsConsistent'
    BY <2>3 DEF DecisionInv, RowsConsistent
  <2>5. CopiesAgree'
    BY <1>7, <2>3 DEF FormSaves, responseVars, TypeInv, BusyHolds, DecisionInv, CopiesAgree
  <2> QED
    BY <2>4, <2>5 DEF DecisionInv
<1>8. ASSUME NEW q \in QueueId, QueueSaves(q)  PROVE DecisionInv'
  BY <1>8 DEF QueueSaves, responseVars, DecisionInv, RowsConsistent, CopiesAgree
<1>9. CASE UNCHANGED vars
  BY <1>9 DEF vars, responseVars, DecisionInv, RowsConsistent, CopiesAgree
<1> QED
  BY <1>1, <1>2, <1>3, <1>4, <1>5, <1>6, <1>7, <1>8, <1>9 DEF Next, Step

\* No stored row mixes two decisions, whichever stale copies are saved.
THEOREM RowsStayConsistent == Spec => []RowsConsistent
<1>1. Spec => [](TypeInv /\ DecisionInv)
  BY InitTypes, NextTypes, InitDecisions, NextDecisions, PTL DEF Spec
<1> QED
  BY <1>1, PTL DEF DecisionInv

LEMMA StepStands ==
  ASSUME TypeInv, DecisionInv, [Next]_vars, NEW r \in DOMAIN requests
  PROVE  DecisionStands(r)
<1>1. CASE requests' = requests
  BY <1>1 DEF DecisionStands
<1>2. ASSUME NEW w \in Worker, Save(w), requests' # requests  PROVE DecisionStands(r)
  <2>1. /\ call[w].req \in DOMAIN requests /\ call[w].req \in RequestId
        /\ held[w] \in RequestRow
        /\ Agrees("save", held[w], requests[call[w].req])
        /\ SaveRequest(call[w].req, held[w])
    BY <1>2 DEF Save, TypeInv, BusyHolds, Holding, Call, DecisionInv, CopiesAgree
  <2>2. /\ DOMAIN requests' = DOMAIN requests
        /\ requests'[call[w].req] = held[w]
        /\ \A s \in DOMAIN requests : s # call[w].req => requests'[s] = requests[s]
    BY <2>1, SaveRequestTable DEF TypeInv, TypeOK, StoreTypeOK
  <2>3. CASE r = call[w].req
    BY <2>1, <2>2, <2>3 DEF Agrees, DecisionStands
  <2>4. CASE r # call[w].req
    BY <2>2, <2>4 DEF DecisionStands
  <2> QED
    BY <2>3, <2>4
<1>3. ASSUME NEW id \in RequestId, FormSaves(id)  PROVE DecisionStands(r)
  <2>1. PICK creator \in Creators, recipient \in Recipients :
          SaveRequest(id, NewRequest(creator, recipient))
    BY <1>3 DEF FormSaves
  <2>2. NewRequest(creator, recipient) \in RequestRow
    BY ResponseAssumption, NewRequestRow
  <2>3. r # id /\ r \in DOMAIN requests' /\ requests'[r] = requests[r]
    BY <1>3, <2>1, <2>2, SaveRequestTable DEF FormSaves, Found, TypeInv, TypeOK, StoreTypeOK
  <2> QED
    BY <2>3 DEF DecisionStands
<1>4. \/ requests' = requests
      \/ \E w \in Worker : Save(w)
      \/ \E id \in RequestId : FormSaves(id)
  BY DEF Next, Step, Start, Authorize, TellCreator, TellAcceptor, Crash, QueueSaves, vars, responseVars
<1> QED
  BY <1>1, <1>2, <1>3, <1>4

\* A decided request is never pending again, a pending one never completed at
\* a stroke, and creator and recipient stay, whichever stale copies are saved.
THEOREM DecisionsAreKept == Spec => DecisionsStand
<1>1. TypeInv /\ DecisionInv /\ [Next]_vars => [\A r \in DOMAIN requests : DecisionStands(r)]_vars
  BY StepStands
<1> QED
  BY <1>1, InitTypes, NextTypes, InitDecisions, NextDecisions, PTL DEF Spec, DecisionsStand

-----------------------------------------------------------------------------
(* Where acceptors and notices come from *)

\* `history` has a saved AcceptRequest of user u for request r.
HasAccepted(history, r, u) ==
  \E c \in history : c.call.op = "accept" /\ c.call.req = r /\ c.call.user = u

\* The acceptor in a copy has accepted, or is about to by this very save; and a
\* goroutine sends messages about a call that was saved with this copy.
CopiesTraced ==
  \A w \in Worker :
    /\ pc[w] \in Holding /\ held[w].acceptedBy # Empty =>
         \/ HasAccepted(commits, call[w].req, held[w].acceptedBy)
         \/ pc[w] = "save" /\ call[w].op = "accept" /\ call[w].user = held[w].acceptedBy
    /\ pc[w] \in {"creator", "acceptor"} =>
         [call |-> call[w], wrote |-> held[w]] \in commits

TraceInv == AcceptorReallyAccepted /\ NoticesAreTrue /\ CopiesTraced

\* History only grows, and what it supports stays supported.
LEMMA HistoryGrows ==
  ASSUME TraceInv, commits \subseteq commits'
  PROVE  /\ \A r, u : HasAccepted(commits, r, u) => HasAccepted(commits', r, u)
         /\ sent' = sent => NoticesAreTrue'
BY DEF HasAccepted, TraceInv, NoticesAreTrue

LEMMA QuietTrace ==
  ASSUME TypeInv, TraceInv, commits' = commits, requests' = requests, sent' = sent,
         \A w \in Worker : pc'[w] \in Holding =>
            pc[w] \in Holding /\ pc'[w] = pc[w] /\ call'[w] = call[w] /\ held'[w] = held[w]
  PROVE  TraceInv'
BY DEF TraceInv, AcceptorReallyAccepted, NoticesAreTrue, CopiesTraced, HasAccepted, Holding

LEMMA InitTrace == Init => TraceInv
BY DEF Init, StoreInit, EmptyTable, TraceInv, AcceptorReallyAccepted, NoticesAreTrue,
       CopiesTraced, Holding

\* A message sent after the save tells of that save, and of somebody's acceptance.
LEMMA TellTrue ==
  ASSUME TypeInv, TraceInv, NEW w \in Worker, NEW role \in {"creator", "acceptor"},
         pc[w] \in {"creator", "acceptor"}, Tell(w, role), commits' = commits
  PROVE  NoticesAreTrue'
<1>1. [call |-> call[w], wrote |-> held[w]] \in commits /\ call[w] \in Call
  BY DEF TraceInv, CopiesTraced, TypeInv, BusyHolds, Holding
<1>2. held[w].acceptedBy # Empty => HasAccepted(commits, call[w].req, held[w].acceptedBy)
  BY DEF TraceInv, CopiesTraced, Holding
<1> DEFINE n == NoticeTo(role, call[w], held[w])
<1>3. NoticeDue(role, call[w], held[w]) =>
        \E c \in commits :
          /\ c.call = n.call
          /\ n.as = "creator" => n.to = c.wrote.createdBy
          /\ n.as = "acceptor" =>
               \E a \in commits : /\ a.call.op = "accept" /\ a.call.req = n.call.req
                                  /\ a.call.user = n.to
          /\ n.call.op = "complete" => n.to # n.call.user
  <2>1. n.call = call[w] /\ n.as = role
        /\ (role = "creator" => n.to = held[w].createdBy)
        /\ (role = "acceptor" => n.to = held[w].acceptedBy)
    BY DEF NoticeTo
  <2> QED
    BY <1>1, <1>2, <2>1 DEF NoticeDue, HasAccepted
<1>4. sent' = sent \/ (NoticeDue(role, call[w], held[w]) /\ sent' = sent \cup {n})
  BY DEF Tell
<1>5. NoticesAreTrue
  BY DEF TraceInv
<1> HIDE DEF n
<1> QED
  BY <1>3, <1>4, <1>5 DEF NoticesAreTrue

LEMMA NextTrace == TypeInv /\ TraceInv /\ [Next]_vars => TraceInv'
<1> SUFFICES ASSUME TypeInv, TraceInv, [Next]_vars  PROVE TraceInv'
  OBVIOUS
<1>1. ASSUME NEW w \in Worker, Start(w)  PROVE TraceInv'
  <2>1. PICK c \in Call : /\ Found(requests, c.req)
                          /\ call' = [call EXCEPT ![w] = c]
                          /\ held' = [held EXCEPT ![w] = requests[c.req]]
    BY <1>1 DEF Start
  <2>2. /\ requests' = requests /\ commits' = commits /\ sent' = sent
        /\ pc' = [pc EXCEPT ![w] = "authorize"]
    BY <1>1 DEF Start
  <2>3. requests[c.req].acceptedBy # Empty => HasAccepted(commits, c.req, requests[c.req].acceptedBy)
    BY <2>1 DEF TraceInv, AcceptorReallyAccepted, HasAccepted, Found
  <2>4. CopiesTraced'
    BY <2>1, <2>2, <2>3 DEF TraceInv, CopiesTraced, HasAccepted, TypeInv, TypeOK
  <2> QED
    BY <2>2, <2>4 DEF TraceInv, AcceptorReallyAccepted, NoticesAreTrue
<1>2. ASSUME NEW w \in Worker, Authorize(w)  PROVE TraceInv'
  <2>1. /\ call[w] \in Call /\ held[w] \in RequestRow /\ pc[w] = "authorize"
        /\ requests' = requests /\ commits' = commits /\ sent' = sent
    BY <1>2 DEF Authorize, TypeInv, BusyHolds, Holding
  <2>2. CASE Return(w)
    BY <2>1, <2>2, QuietTrace, ReturnQuiet
  <2>3. CASE Permitted(call[w], held[w]) /\ Proceed(w, "save", Applied(call[w], held[w]))
    <3> DEFINE row == Applied(call[w], held[w])
    <3>1. row.acceptedBy # Empty =>
            \/ HasAccepted(commits, call[w].req, row.acceptedBy)
            \/ call[w].op = "accept" /\ call[w].user = row.acceptedBy
      BY <2>1, <2>3, AppliedRow DEF TraceInv, CopiesTraced, Holding
    <3>2. /\ call' = call /\ held' = [held EXCEPT ![w] = row]
          /\ pc' = [pc EXCEPT ![w] = "save"]
      BY <2>3 DEF Proceed
    <3> HIDE DEF row
    <3>3. CopiesTraced'
      BY <2>1, <3>1, <3>2 DEF TraceInv, CopiesTraced, HasAccepted, TypeInv, TypeOK
    <3> QED
      BY <2>1, <3>3 DEF TraceInv, AcceptorReallyAccepted, NoticesAreTrue
  <2> QED
    BY <1>2, <2>2, <2>3 DEF Authorize
<1>3. ASSUME NEW w \in Worker, Save(w)  PROVE TraceInv'
  <2>1. /\ call[w] \in Call /\ held[w] \in RequestRow /\ pc[w] = "save"
        /\ call[w].req \in DOMAIN requests /\ call[w].req \in RequestId
        /\ sent' = sent
    BY <1>3 DEF Save, TypeInv, BusyHolds, Holding, Call
  <2>2. CASE Return(w) /\ UNCHANGED <<requests, commits>>
    BY <2>1, <2>2, QuietTrace, ReturnQuiet
  <2>3. CASE /\ SaveRequest(call[w].req, held[w])
             /\ commits' = commits \cup {[call |-> call[w], wrote |-> held[w]]}
             /\ Proceed(w, "creator", held[w])
    <3>1. /\ DOMAIN requests' = DOMAIN requests
          /\ requests'[call[w].req] = held[w]
          /\ \A r \in DOMAIN requests : r # call[w].req => requests'[r] = requests[r]
      BY <2>1, <2>3, SaveRequestTable DEF TypeInv, TypeOK, StoreTypeOK
    <3>2. /\ \A r, u : HasAccepted(commits, r, u) => HasAccepted(commits', r, u)
          /\ NoticesAreTrue'
      BY <2>1, <2>3, HistoryGrows
    <3>3. call[w].op = "accept" => HasAccepted(commits', call[w].req, call[w].user)
      <4> DEFINE c == [call |-> call[w], wrote |-> held[w]]
      <4>1. c \in commits' /\ c.call = call[w]
        BY <2>3
      <4> HIDE DEF c
      <4> QED
        BY <4>1 DEF HasAccepted
    <3>4. held[w].acceptedBy # Empty => HasAccepted(commits', call[w].req, held[w].acceptedBy)
      BY <2>1, <3>2, <3>3 DEF TraceInv, CopiesTraced, Holding
    <3>5. AcceptorReallyAccepted'
      <4>1. ASSUME NEW r \in DOMAIN requests', requests'[r].acceptedBy # Empty
            PROVE  HasAccepted(commits', r, requests'[r].acceptedBy)
        <5>1. CASE r = call[w].req
          BY <3>1, <3>4, <4>1, <5>1
        <5>2. CASE r # call[w].req
          <6>1. HasAccepted(commits, r, requests[r].acceptedBy)
            BY <3>1, <4>1, <5>2 DEF TraceInv, AcceptorReallyAccepted, HasAccepted
          <6> QED
            BY <3>1, <3>2, <4>1, <5>2, <6>1
        <5> QED
          BY <5>1, <5>2
      <4> QED
        BY <4>1 DEF AcceptorReallyAccepted, HasAccepted
    <3>6. CopiesTraced'
      <4>1. /\ call' = call /\ held' = [held EXCEPT ![w] = held[w]]
            /\ pc' = [pc EXCEPT ![w] = "creator"]
            /\ [call |-> call[w], wrote |-> held[w]] \in commits' /\ commits \subseteq commits'
        BY <2>3 DEF Proceed
      <4>2. held' = held
        BY <4>1 DEF TypeInv, TypeOK
      <4>3. ASSUME NEW v \in Worker, pc'[v] \in Holding, held'[v].acceptedBy # Empty
            PROVE  \/ HasAccepted(commits', call'[v].req, held'[v].acceptedBy)
                   \/ pc'[v] = "save" /\ call'[v].op = "accept" /\ call'[v].user = held'[v].acceptedBy
        <5>1. CASE v = w
          BY <3>4, <4>1, <4>2, <4>3, <5>1
        <5>2. CASE v # w
          <6>1. pc'[v] = pc[v]
            BY <4>1, <5>2 DEF TypeInv, TypeOK
          <6>2. \/ HasAccepted(commits, call[v].req, held[v].acceptedBy)
                \/ pc[v] = "save" /\ call[v].op = "accept" /\ call[v].user = held[v].acceptedBy
            BY <4>2, <4>3, <6>1 DEF TraceInv, CopiesTraced
          <6> QED
            BY <3>2, <4>1, <4>2, <6>1, <6>2
        <5> QED
          BY <5>1, <5>2
      <4>4. ASSUME NEW v \in Worker, pc'[v] \in {"creator", "acceptor"}
            PROVE  [call |-> call'[v], wrote |-> held'[v]] \in commits'
        BY <4>1, <4>2, <4>4 DEF TraceInv, CopiesTraced, TypeInv, TypeOK
      <4> QED
        BY <4>3, <4>4 DEF CopiesTraced, HasAccepted
    <3> QED
      BY <3>2, <3>5, <3>6 DEF TraceInv
  <2> QED
    BY <1>3, <2>2, <2>3 DEF Save
<1>4. ASSUME NEW w \in Worker, TellCreator(w)  PROVE TraceInv'
  <2>1. /\ pc[w] = "creator" /\ Proceed(w, "acceptor", held[w])
        /\ Tell(w, "creator") /\ requests' = requests /\ commits' = commits
    BY <1>4 DEF TellCreator
  <2>2. NoticesAreTrue'
    BY <2>1, TellTrue
  <2>3. CopiesTraced'
    BY <2>1 DEF Proceed, TraceInv, CopiesTraced, HasAccepted, Holding, TypeInv, TypeOK
  <2> QED
    BY <2>1, <2>2, <2>3 DEF TraceInv, AcceptorReallyAccepted
<1>5. ASSUME NEW w \in Worker, TellAcceptor(w)  PROVE TraceInv'
  <2>1. /\ pc[w] = "acceptor" /\ Return(w)
        /\ Tell(w, "acceptor") /\ requests' = requests /\ commits' = commits
    BY <1>5 DEF TellAcceptor
  <2>2. NoticesAreTrue'
    BY <2>1, TellTrue
  <2>3. CopiesTraced'
    BY <2>1, ReturnQuiet DEF TraceInv, CopiesTraced, HasAccepted, Holding
  <2> QED
    BY <2>1, <2>2, <2>3 DEF TraceInv, AcceptorReallyAccepted
<1>6. CASE Crash
  BY <1>6, QuietTrace DEF Crash, Holding
<1>7. ASSUME NEW r \in RequestId, FormSaves(r)  PROVE TraceInv'
  <2>1. PICK creator \in Creators, recipient \in Recipients :
          SaveRequest(r, NewRequest(creator, recipient))
    BY <1>7 DEF FormSaves
  <2>2. /\ NewRequest(creator, recipient) \in RequestRow
        /\ NewRequest(creator, recipient).acceptedBy = Empty
    BY ResponseAssumption, NewRequestRow DEF NewRequest
  <2>3. /\ r \notin DOMAIN requests /\ DOMAIN requests' = DOMAIN requests \cup {r}
        /\ requests'[r].acceptedBy = Empty
        /\ \A s \in DOMAIN requests : requests'[s] = requests[s]
    BY <1>7, <2>1, <2>2, SaveRequestTable DEF FormSaves, Found, TypeInv, TypeOK, StoreTypeOK
  <2>4. AcceptorReallyAccepted'
    BY <1>7, <2>3 DEF FormSaves, responseVars, TraceInv, AcceptorReallyAccepted
  <2> QED
    BY <1>7, <2>4 DEF FormSaves, responseVars, TraceInv, NoticesAreTrue, CopiesTraced, HasAccepted
<1>8. ASSUME NEW q \in QueueId, QueueSaves(q)  PROVE TraceInv'
  BY <1>8 DEF QueueSaves, responseVars, TraceInv, AcceptorReallyAccepted, NoticesAreTrue,
              CopiesTraced, HasAccepted
<1>9. CASE UNCHANGED vars
  BY <1>9 DEF vars, responseVars, TraceInv, AcceptorReallyAccepted, NoticesAreTrue,
              CopiesTraced, HasAccepted
<1> QED
  BY <1>1, <1>2, <1>3, <1>4, <1>5, <1>6, <1>7, <1>8, <1>9 DEF Next, Step

\* Nobody is ever named as acceptor of a request he did not accept, whichever
\* stale copies are saved.
THEOREM AcceptorsAccepted == Spec => []AcceptorReallyAccepted
<1>1. Spec => [](TypeInv /\ TraceInv)
  BY InitTypes, NextTypes, InitTrace, NextTrace, PTL DEF Spec
<1> QED
  BY <1>1, PTL DEF TraceInv

\* No direct message reports what was not saved or reaches an outsider.
THEOREM NoticesStayTrue == Spec => []NoticesAreTrue
<1>1. Spec => [](TypeInv /\ TraceInv)
  BY InitTypes, NextTypes, InitTrace, NextTrace, PTL DEF Spec
<1> QED
  BY <1>1, PTL DEF TraceInv

-----------------------------------------------------------------------------
(* Who may become an acceptor *)

\* The acceptor in a row is the user it is addressed to, or among those `staff`
\* lists for the queue it is addressed to.
Entitled(row, staff) ==
  row.acceptedBy # Empty =>
    /\ row.recipient.type = "user"  => row.acceptedBy = row.recipient.id
    /\ row.recipient.type = "queue" => <<row.recipient.id, row.acceptedBy>> \in staff

\* The history of staff covers the staff of the moment.
StaffRecorded ==
  \A q \in DOMAIN queues, u \in User :
    CanRespondToRequests(queues[q], u) => <<q, u>> \in staffed

CopiesEntitled == \A w \in Worker : pc[w] \in Holding => Entitled(held[w], staffed)

RowsEntitled == \A r \in DOMAIN requests : Entitled(requests[r], staffed)

EligibleInv == StaffRecorded /\ CopiesEntitled /\ RowsEntitled

LEMMA AppliedEntitled ==
  ASSUME NEW c \in Call, NEW row \in RequestRow, StaffRecorded,
         ContextBuilt(row), Permitted(c, row), Entitled(row, staffed)
  PROVE  Entitled(Applied(c, row), staffed)
<1>1. Applied(c, row).recipient = row.recipient
  BY AppliedRow
<1>2. CASE Applied(c, row).acceptedBy = row.acceptedBy
  BY <1>1, <1>2 DEF Entitled
<1>3. CASE c.op = "accept" /\ Applied(c, row).acceptedBy = c.user
  <2>1. CanAccept(row, QueueOf(row), c.user) /\ c.user \in User
    BY <1>3 DEF Permitted, Call
  <2>2. CASE row.recipient.type = "user"
    BY <1>1, <1>3, <2>1, <2>2 DEF CanAccept, Entitled
  <2>3. CASE row.recipient.type = "queue"
    <3>1. row.recipient.id \in DOMAIN queues /\ QueueOf(row) = queues[row.recipient.id]
      BY <2>3 DEF ContextBuilt, Found, QueueOf
    <3>2. CanRespondToRequests(queues[row.recipient.id], c.user)
      BY <2>1, <2>3, <3>1 DEF CanAccept
    <3> QED
      BY <1>1, <1>3, <2>1, <2>3, <3>1, <3>2 DEF StaffRecorded, Entitled
  <2> QED
    BY <1>1, <2>2, <2>3 DEF Entitled
<1> QED
  BY <1>2, <1>3, AppliedRow

LEMMA QuietEligible ==
  ASSUME TypeInv, EligibleInv, requests' = requests, queues' = queues, staffed' = staffed,
         \A w \in Worker : pc'[w] \in Holding =>
            pc[w] \in Holding /\ pc'[w] = pc[w] /\ call'[w] = call[w] /\ held'[w] = held[w]
  PROVE  EligibleInv'
BY DEF EligibleInv, StaffRecorded, CopiesEntitled, RowsEntitled

LEMMA InitEligible == Init => EligibleInv
BY DEF Init, StoreInit, EmptyTable, EligibleInv, StaffRecorded, CopiesEntitled, RowsEntitled, Holding

LEMMA NextEligible == TypeInv /\ EligibleInv /\ [Next]_vars => EligibleInv'
<1> SUFFICES ASSUME TypeInv, EligibleInv, [Next]_vars  PROVE EligibleInv'
  OBVIOUS
<1>1. ASSUME NEW w \in Worker, Start(w)  PROVE EligibleInv'
  <2>1. PICK c \in Call : /\ Found(requests, c.req)
                          /\ held' = [held EXCEPT ![w] = requests[c.req]]
    BY <1>1 DEF Start
  <2>2. Entitled(requests[c.req], staffed)
    BY <2>1 DEF Found, EligibleInv, RowsEntitled
  <2> QED
    BY <1>1, <2>1, <2>2 DEF Start, EligibleInv, StaffRecorded, CopiesEntitled, RowsEntitled,
                            TypeInv, TypeOK
<1>2. ASSUME NEW w \in Worker, Authorize(w)  PROVE EligibleInv'
  <2>1. /\ call[w] \in Call /\ held[w] \in RequestRow /\ pc[w] = "authorize"
        /\ Entitled(held[w], staffed)
        /\ requests' = requests /\ queues' = queues /\ staffed' = staffed
    BY <1>2 DEF Authorize, TypeInv, BusyHolds, Holding, EligibleInv, CopiesEntitled
  <2>2. CASE Return(w)
    BY <2>1, <2>2, QuietEligible, ReturnQuiet
  <2>3. CASE /\ ContextBuilt(held[w]) /\ Permitted(call[w], held[w])
             /\ Proceed(w, "save", Applied(call[w], held[w]))
    <3>1. Entitled(Applied(call[w], held[w]), staffed)
      BY <2>1, <2>3, AppliedEntitled DEF EligibleInv
    <3> QED
      BY <2>1, <2>3, <3>1 DEF Proceed, EligibleInv, StaffRecorded, CopiesEntitled, RowsEntitled,
                              TypeInv, TypeOK
  <2> QED
    BY <1>2, <2>2, <2>3 DEF Authorize
<1>3. ASSUME NEW w \in Worker, Save(w)  PROVE EligibleInv'
  <2>1. /\ held[w] \in RequestRow /\ pc[w] = "save"
        /\ call[w].req \in DOMAIN requests /\ call[w].req \in RequestId
        /\ Entitled(held[w], staffed)
        /\ queues' = queues /\ staffed' = staffed
    BY <1>3 DEF Save, TypeInv, BusyHolds, Holding, Call, EligibleInv, CopiesEntitled
  <2>2. CASE Return(w) /\ UNCHANGED <<requests, commits>>
    BY <2>1, <2>2, QuietEligible, ReturnQuiet
  <2>3. CASE SaveRequest(call[w].req, held[w]) /\ Proceed(w, "creator", held[w])
    <3>1. /\ DOMAIN requests' = DOMAIN requests
          /\ requests'[call[w].req] = held[w]
          /\ \A r \in DOMAIN requests : r # call[w].req => requests'[r] = requests[r]
      BY <2>1, <2>3, SaveRequestTable DEF TypeInv, TypeOK, StoreTypeOK
    <3>2. RowsEntitled'
      BY <2>1, <3>1 DEF EligibleInv, RowsEntitled
    <3>3. CopiesEntitled'
      BY <2>1, <2>3 DEF Proceed, EligibleInv, CopiesEntitled, Holding, TypeInv, TypeOK
    <3> QED
      BY <2>1, <3>2, <3>3 DEF EligibleInv, StaffRecorded
  <2> QED
    BY <1>3, <2>2, <2>3 DEF Save
<1>4. ASSUME NEW w \in Worker, TellCreator(w)  PROVE EligibleInv'
  BY <1>4 DEF TellCreator, Proceed, EligibleInv, StaffRecorded, CopiesEntitled, RowsEntitled,
              Holding, TypeInv, TypeOK
<1>5. ASSUME NEW w \in Worker, TellAcceptor(w)  PROVE EligibleInv'
  BY <1>5, QuietEligible, ReturnQuiet DEF TellAcceptor
<1>6. CASE Crash
  BY <1>6, QuietEligible DEF Crash, Holding
<1>7. ASSUME NEW r \in RequestId, FormSaves(r)  PROVE EligibleInv'
  <2>1. PICK creator \in Creators, recipient \in Recipients :
          SaveRequest(r, NewRequest(creator, recipient))
    BY <1>7 DEF FormSaves
  <2>2. /\ NewRequest(creator, recipient) \in RequestRow
        /\ Entitled(NewRequest(creator, recipient), staffed)
    BY ResponseAssumption, NewRequestRow DEF NewRequest, Entitled
  <2>3. /\ DOMAIN requests' = DOMAIN requests \cup {r}
        /\ requests'[r] = NewRequest(creator, recipient)
        /\ \A s \in DOMAIN requests : s # r => requests'[s] = requests[s]
    BY <2>1, <2>2, SaveRequestTable DEF TypeInv, TypeOK, StoreTypeOK
  <2>4. RowsEntitled'
    BY <1>7, <2>2, <2>3 DEF FormSaves, EligibleInv, RowsEntitled
  <2> QED
    BY <1>7, <2>4 DEF FormSaves, responseVars, EligibleInv, StaffRecorded, CopiesEntitled
<1>8. ASSUME NEW q \in QueueId, QueueSaves(q)  PROVE EligibleInv'
  <2>1. PICK row :
          /\ SaveQueue(q, row)
          /\ staffed' = staffed \cup ({q} \X {u \in User : CanRespondToRequests(row, u)})
    BY <1>8 DEF QueueSaves
  <2>2. DOMAIN queues' = DOMAIN queues \cup {q}
        /\ queues'[q] = row /\ \A p \in DOMAIN queues : p # q => queues'[p] = queues[p]
    BY <2>1 DEF SaveQueue, Upsert
  <2>3. StaffRecorded'
    BY <2>1, <2>2 DEF EligibleInv, StaffRecorded
  <2>4. \A row2 : Entitled(row2, staffed) => Entitled(row2, staffed')
    BY <2>1 DEF Entitled
  <2> QED
    BY <1>8, <2>3, <2>4 DEF QueueSaves, responseVars, EligibleInv, CopiesEntitled, RowsEntitled
<1>9. CASE UNCHANGED vars
  BY <1>9 DEF vars, responseVars, EligibleInv, StaffRecorded, CopiesEntitled, RowsEntitled
<1> QED
  BY <1>1, <1>2, <1>3, <1>4, <1>5, <1>6, <1>7, <1>8, <1>9 DEF Next, Step

\* Only the addressed user, or somebody who has been on the staff of the
\* addressed queue, ever becomes the acceptor, whichever stale copies are saved.
THEOREM AcceptorsWereEligible == Spec => []AcceptorWasEligible
<1>1. Spec => [](TypeInv /\ EligibleInv)
  BY InitTypes, NextTypes, InitEligible, NextEligible, PTL DEF Spec
<1>2. EligibleInv => AcceptorWasEligible
  BY DEF EligibleInv, RowsEntitled, Entitled, AcceptorWasEligible
<1> QED
  BY <1>1, <1>2, PTL

-----------------------------------------------------------------------------
(* Requests nobody can answer *)

Unanswered(row) == DeadEnd(row) => row.status = "pending"

CopiesUnanswered == \A w \in Worker : pc[w] \in Holding => Unanswered(held[w])

DeadEndInv == DeadEndsStayPending /\ CopiesUnanswered

LEMMA NothingPermitted ==
  ASSUME NEW c \in Call, NEW row \in RequestRow,
         Unanswered(row), ContextBuilt(row), Permitted(c, row)
  PROVE  Unanswered(Applied(c, row))
<1>1. ~ DeadEnd(row)
  <2> SUFFICES ASSUME DeadEnd(row)  PROVE FALSE
    OBVIOUS
  <2>1. row.status = "pending"
    BY DEF Unanswered
  <2>2. row.recipient.type = "user" /\ row.recipient.id = row.createdBy
    BY DEF DeadEnd, ContextBuilt
  <2>3. ~ CanAccept(row, QueueOf(row), c.user) /\ ~ CanComplete(row, c.user)
    BY <2>1, <2>2 DEF CanAccept, CanComplete, CanBeCompletedBy
  <2> QED
    BY <2>3 DEF Permitted, CanReject
<1>2. /\ Applied(c, row).recipient = row.recipient
      /\ Applied(c, row).createdBy = row.createdBy
  BY AppliedRow
<1> QED
  BY <1>1, <1>2 DEF Unanswered, DeadEnd

LEMMA QuietDeadEnds ==
  ASSUME TypeInv, DeadEndInv, requests' = requests, queues' = queues,
         \A w \in Worker : pc'[w] \in Holding =>
            pc[w] \in Holding /\ pc'[w] = pc[w] /\ call'[w] = call[w] /\ held'[w] = held[w]
  PROVE  DeadEndInv'
BY DEF DeadEndInv, DeadEndsStayPending, CopiesUnanswered, Unanswered, DeadEnd

LEMMA InitDeadEnds == Init => DeadEndInv
BY DEF Init, StoreInit, EmptyTable, DeadEndInv, DeadEndsStayPending, CopiesUnanswered,
       Holding

LEMMA NextDeadEnds == TypeInv /\ DeadEndInv /\ [Next]_vars => DeadEndInv'
<1> SUFFICES ASSUME TypeInv, DeadEndInv, [Next]_vars  PROVE DeadEndInv'
  OBVIOUS
<1>1. ASSUME NEW w \in Worker, Start(w)  PROVE DeadEndInv'
  <2>1. PICK c \in Call : /\ Found(requests, c.req)
                          /\ held' = [held EXCEPT ![w] = requests[c.req]]
    BY <1>1 DEF Start
  <2>2. Unanswered(requests[c.req])
    BY <2>1 DEF Found, DeadEndInv, DeadEndsStayPending, Unanswered
  <2> QED
    BY <1>1, <2>1, <2>2 DEF Start, DeadEndInv, DeadEndsStayPending, CopiesUnanswered,
                            Unanswered, DeadEnd, TypeInv, TypeOK
<1>2. ASSUME NEW w \in Worker, Authorize(w)  PROVE DeadEndInv'
  <2>1. /\ call[w] \in Call /\ held[w] \in RequestRow /\ pc[w] = "authorize"
        /\ Unanswered(held[w]) /\ requests' = requests /\ queues' = queues
    BY <1>2 DEF Authorize, TypeInv, BusyHolds, Holding, DeadEndInv, CopiesUnanswered
  <2>2. CASE Return(w)
    BY <2>1, <2>2, QuietDeadEnds, ReturnQuiet
  <2>3. CASE /\ ContextBuilt(held[w]) /\ Permitted(call[w], held[w])
             /\ Proceed(w, "save", Applied(call[w], held[w]))
    <3>1. Unanswered(Applied(call[w], held[w]))
      BY <2>1, <2>3, NothingPermitted
    <3> QED
      BY <2>1, <2>3, <3>1 DEF Proceed, DeadEndInv, DeadEndsStayPending, CopiesUnanswered,
                              Unanswered, DeadEnd, TypeInv, TypeOK
  <2> QED
    BY <1>2, <2>2, <2>3 DEF Authorize
<1>3. ASSUME NEW w \in Worker, Save(w)  PROVE DeadEndInv'
  <2>1. /\ held[w] \in RequestRow /\ pc[w] = "save"
        /\ call[w].req \in DOMAIN requests /\ call[w].req \in RequestId
        /\ Unanswered(held[w]) /\ queues' = queues
    BY <1>3 DEF Save, TypeInv, BusyHolds, Holding, Call, DeadEndInv, CopiesUnanswered
  <2>2. CASE Return(w) /\ UNCHANGED <<requests, commits>>
    BY <2>1, <2>2, QuietDeadEnds, ReturnQuiet
  <2>3. CASE SaveRequest(call[w].req, held[w]) /\ Proceed(w, "creator", held[w])
    <3>1. /\ DOMAIN requests' = DOMAIN requests
          /\ requests'[call[w].req] = held[w]
          /\ \A r \in DOMAIN requests : r # call[w].req => requests'[r] = requests[r]
      BY <2>1, <2>3, SaveRequestTable DEF TypeInv, TypeOK, StoreTypeOK
    <3>2. DeadEndsStayPending'
      BY <2>1, <3>1 DEF DeadEndInv, DeadEndsStayPending, Unanswered, DeadEnd
    <3>3. CopiesUnanswered'
      BY <2>1, <2>3 DEF Proceed, DeadEndInv, CopiesUnanswered, Unanswered, DeadEnd, Holding,
                        TypeInv, TypeOK
    <3> QED
      BY <3>2, <3>3 DEF DeadEndInv
  <2> QED
    BY <1>3, <2>2, <2>3 DEF Save
<1>4. ASSUME NEW w \in Worker, TellCreator(w)  PROVE DeadEndInv'
  BY <1>4 DEF TellCreator, Proceed, DeadEndInv, DeadEndsStayPending, CopiesUnanswered,
              Unanswered, DeadEnd, Holding, TypeInv, TypeOK
<1>5. ASSUME NEW w \in Worker, TellAcceptor(w)  PROVE DeadEndInv'
  BY <1>5, QuietDeadEnds, ReturnQuiet DEF TellAcceptor
<1>6. CASE Crash
  BY <1>6, QuietDeadEnds DEF Crash, Holding
<1>7. ASSUME NEW r \in RequestId, FormSaves(r)  PROVE DeadEndInv'
  <2>1. PICK creator \in Creators, recipient \in Recipients :
          SaveRequest(r, NewRequest(creator, recipient))
    BY <1>7 DEF FormSaves
  <2>2. /\ NewRequest(creator, recipient) \in RequestRow
        /\ NewRequest(creator, recipient).status = "pending"
    BY ResponseAssumption, NewRequestRow DEF NewRequest
  <2>3. /\ DOMAIN requests' = DOMAIN requests \cup {r}
        /\ requests'[r] = NewRequest(creator, recipient)
        /\ \A s \in DOMAIN requests : s # r => requests'[s] = requests[s]
    BY <2>1, <2>2, SaveRequestTable DEF TypeInv, TypeOK, StoreTypeOK
  <2>4. DeadEndsStayPending'
    BY <1>7, <2>2, <2>3 DEF FormSaves, DeadEndInv, DeadEndsStayPending, DeadEnd
  <2> QED
    BY <1>7, <2>4 DEF FormSaves, responseVars, DeadEndInv, CopiesUnanswered, Unanswered,
                      DeadEnd
<1>8. ASSUME NEW q \in QueueId, QueueSaves(q)  PROVE DeadEndInv'
  <2>1. DOMAIN queues' = DOMAIN queues \cup {q}
    BY <1>8 DEF QueueSaves, SaveQueue, Upsert
  <2>2. \A row : DeadEnd(row)' => DeadEnd(row)
    BY <2>1 DEF DeadEnd, Found
  <2> QED
    BY <1>8, <2>2 DEF QueueSaves, responseVars, DeadEndInv, DeadEndsStayPending,
                      CopiesUnanswered, Unanswered
<1>9. CASE UNCHANGED vars
  BY <1>9 DEF vars, responseVars, DeadEndInv, DeadEndsStayPending, CopiesUnanswered,
              Unanswered, DeadEnd
<1> QED
  BY <1>1, <1>2, <1>3, <1>4, <1>5, <1>6, <1>7, <1>8, <1>9 DEF Next, Step

\* A request nobody may answer stays pending for good, or until its queue is
\* made: no stale copy and no interleaving slips an answer past the check.
THEOREM DeadEndsAreFinal == Spec => []DeadEndsStayPending
<1>1. Spec => [](TypeInv /\ DeadEndInv)
  BY InitTypes, NextTypes, InitDeadEnds, NextDeadEnds, PTL DEF Spec
<1> QED
  BY <1>1, PTL DEF DeadEndInv

-----------------------------------------------------------------------------
(* Announcements *)

Told(role, c, row) == NoticeDue(role, c, row) => NoticeTo(role, c, row) \in sent

\* Who has come to the acceptor's message is done with the creator's.
CreatorsTold == \A w \in Worker : pc[w] = "acceptor" => Told("creator", call[w], held[w])

AnnounceInv == CreatorsTold /\ NoneForgotten

\* The steps that announce nothing, save nothing and end no announcement.
LEMMA QuietAnnouncements ==
  ASSUME AnnounceInv, UNCHANGED <<crashes, commits, sent>>,
         \A w \in Worker :
            /\ pc'[w] = "acceptor" => pc[w] = "acceptor"
            /\ {pc[w], pc'[w]} \cap {"creator", "acceptor"} # {} =>
                 pc'[w] = pc[w] /\ call'[w] = call[w] /\ held'[w] = held[w]
  PROVE  AnnounceInv'
<1>1. CreatorsTold'
  BY DEF AnnounceInv, CreatorsTold, Told
<1>2. \A c : Unannounced(c)' <=> Unannounced(c)
  BY DEF Unannounced
<1>3. \A w \in Worker : \A c : Announcing(w, c) => Announcing(w, c)'
  BY DEF Announcing
<1>4. NoneForgotten'
  BY <1>2, <1>3 DEF AnnounceInv, NoneForgotten
<1> QED
  BY <1>1, <1>4 DEF AnnounceInv

LEMMA InitAnnounce == Init => AnnounceInv
BY DEF Init, AnnounceInv, CreatorsTold, NoneForgotten

LEMMA NextAnnounce == TypeInv /\ AnnounceInv /\ [Next]_vars => AnnounceInv'
<1> SUFFICES ASSUME TypeInv, AnnounceInv, [Next]_vars  PROVE AnnounceInv'
  OBVIOUS
<1>1. ASSUME NEW w \in Worker, Start(w)  PROVE AnnounceInv'
  BY <1>1, QuietAnnouncements DEF Start, TypeInv, TypeOK
<1>2. ASSUME NEW w \in Worker, Authorize(w)  PROVE AnnounceInv'
  BY <1>2, QuietAnnouncements DEF Authorize, Proceed, Return, TypeInv, TypeOK
<1>3. ASSUME NEW w \in Worker, Save(w)  PROVE AnnounceInv'
  <2>1. CASE Return(w) /\ UNCHANGED commits
    BY <1>3, <2>1, QuietAnnouncements DEF Save, Return, TypeInv, TypeOK
  <2>2. CASE /\ Proceed(w, "creator", held[w])
             /\ commits' = commits \cup {[call |-> call[w], wrote |-> held[w]]}
    <3>1. /\ pc'[w] = "creator" /\ call'[w] = call[w] /\ held'[w] = held[w]
          /\ \A v \in Worker : v # w => pc'[v] = pc[v] /\ call'[v] = call[v] /\ held'[v] = held[v]
          /\ UNCHANGED <<crashes, sent>> /\ pc[w] = "save"
      BY <1>3, <2>2 DEF Save, Proceed, TypeInv, TypeOK
    <3>2. CreatorsTold'
      BY <3>1 DEF AnnounceInv, CreatorsTold, Told
    <3>3. \A v \in Worker : \A c : Announcing(v, c) => Announcing(v, c)'
      BY <3>1 DEF Announcing
    <3>4. Announcing(w, [call |-> call[w], wrote |-> held[w]])'
      BY <3>1 DEF Announcing
    <3>5. \A c : Unannounced(c)' <=> Unannounced(c)
      BY <3>1 DEF Unannounced
    <3>6. NoneForgotten'
      BY <2>2, <3>1, <3>3, <3>4, <3>5 DEF AnnounceInv, NoneForgotten
    <3> QED
      BY <3>2, <3>6 DEF AnnounceInv
  <2> QED
    BY <1>3, <2>1, <2>2 DEF Save
<1>4. ASSUME NEW w \in Worker, NEW role \in {"creator", "acceptor"}, Tell(w, role)
      PROVE  /\ NoticeDue(role, call[w], held[w]) => NoticeTo(role, call[w], held[w]) \in sent'
             /\ \A c : Unannounced(c)' => Unannounced(c)
             /\ \A some, c, row : Told(some, c, row) =>
                  (NoticeDue(some, c, row) => NoticeTo(some, c, row) \in sent')
  BY <1>4 DEF Tell, Unannounced, Told
<1>5. ASSUME NEW w \in Worker, TellCreator(w)  PROVE AnnounceInv'
  <2>1. /\ pc[w] = "creator" /\ pc'[w] = "acceptor" /\ call' = call
        /\ \A v \in Worker : v # w => pc'[v] = pc[v]
        /\ \A v \in Worker : held'[v] = held[v]
        /\ UNCHANGED <<crashes, commits>> /\ Tell(w, "creator")
    BY <1>5 DEF TellCreator, Proceed, TypeInv, TypeOK
  <2>2. CreatorsTold'
    BY <1>4, <2>1 DEF AnnounceInv, CreatorsTold, Told
  <2>3. \A v \in Worker : \A c : Announcing(v, c) => Announcing(v, c)'
    BY <2>1 DEF Announcing
  <2>4. NoneForgotten'
    BY <1>4, <2>1, <2>3 DEF AnnounceInv, NoneForgotten
  <2> QED
    BY <2>2, <2>4 DEF AnnounceInv
<1>6. ASSUME NEW w \in Worker, TellAcceptor(w)  PROVE AnnounceInv'
  <2>1. /\ pc[w] = "acceptor" /\ pc'[w] = "idle"
        /\ \A v \in Worker : v # w => pc'[v] = pc[v] /\ call'[v] = call[v] /\ held'[v] = held[v]
        /\ UNCHANGED <<crashes, commits>> /\ Tell(w, "acceptor")
    BY <1>6 DEF TellAcceptor, Return, TypeInv, TypeOK
  <2>2. CreatorsTold'
    BY <1>4, <2>1 DEF AnnounceInv, CreatorsTold, Told
  <2>3. ASSUME NEW c, Announcing(w, c)  PROVE ~ Unannounced(c)'
    <3>1. Told("creator", c.call, c.wrote)
      BY <2>1, <2>3 DEF AnnounceInv, CreatorsTold, Announcing
    <3> QED
      BY <1>4, <2>1, <2>3, <3>1 DEF Announcing, Unannounced
  <2>4. \A v \in Worker : \A c : v # w /\ Announcing(v, c) => Announcing(v, c)'
    BY <2>1 DEF Announcing
  <2>5. NoneForgotten'
    BY <1>4, <2>1, <2>3, <2>4 DEF AnnounceInv, NoneForgotten
  <2> QED
    BY <2>2, <2>5 DEF AnnounceInv
<1>7. CASE Crash
  <2>1. crashes' # 0
    BY <1>7 DEF Crash, TypeInv, TypeOK
  <2> QED
    BY <1>7, <2>1 DEF Crash, AnnounceInv, CreatorsTold, NoneForgotten
<1>8. ASSUME NEW r \in RequestId, FormSaves(r)  PROVE AnnounceInv'
  BY <1>8, QuietAnnouncements DEF FormSaves, responseVars
<1>9. ASSUME NEW q \in QueueId, QueueSaves(q)  PROVE AnnounceInv'
  BY <1>9, QuietAnnouncements DEF QueueSaves, responseVars
<1>10. CASE UNCHANGED vars
  BY <1>10, QuietAnnouncements DEF vars, responseVars
<1> QED
  BY <1>1, <1>2, <1>3, <1>5, <1>6, <1>7, <1>8, <1>9, <1>10 DEF Next, Step

\* As long as the process has not crashed, every decision saved is announced or
\* being announced: no goroutine ends with a message it owes, whatever fails.
THEOREM NoneIsForgotten == Spec => []NoneForgotten
<1>1. Spec => [](TypeInv /\ AnnounceInv)
  BY InitTypes, NextTypes, InitAnnounce, NextAnnounce, PTL DEF Spec
<1> QED
  BY <1>1, PTL DEF AnnounceInv

-----------------------------------------------------------------------------
(* One call at a time: the lifecycle *)

OneAtATime == \A v, w \in Worker : v = w

\* What the domain method of a call demands of the row it changes.
Legal(c, row) ==
  \/ c.op = "accept" /\ AcceptAllowed(row, c.user)
  \/ c.op = "reject" /\ RejectAllowed(row, c.reason)
  \/ c.op = "complete" /\ CompleteAllowed(row)

\* The only call there is works on the row as it is stored.
CopiesFresh ==
  \A w \in Worker :
    LET stored == requests[call[w].req] IN
    /\ pc[w] = "authorize" => held[w] = stored
    /\ pc[w] = "save" => held[w] = Applied(call[w], stored) /\ Legal(call[w], stored)

LEMMA InitFresh == Init => CopiesFresh
BY DEF Init, CopiesFresh

\* No step of the one call, and none of its surroundings, makes its copy stale.
LEMMA NextFresh == OneAtATime /\ TypeInv /\ CopiesFresh /\ [Next]_vars => CopiesFresh'
<1> SUFFICES ASSUME OneAtATime, TypeInv, CopiesFresh, [Next]_vars  PROVE CopiesFresh'
  OBVIOUS
<1>1. ASSUME NEW w \in Worker, Start(w)  PROVE CopiesFresh'
  <2>1. PICK c \in Call : /\ call' = [call EXCEPT ![w] = c]
                          /\ held' = [held EXCEPT ![w] = requests[c.req]]
    BY <1>1 DEF Start
  <2>2. requests' = requests /\ pc'[w] = "authorize" /\ call'[w] = c /\ held'[w] = requests[c.req]
    BY <1>1, <2>1 DEF Start, TypeInv, TypeOK
  <2> QED
    BY <2>2 DEF CopiesFresh, OneAtATime
<1>2. ASSUME NEW w \in Worker, Authorize(w)  PROVE CopiesFresh'
  <2>1. pc[w] = "authorize" /\ requests' = requests /\ held[w] = requests[call[w].req]
    BY <1>2 DEF Authorize, CopiesFresh
  <2>2. CASE Return(w)
    <3>1. pc'[w] = "idle"
      BY <2>2 DEF Return, TypeInv, TypeOK
    <3> QED
      BY <3>1 DEF CopiesFresh, OneAtATime
  <2>3. CASE Permitted(call[w], held[w]) /\ Proceed(w, "save", Applied(call[w], held[w]))
    <3>1. /\ pc'[w] = "save" /\ call'[w] = call[w]
          /\ held'[w] = Applied(call[w], held[w])
      BY <2>3 DEF Proceed, TypeInv, TypeOK
    <3>2. Legal(call[w], held[w])
      BY <2>3 DEF Permitted, Legal
    <3> QED
      BY <2>1, <3>1, <3>2 DEF CopiesFresh, OneAtATime
  <2> QED
    BY <1>2, <2>2, <2>3 DEF Authorize
<1>3. ASSUME NEW w \in Worker, Save(w) \/ TellCreator(w) \/ TellAcceptor(w)  PROVE CopiesFresh'
  <2>1. pc'[w] \in {"idle", "creator", "acceptor"}
    BY <1>3 DEF Save, TellCreator, TellAcceptor, Return, Proceed, TypeInv, TypeOK
  <2> QED
    BY <2>1 DEF CopiesFresh, OneAtATime
<1>4. CASE Crash
  BY <1>4 DEF Crash, CopiesFresh
<1>5. ASSUME NEW r \in RequestId, FormSaves(r)  PROVE CopiesFresh'
  <2>1. PICK creator \in Creators, recipient \in Recipients :
          SaveRequest(r, NewRequest(creator, recipient))
    BY <1>5 DEF FormSaves
  <2>2. \A s \in DOMAIN requests : requests'[s] = requests[s]
    BY <1>5, <2>1 DEF FormSaves, Found, SaveRequest, Upsert
  <2>3. \A w \in Worker : pc[w] \in {"authorize", "save"} => call[w].req \in DOMAIN requests
    BY DEF TypeInv, BusyHolds, Holding
  <2> QED
    BY <1>5, <2>2, <2>3 DEF FormSaves, responseVars, CopiesFresh
<1>6. ASSUME NEW q \in QueueId, QueueSaves(q)  PROVE CopiesFresh'
  BY <1>6 DEF QueueSaves, responseVars, CopiesFresh
<1>7. CASE UNCHANGED vars
  BY <1>7 DEF vars, responseVars, CopiesFresh
<1> QED
  BY <1>1, <1>2, <1>3, <1>4, <1>5, <1>6, <1>7 DEF Next, Step

\* An acceptance that was saved is still there to be seen.
AcceptancesStand ==
  \A c \in commits :
    c.call.op = "accept" =>
      /\ c.call.req \in DOMAIN requests
      /\ requests[c.call.req].status # "pending"
      /\ requests[c.call.req].acceptedBy = c.call.user

LEMMA NextAcceptances ==
  TypeInv /\ CopiesFresh /\ AcceptancesStand /\ [Next]_vars => AcceptancesStand'
<1> SUFFICES ASSUME TypeInv, CopiesFresh, AcceptancesStand, [Next]_vars  PROVE AcceptancesStand'
  OBVIOUS
<1>1. CASE UNCHANGED <<requests, commits>>
  BY <1>1 DEF AcceptancesStand
<1>2. ASSUME NEW w \in Worker, pc[w] = "save", SaveRequest(call[w].req, held[w]),
             commits' = commits \cup {[call |-> call[w], wrote |-> held[w]]}
      PROVE  AcceptancesStand'
  <2> DEFINE c == call[w]
             stored == requests[c.req]
  <2>1. /\ c \in Call /\ c.req \in RequestId /\ c.req \in DOMAIN requests
        /\ stored \in RequestRow /\ held[w] \in RequestRow
        /\ held[w] = Applied(c, stored) /\ Legal(c, stored)
    BY <1>2 DEF TypeInv, BusyHolds, Holding, Call, CopiesFresh, TypeOK, StoreTypeOK, IsTable
  <2>2. /\ DOMAIN requests' = DOMAIN requests
        /\ requests'[c.req] = held[w]
        /\ \A r \in DOMAIN requests : r # c.req => requests'[r] = requests[r]
    BY <1>2, <2>1, SaveRequestTable DEF TypeInv, TypeOK, StoreTypeOK
  <2> HIDE DEF c, stored
  <2>3. /\ held[w].status # "pending"
        /\ c.op = "accept" => stored.status = "pending" /\ held[w].acceptedBy = c.user
        /\ c.op # "accept" => held[w].acceptedBy = stored.acceptedBy
    BY <2>1 DEF Legal, Applied, Call, Accept, Reject, Complete, AcceptAllowed, RequestRow
  <2>4. ASSUME NEW d \in commits, d.call.op = "accept"
        PROVE  /\ d.call.req \in DOMAIN requests'
               /\ requests'[d.call.req].status # "pending"
               /\ requests'[d.call.req].acceptedBy = d.call.user
    <3>1. CASE d.call.req = c.req
      BY <2>1, <2>2, <2>3, <2>4, <3>1 DEF AcceptancesStand, stored
    <3>2. CASE d.call.req # c.req
      BY <2>2, <2>4, <3>2 DEF AcceptancesStand
    <3> QED
      BY <3>1, <3>2
  <2>5. \A d \in commits' : d \in commits \/ d.call = c
    BY <1>2 DEF c
  <2> QED
    BY <2>1, <2>2, <2>3, <2>4, <2>5 DEF AcceptancesStand
<1>3. ASSUME NEW r \in RequestId, FormSaves(r)  PROVE AcceptancesStand'
  <2>1. PICK creator \in Creators, recipient \in Recipients :
          SaveRequest(r, NewRequest(creator, recipient))
    BY <1>3 DEF FormSaves
  <2>2. /\ DOMAIN requests \subseteq DOMAIN requests' /\ commits' = commits
        /\ \A s \in DOMAIN requests : requests'[s] = requests[s]
    BY <1>3, <2>1 DEF FormSaves, Found, SaveRequest, Upsert, responseVars
  <2> QED
    BY <2>2 DEF AcceptancesStand
<1>4. \/ UNCHANGED <<requests, commits>>
      \/ \E w \in Worker : Save(w)
      \/ \E r \in RequestId : FormSaves(r)
  BY DEF Next, Step, Start, Authorize, TellCreator, TellAcceptor, Crash, QueueSaves, vars, responseVars
<1> QED
  BY <1>1, <1>2, <1>3, <1>4 DEF Save

\* First come, first served, while no two calls overlap: whatever fails, crashes
\* or happens to queues meanwhile, no request is accepted by two users.
THEOREM OneAtATimeAcceptsOnce ==
  ASSUME OneAtATime
  PROVE  Spec => []NoMultipleAcceptances
<1>1. Init => AcceptancesStand
  BY DEF Init, AcceptancesStand
<1>2. TypeInv /\ CopiesFresh /\ [Next]_vars => CopiesFresh'
  BY OneAtATime, NextFresh
<1>3. AcceptancesStand => NoMultipleAcceptances
  BY DEF AcceptancesStand, NoMultipleAcceptances
<1> QED
  BY <1>1, <1>2, <1>3, InitTypes, NextTypes, InitFresh, NextAcceptances, PTL DEF Spec

\* The lives of all requests.
Lives == [r \in RequestId |-> LifeOf(r)]

\* A step that stores one row changes one life.
LEMMA OneLifeChanges ==
  ASSUME TypeInv, NEW id \in RequestId, NEW row \in RequestRow, SaveRequest(id, row)
  PROVE  Lives' = [Lives EXCEPT ![id] = [phase |-> row.status, creator |-> row.createdBy,
                                         owner |-> row.acceptedBy]]
<1>1. /\ DOMAIN requests' = DOMAIN requests \cup {id}
      /\ requests'[id] = row
      /\ \A r \in DOMAIN requests : r # id => requests'[r] = requests[r]
  BY SaveRequestTable DEF TypeInv, TypeOK, StoreTypeOK
<1>2. LifeOf(id)' = [phase |-> row.status, creator |-> row.createdBy, owner |-> row.acceptedBy]
  BY <1>1 DEF LifeOf, Found
<1>3. \A r \in RequestId : r # id => LifeOf(r)' = LifeOf(r)
  BY <1>1 DEF LifeOf, Found
<1>4. Lives' = [r \in RequestId |-> LifeOf(r)']
  BY DEF Lives
<1> QED
  BY <1>2, <1>3, <1>4 DEF Lives

\* A legal change of a stored row is a step of its life.
LEMMA SaveIsDecision ==
  ASSUME TypeInv, CopiesFresh, NEW w \in Worker, pc[w] = "save",
         SaveRequest(call[w].req, held[w])
  PROVE  Lifecycle!Next
<1> DEFINE c == call[w]
           stored == requests[c.req]
<1>1. /\ c \in Call /\ c.req \in RequestId /\ c.req \in DOMAIN requests
      /\ stored \in RequestRow /\ held[w] \in RequestRow
      /\ held[w] = Applied(c, stored) /\ Legal(c, stored)
  BY DEF TypeInv, BusyHolds, Holding, Call, CopiesFresh, TypeOK, StoreTypeOK, IsTable
<1>2. Lives[c.req] = [phase |-> stored.status, creator |-> stored.createdBy,
                      owner |-> stored.acceptedBy]
  BY <1>1 DEF Lives, LifeOf, Found
<1>3. Lives' = [Lives EXCEPT ![c.req] = [phase |-> held[w].status, creator |-> held[w].createdBy,
                                         owner |-> held[w].acceptedBy]]
  BY <1>1, OneLifeChanges
<1> HIDE DEF c, stored
<1>4. CASE c.op = "accept"
  <2>1. c.user \in User /\ AcceptAllowed(stored, c.user) /\ held[w] = Accept(stored, c.user)
    BY <1>1, <1>4 DEF Call, Legal, Applied
  <2>2. /\ held[w].status = "accepted" /\ held[w].createdBy = stored.createdBy
        /\ held[w].acceptedBy = c.user
    BY <1>1, <2>1 DEF Accept, RequestRow
  <2>3. Lives' = [Lives EXCEPT ![c.req].phase = "accepted", ![c.req].owner = c.user]
    <3>1. [phase |-> held[w].status, creator |-> held[w].createdBy, owner |-> held[w].acceptedBy]
            = [Lives[c.req] EXCEPT !.phase = "accepted", !.owner = c.user]
      <4> DEFINE taken == [phase |-> "accepted", creator |-> stored.createdBy,
                           owner |-> stored.acceptedBy]
      <4>1. [Lives[c.req] EXCEPT !.phase = "accepted", !.owner = c.user]
              = [[Lives[c.req] EXCEPT !.phase = "accepted"] EXCEPT !.owner = c.user]
        BY <1>2
      <4>2. [Lives[c.req] EXCEPT !.phase = "accepted"] = taken
        BY <1>2
      <4>3. [taken EXCEPT !.owner = c.user]
              = [phase |-> "accepted", creator |-> stored.createdBy, owner |-> c.user]
        OBVIOUS
      <4> HIDE DEF taken
      <4> QED
        BY <2>2, <4>1, <4>2, <4>3
    <3>2. c.req \in DOMAIN Lives
      BY <1>1 DEF Lives
    <3> QED
      BY <1>3, <3>1, <3>2
  <2>4. Lifecycle!Take(c.req, c.user)
    BY <1>2, <2>1, <2>3 DEF Lifecycle!Take, AcceptAllowed, Lives
  <2> QED
    BY <1>1, <2>1, <2>4 DEF Lifecycle!Next
<1>5. CASE c.op = "reject"
  <2>1. RejectAllowed(stored, c.reason) /\ held[w] = Reject(stored, c.reason)
    BY <1>1, <1>5 DEF Legal, Applied
  <2>2. /\ held[w].status = "rejected" /\ held[w].createdBy = stored.createdBy
        /\ held[w].acceptedBy = stored.acceptedBy
    BY <1>1, <2>1 DEF Reject, RequestRow
  <2>3. Lives' = [Lives EXCEPT ![c.req].phase = "rejected"]
    <3>1. [phase |-> held[w].status, creator |-> held[w].createdBy, owner |-> held[w].acceptedBy]
            = [Lives[c.req] EXCEPT !.phase = "rejected"]
      BY <1>2, <2>2
    <3> QED
      BY <1>3, <3>1
  <2>4. Lifecycle!Refuse(c.req)
    BY <1>2, <2>1, <2>3 DEF Lifecycle!Refuse, RejectAllowed, Lives
  <2> QED
    BY <1>1, <2>4 DEF Lifecycle!Next
<1>6. CASE c.op = "complete"
  <2>1. CompleteAllowed(stored) /\ held[w] = Complete(stored)
    BY <1>1, <1>6 DEF Legal, Applied
  <2>2. /\ held[w].status = "completed" /\ held[w].createdBy = stored.createdBy
        /\ held[w].acceptedBy = stored.acceptedBy
    BY <1>1, <2>1 DEF Complete, RequestRow
  <2>3. Lives' = [Lives EXCEPT ![c.req].phase = "completed"]
    <3>1. [phase |-> held[w].status, creator |-> held[w].createdBy, owner |-> held[w].acceptedBy]
            = [Lives[c.req] EXCEPT !.phase = "completed"]
      BY <1>2, <2>2
    <3> QED
      BY <1>3, <3>1
  <2>4. Lifecycle!Finish(c.req)
    BY <1>2, <2>1, <2>3 DEF Lifecycle!Finish, CompleteAllowed, Lives
  <2> QED
    BY <1>1, <2>4 DEF Lifecycle!Next
<1> QED
  BY <1>1, <1>4, <1>5, <1>6 DEF Call

\* A saved form opens a request.
LEMMA FormOpens ==
  ASSUME TypeInv, NEW r \in RequestId, FormSaves(r)
  PROVE  Lifecycle!Next
<1>1. PICK creator \in Creators, recipient \in Recipients :
        SaveRequest(r, NewRequest(creator, recipient))
  BY DEF FormSaves
<1>2. /\ creator \in User /\ NewRequest(creator, recipient) \in RequestRow
      /\ NewRequest(creator, recipient).status = "pending"
      /\ NewRequest(creator, recipient).createdBy = creator
      /\ NewRequest(creator, recipient).acceptedBy = Empty
  BY ResponseAssumption, NewRequestRow DEF ResponseAssumption, NewRequest
<1>3. Lives' = [Lives EXCEPT ![r] = [phase |-> "pending", creator |-> creator, owner |-> Empty]]
  BY <1>1, <1>2, OneLifeChanges
<1>4. Lives[r] = Lifecycle!Absent
  BY DEF FormSaves, Lives, LifeOf, Lifecycle!Absent
<1>5. Lifecycle!Open(r, creator)
  BY <1>3, <1>4 DEF Lifecycle!Open, Lives
<1> QED
  BY <1>2, <1>5 DEF Lifecycle!Next

LEMMA OneDecision ==
  ASSUME OneAtATime, TypeInv, CopiesFresh, [Next]_vars
  PROVE  [Lifecycle!Next]_Lives
<1>1. CASE requests' = requests
  BY <1>1 DEF Lives, LifeOf, Found
<1>2. ASSUME NEW w \in Worker, Save(w), requests' # requests  PROVE Lifecycle!Next
  BY <1>2, SaveIsDecision DEF Save
<1>3. \/ requests' = requests
      \/ \E w \in Worker : Save(w)
      \/ \E id \in RequestId : FormSaves(id)
  BY DEF Next, Step, Start, Authorize, TellCreator, TellAcceptor, Crash, QueueSaves, vars, responseVars
<1> QED
  BY <1>1, <1>2, <1>3, FormOpens

\* While no two of its calls overlap, whatever is saved, fails or crashes, the
\* service keeps the lifecycle that the README promises: nobody takes a request
\* that another has taken, and nothing happens to one refused or completed.
THEOREM OneAtATimeFollows ==
  ASSUME OneAtATime
  PROVE  Spec => FollowsLifecycle
<1>1. Init => Lifecycle!Init
  BY DEF Init, StoreInit, EmptyTable, Lifecycle!Init, Lifecycle!Absent, LifeOf, Found
<1>2. TypeInv /\ CopiesFresh /\ [Next]_vars => CopiesFresh'
  BY OneAtATime, NextFresh
<1>3. TypeInv /\ CopiesFresh /\ [Next]_vars => [Lifecycle!Next]_Lives
  BY OneAtATime, OneDecision
<1> QED
  BY <1>1, <1>2, <1>3, InitTypes, NextTypes, InitFresh, PTL
     DEF Spec, FollowsLifecycle, Lifecycle!Spec, Lives
=============================================================================
