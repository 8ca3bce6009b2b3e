---------------------------- MODULE Domain_proofs ----------------------------
(***************************************************************************)
(* Lemmas about the domain rules: what removing a user leaves of a list of *)
(* staff, and which rows the methods of requests and queues return; and    *)
(* the induction and recursion principles that such proofs need.           *)
(***************************************************************************)
EXTENDS Store, WellFoundedInduction, SequenceTheorems, TLAPS

-----------------------------------------------------------------------------
(* Tables *)

LEMMA EmptyTableIsTable == \A keys, rows : IsTable(EmptyTable, keys, rows)
BY DEF EmptyTable, IsTable

LEMMA UpsertIsTable ==
  ASSUME NEW keys, NEW rows, NEW table, NEW key \in keys, NEW row \in rows,
         IsTable(table, keys, rows)
  PROVE  /\ IsTable(Upsert(table, key, row), keys, rows)
         /\ DOMAIN Upsert(table, key, row) = DOMAIN table \cup {key}
         /\ Upsert(table, key, row)[key] = row
         /\ \A k \in DOMAIN table : k # key => Upsert(table, key, row)[k] = table[k]
BY DEF Upsert, IsTable

-----------------------------------------------------------------------------
(* Induction and recursion *)

LEMMA LeastElement ==
  ASSUME NEW I, I \subseteq Nat, I # {}
  PROVE  Min(I) \in I /\ \A j \in I : Min(I) <= j
<1> DEFINE Less == {pair \in Nat \X Nat : pair[1] < pair[2]}
<1>1. IsWellFoundedOn(Less, Nat)
  BY NatLessThanWellFounded DEF OpToRel
<1>2. PICK i \in I : \A j \in I : ~ (<<j, i>> \in Less)
  BY <1>1, WFMin
<1>3. ASSUME NEW j \in I  PROVE i <= j
  <2>1. i \in Nat /\ j \in Nat /\ ~ (<<j, i>> \in Less)
    BY <1>2
  <2>2. ~ (j < i)
    BY <2>1
  <2> QED
    BY <2>1, <2>2
<1> QED
  BY <1>3 DEF Min

\* Induction over the natural numbers, for a property given as a set.
LEMMA NatSetInduction ==
  ASSUME NEW S, 0 \in S, \A n \in Nat : n \in S => n + 1 \in S
  PROVE  Nat \subseteq S
<1> DEFINE Rest == {n \in Nat : n \notin S}
<1>1. SUFFICES ASSUME Rest # {}  PROVE FALSE
  OBVIOUS
<1>2. Rest \subseteq Nat
  OBVIOUS
<1>3. PICK least \in Rest : \A n \in Rest : least <= n
  <2> HIDE DEF Rest
  <2> QED BY <1>1, <1>2, LeastElement
<1>4. least # 0 /\ least - 1 \in Nat /\ ~ (least <= least - 1) /\ (least - 1) + 1 = least
  OBVIOUS
<1> QED
  BY <1>3, <1>4

\* g runs through the values of V that step makes of start, step by step.
Runs(g, n, V, start, step) ==
  /\ g \in [0..n -> V]
  /\ g[0] = start
  /\ \A i \in 1..n : g[i] = step[i][g[i-1]]

\* A function defined by recursion on 0..n exists when each step stays in V.
LEMMA RecursionExists ==
  ASSUME NEW V, NEW start \in V, NEW n \in Nat, NEW step \in [1..n -> [V -> V]]
  PROVE  \E g : Runs(g, n, V, start, step)
<1> DEFINE S == {m \in Nat : m <= n => \E g : Runs(g, m, V, start, step)}
<1>1. 0 \in S
  <2>1. Runs([i \in 0..0 |-> start], 0, V, start, step)
    BY DEF Runs
  <2> QED
    BY <2>1
<1>2. ASSUME NEW m \in Nat, m \in S  PROVE m + 1 \in S
  <2>1. SUFFICES ASSUME m + 1 <= n
                 PROVE  \E g : Runs(g, m+1, V, start, step)
    OBVIOUS
  <2>2. PICK g : Runs(g, m, V, start, step)
    BY <1>2, <2>1
  <2> DEFINE h == [i \in 0..m+1 |-> IF i <= m THEN g[i] ELSE step[m+1][g[m]]]
  <2>3. m+1 \in 1..n /\ g[m] \in V
    BY <2>1, <2>2 DEF Runs
  <2>4. step[m+1][g[m]] \in V
    BY <2>3
  <2>5. h \in [0..m+1 -> V]
    BY <2>2, <2>4 DEF Runs
  <2>6. h[0] = start
    BY <2>2 DEF Runs
  <2>7. ASSUME NEW i \in 1..m+1  PROVE h[i] = step[i][h[i-1]]
    <3>1. CASE i <= m
      <4>1. i \in 1..m /\ i-1 \in 0..m+1 /\ i \in 0..m+1 /\ i-1 <= m
        BY <3>1
      <4>2. h[i] = g[i] /\ h[i-1] = g[i-1]
        BY <3>1, <4>1
      <4> QED
        BY <2>2, <4>1, <4>2 DEF Runs
    <3>2. CASE i = m+1
      <4>1. i-1 = m /\ m \in 0..m+1 /\ i \in 0..m+1 /\ ~ (i <= m)
        BY <3>2
      <4>2. h[i] = step[m+1][g[m]] /\ h[i-1] = g[m]
        BY <4>1
      <4> QED
        BY <3>2, <4>2
    <3> QED
      BY <3>1, <3>2
  <2> HIDE DEF h
  <2> QED
    BY <2>5, <2>6, <2>7 DEF Runs
<1>3. n \in S
  <2> HIDE DEF S
  <2> QED BY <1>1, <1>2, NatSetInduction
<1> QED
  BY <1>3

-----------------------------------------------------------------------------
(* Lists of staff *)

LEMMA FirstOccurrence ==
  ASSUME NEW S, NEW list \in Seq(S), NEW e, Contains(list, e)
  PROVE  \E i \in 1..Len(list) :
           /\ list[i] = e
           /\ RemoveFirst(list, e) = SubSeq(list, 1, i-1) \o SubSeq(list, i+1, Len(list))
<1> DEFINE I == {i \in 1..Len(list) : list[i] = e}
<1>1. I # {} /\ I \subseteq Nat
  BY DEF Contains
<1>2. Min(I) \in I
  BY <1>1, LeastElement
<1>3. RemoveFirst(list, e) = RemoveAt(list, Min(I))
  BY <1>1 DEF RemoveFirst, SelectInSeq
<1> QED
  BY <1>2, <1>3 DEF RemoveAt

\* A shorter list without its i-th entry: what it holds and where.
LEMMA WithoutOne ==
  ASSUME NEW S, NEW list \in Seq(S), NEW i \in 1..Len(list)
  PROVE  LET rest == SubSeq(list, 1, i-1) \o SubSeq(list, i+1, Len(list)) IN
         /\ rest \in Seq(S)
         /\ Len(rest) = Len(list) - 1
         /\ \A k \in 1..Len(rest) : rest[k] = IF k < i THEN list[k] ELSE list[k+1]
<1> DEFINE front == SubSeq(list, 1, i-1)
           back == SubSeq(list, i+1, Len(list))
<1>1. Len(list) \in Nat /\ i \in Nat
  BY LenProperties
<1>2. /\ front \in Seq(S) /\ Len(front) = i-1
      /\ \A k \in 1..i-1 : front[k] = list[k]
  BY <1>1, SubSeqProperties
<1>3. /\ back \in Seq(S) /\ Len(back) = Len(list) - i
      /\ \A k \in 1..Len(list)-i : back[k] = list[k+i]
  BY <1>1, SubSeqProperties
<1> DEFINE rest == front \o back
<1>4. /\ rest \in Seq(S) /\ Len(rest) = Len(front) + Len(back)
      /\ \A k \in 1..Len(front) + Len(back) :
           rest[k] = IF k <= Len(front) THEN front[k] ELSE back[k - Len(front)]
  BY <1>2, <1>3, ConcatProperties
<1> HIDE DEF front, back, rest
<1>5. Len(rest) = Len(list) - 1
  BY <1>1, <1>2, <1>3, <1>4
<1>6. ASSUME NEW k \in 1..Len(rest)
      PROVE  rest[k] = IF k < i THEN list[k] ELSE list[k+1]
  <2>1. CASE k < i
    <3>1. k <= Len(front) /\ k \in 1..i-1 /\ k \in 1..Len(front) + Len(back)
      BY <1>1, <1>2, <1>3, <1>5, <2>1
    <3> QED
      BY <1>2, <1>4, <2>1, <3>1
  <2>2. CASE ~ (k < i)
    <3>1. /\ ~ (k <= Len(front)) /\ k \in 1..Len(front) + Len(back)
          /\ k - Len(front) \in 1..Len(list)-i /\ (k - Len(front)) + i = k + 1
      BY <1>1, <1>2, <1>3, <1>5, <2>2
    <3>2. back[k - Len(front)] = list[k + 1]
      BY <1>3, <3>1
    <3> QED
      BY <1>4, <2>2, <3>1, <3>2
  <2> QED
    BY <2>1, <2>2
<1> QED
  BY <1>4, <1>5, <1>6 DEF rest, front, back

\* Removing the first occurrence from a list without repetitions leaves the
\* others, in a list without repetitions.
LEMMA RemoveFirstProperties ==
  ASSUME NEW S, NEW list \in Seq(S), NEW e, Contains(list, e)
  PROVE  /\ RemoveFirst(list, e) \in Seq(S)
         /\ NoRepetition(list) =>
              /\ NoRepetition(RemoveFirst(list, e))
              /\ ~ Contains(RemoveFirst(list, e), e)
         /\ \A x : x # e => (Contains(RemoveFirst(list, e), x) <=> Contains(list, x))
<1>1. PICK i \in 1..Len(list) :
        /\ list[i] = e
        /\ RemoveFirst(list, e) = SubSeq(list, 1, i-1) \o SubSeq(list, i+1, Len(list))
  BY FirstOccurrence
<1> DEFINE rest == RemoveFirst(list, e)
<1>2. /\ rest \in Seq(S) /\ Len(rest) = Len(list) - 1
      /\ \A k \in 1..Len(rest) : rest[k] = IF k < i THEN list[k] ELSE list[k+1]
  BY <1>1, WithoutOne
<1> HIDE DEF rest
<1>3. Len(list) \in Nat /\ DOMAIN list = 1..Len(list) /\ DOMAIN rest = 1..Len(rest)
  BY <1>2, LenProperties
<1>4. ASSUME NoRepetition(list)  PROVE NoRepetition(rest) /\ ~ Contains(rest, e)
  <2> DEFINE at(k) == IF k < i THEN k ELSE k+1
  <2>1. ASSUME NEW k \in 1..Len(rest)
        PROVE  at(k) \in 1..Len(list) /\ at(k) # i /\ rest[k] = list[at(k)]
    BY <1>2, <1>3
  <2>2. ASSUME NEW j \in 1..Len(rest), NEW k \in 1..Len(rest), j # k
        PROVE  at(j) # at(k)
    BY <1>2, <1>3, <2>2
  <2> HIDE DEF at
  <2>3. NoRepetition(rest)
    BY <1>3, <1>4, <2>1, <2>2 DEF NoRepetition
  <2>4. ~ Contains(rest, e)
    BY <1>1, <1>3, <1>4, <2>1 DEF NoRepetition, Contains
  <2> QED
    BY <2>3, <2>4
<1>5. ASSUME NEW x, x # e  PROVE Contains(rest, x) <=> Contains(list, x)
  <2>1. ASSUME NEW k \in 1..Len(rest)
        PROVE  \E j \in 1..Len(list) : rest[k] = list[j]
    BY <1>2, <1>3
  <2>2. ASSUME NEW j \in 1..Len(list), list[j] = x
        PROVE  \E k \in 1..Len(rest) : rest[k] = x
    <3>1. j # i
      BY <1>1, <1>5, <2>2
    <3>2. CASE j < i
      BY <1>2, <1>3, <2>2, <3>2
    <3>3. CASE j > i
      <4>1. j-1 \in 1..Len(rest) /\ ~ (j-1 < i) /\ (j-1)+1 = j
        BY <1>2, <1>3, <3>3
      <4> QED
        BY <1>2, <2>2, <4>1
    <3> QED
      BY <1>3, <3>1, <3>2, <3>3
  <2> QED
    BY <2>1, <2>2 DEF Contains
<1> QED
  BY <1>2, <1>4, <1>5 DEF rest

LEMMA AppendToStaff ==
  ASSUME NEW S, NEW list \in Seq(S), NEW e \in S
  PROVE  /\ Append(list, e) \in Seq(S)
         /\ NoRepetition(list) /\ ~ Contains(list, e) => NoRepetition(Append(list, e))
         /\ \A x : Contains(Append(list, e), x) <=> Contains(list, x) \/ x = e
<1> DEFINE more == Append(list, e)
<1>1. /\ more \in Seq(S) /\ Len(more) = Len(list) + 1 /\ more[Len(list) + 1] = e
      /\ \A k \in 1..Len(list) : more[k] = list[k]
  BY AppendProperties
<1> HIDE DEF more
<1>2. Len(list) \in Nat /\ DOMAIN list = 1..Len(list) /\ DOMAIN more = 1..Len(list) + 1
  BY <1>1, LenProperties
<1>3. NoRepetition(list) /\ ~ Contains(list, e) => NoRepetition(more)
  BY <1>1, <1>2 DEF NoRepetition, Contains
<1>4. \A x : Contains(more, x) <=> Contains(list, x) \/ x = e
  BY <1>1, <1>2 DEF Contains
<1> QED
  BY <1>1, <1>3, <1>4 DEF more

-----------------------------------------------------------------------------
(* Queues: every method that succeeds leaves a queue of the same kind *)

LEMMA NewQueueWellStaffed ==
  ASSUME NEW u \in User
  PROVE  NewQueue(u) \in QueueRow /\ WellStaffed(NewQueue(u))
BY DEF NewQueue, QueueRow, WellStaffed, NoRepetition, IsAdmin, Contains

LEMMA AddAdminKeeps ==
  ASSUME NEW row \in QueueRow, NEW u \in User
  PROVE  /\ AddAdmin(row, u) \in QueueRow
         /\ AddAdmin(row, u).createdBy = row.createdBy
         /\ WellStaffed(row) /\ AddAdminAllowed(row, u) => WellStaffed(AddAdmin(row, u))
         /\ \A x : IsAdmin(AddAdmin(row, u), x) <=> IsAdmin(row, x) \/ x = u
         /\ \A x : IsMember(AddAdmin(row, u), x) <=> IsMember(row, x)
<1>1. /\ AddAdmin(row, u).admins = Append(row.admins, u)
      /\ AddAdmin(row, u).members = row.members
      /\ AddAdmin(row, u).createdBy = row.createdBy
      /\ row.admins \in Seq(User)
  BY DEF AddAdmin, QueueRow
<1>2. AddAdmin(row, u) \in QueueRow
  BY <1>1, AppendToStaff DEF AddAdmin, QueueRow
<1> QED
  BY <1>1, <1>2, AppendToStaff DEF AddAdminAllowed, WellStaffed, IsAdmin, IsMember

LEMMA RemoveAdminKeeps ==
  ASSUME NEW row \in QueueRow, NEW u \in User, RemoveAdminAllowed(row, u)
  PROVE  /\ RemoveAdmin(row, u) \in QueueRow
         /\ RemoveAdmin(row, u).createdBy = row.createdBy
         /\ WellStaffed(row) => WellStaffed(RemoveAdmin(row, u)) /\ ~ IsAdmin(RemoveAdmin(row, u), u)
         /\ \A x : x # u => (IsAdmin(RemoveAdmin(row, u), x) <=> IsAdmin(row, x))
         /\ \A x : IsMember(RemoveAdmin(row, u), x) <=> IsMember(row, x)
<1>1. /\ RemoveAdmin(row, u).admins = RemoveFirst(row.admins, u)
      /\ RemoveAdmin(row, u).members = row.members
      /\ RemoveAdmin(row, u).createdBy = row.createdBy
      /\ row.admins \in Seq(User) /\ Contains(row.admins, u) /\ u # row.createdBy
  BY DEF RemoveAdmin, RemoveAdminAllowed, IsAdmin, QueueRow
<1>2. RemoveAdmin(row, u) \in QueueRow
  BY <1>1, RemoveFirstProperties DEF RemoveAdmin, QueueRow
<1> QED
  BY <1>1, <1>2, RemoveFirstProperties DEF WellStaffed, IsAdmin, IsMember

LEMMA AddMemberKeeps ==
  ASSUME NEW row \in QueueRow, NEW u \in User
  PROVE  /\ AddMember(row, u) \in QueueRow
         /\ AddMember(row, u).createdBy = row.createdBy
         /\ WellStaffed(row) /\ AddMemberAllowed(row, u) => WellStaffed(AddMember(row, u))
         /\ \A x : IsMember(AddMember(row, u), x) <=> IsMember(row, x) \/ x = u
         /\ \A x : IsAdmin(AddMember(row, u), x) <=> IsAdmin(row, x)
<1>1. /\ AddMember(row, u).members = Append(row.members, u)
      /\ AddMember(row, u).admins = row.admins
      /\ AddMember(row, u).createdBy = row.createdBy
      /\ row.members \in Seq(User)
  BY DEF AddMember, QueueRow
<1>2. AddMember(row, u) \in QueueRow
  BY <1>1, AppendToStaff DEF AddMember, QueueRow
<1> QED
  BY <1>1, <1>2, AppendToStaff DEF AddMemberAllowed, WellStaffed, IsAdmin, IsMember

LEMMA RemoveMemberKeeps ==
  ASSUME NEW row \in QueueRow, NEW u \in User, RemoveMemberAllowed(row, u)
  PROVE  /\ RemoveMember(row, u) \in QueueRow
         /\ RemoveMember(row, u).createdBy = row.createdBy
         /\ WellStaffed(row) => WellStaffed(RemoveMember(row, u)) /\ ~ IsMember(RemoveMember(row, u), u)
         /\ \A x : x # u => (IsMember(RemoveMember(row, u), x) <=> IsMember(row, x))
         /\ \A x : IsAdmin(RemoveMember(row, u), x) <=> IsAdmin(row, x)
<1>1. /\ RemoveMember(row, u).members = RemoveFirst(row.members, u)
      /\ RemoveMember(row, u).admins = row.admins
      /\ RemoveMember(row, u).createdBy = row.createdBy
      /\ row.members \in Seq(User) /\ Contains(row.members, u)
  BY DEF RemoveMember, RemoveMemberAllowed, IsMember, QueueRow
<1>2. RemoveMember(row, u) \in QueueRow
  BY <1>1, RemoveFirstProperties DEF RemoveMember, QueueRow
<1> QED
  BY <1>1, <1>2, RemoveFirstProperties DEF WellStaffed, IsAdmin, IsMember
=============================================================================
