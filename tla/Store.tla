-------------------------------- MODULE Store --------------------------------
(***************************************************************************)
(* The database behind the repositories (dbadapter): the requests and the  *)
(* queues table, rows by primary key.  A Save is one upsert of the WHOLE   *)
(* row; there is no version column and no transaction that spans a read    *)
(* and a later Save, so every service that reads, changes and saves a row  *)
(* works on a copy that other goroutines may have overtaken.               *)
(***************************************************************************)
EXTENDS Domain

VARIABLES requests,   \* RequestId -> RequestRow, for the rows that exist
          queues      \* QueueId -> QueueRow, for the rows that exist

\* gorm's Save: update the row with this primary key, or insert it.
Upsert(table, key, row) ==
  [k \in DOMAIN table \cup {key} |-> IF k = key THEN row ELSE table[k]]

\* A bug gorm invites: Updates with a struct, which skips empty columns.
SaveNonEmptyColumns(id, row) ==
  LET kept(column) == IF row[column] = Empty /\ id \in DOMAIN requests
                        THEN requests[id][column] ELSE row[column]
  IN  requests' = Upsert(requests, id, [row EXCEPT !.acceptedBy = kept("acceptedBy"),
                                                   !.reason = kept("reason")])

SaveRequest(id, row) == requests' = Upsert(requests, id, row)

SaveQueue(id, row) == queues' = Upsert(queues, id, row)

\* gorm's First with an id condition: ErrRecordNotFound unless the row exists.
Found(table, key) == key \in DOMAIN table

\* A table with rows of `rows` under some of the keys `keys`.
IsTable(table, keys, rows) ==
  DOMAIN table \subseteq keys /\ table \in [DOMAIN table -> rows]

EmptyTable == [key \in {} |-> Nil]

StoreInit == requests = EmptyTable /\ queues = EmptyTable

StoreTypeOK ==
  /\ IsTable(requests, RequestId, RequestRow)
  /\ IsTable(queues, QueueId, QueueRow)

-----------------------------------------------------------------------------
(* What every service owes the tables, whichever copies overtake each other *)

\* The columns of one request agree with each other.
Consistent(row) ==
  /\ row.status = "pending" => row.acceptedBy = Empty
  /\ row.status \in {"accepted", "completed"} => row.acceptedBy # Empty
  /\ row.status = "rejected" <=> row.reason # Empty
  /\ row.acceptedBy # row.createdBy

\* A stored request never mixes two decisions: an acceptor when accepted or
\* completed (a rejected one may keep his), a reason exactly when rejected, and
\* nobody ever accepts his own request.
RowsConsistent == \A r \in DOMAIN requests : Consistent(requests[r])

NoRepetition(list) == \A i, j \in DOMAIN list : i # j => list[i] # list[j]

\* Nobody is listed twice, and the creator is always an admin.
WellStaffed(queue) ==
  /\ NoRepetition(queue.admins)
  /\ NoRepetition(queue.members)
  /\ IsAdmin(queue, queue.createdBy)

\* Every stored queue is well staffed.  Were somebody listed twice, removing
\* him (his first occurrence only) would leave him in place; were the creator
\* not listed, a queue could lose everyone who may edit it.
QueuesWellStaffed == \A q \in DOMAIN queues : WellStaffed(queues[q])
=============================================================================
