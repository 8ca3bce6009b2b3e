----------------------------- MODULE NodeTables -----------------------------
(***************************************************************************)
(* The tables of the Node application and the column names its statements  *)
(* use.  The migrations (nodejs_app/database/migrations) name their        *)
(* columns in snake case; the repository hands a model's own camel-case    *)
(* fields to knex, which neither renames nor drops them.  So whether a     *)
(* statement can run depends on the database the application was given:    *)
(*   "migrated"  the tables the repository's migrations make,              *)
(*   "spoken"    tables prepared with the columns the statements name.     *)
(* Column types and values are left out; keys are stated where a statement *)
(* can break them (NodeApp).                                               *)
(***************************************************************************)

Schema == {"migrated", "spoken"}

\* The fields an object of each model owns.
UserModel    == {"id", "name"}
QueueModel   == {"id", "name", "type", "createdAt", "updatedAt", "owner",
                 "channel"}
RequestModel == {"id", "queueId", "name", "description", "createdBy", "status"}

\* The columns an insert of a model names.
Inserted(model) == model \cup {"created_at", "updated_at"}

\* The columns each migration makes.
UsersTable    == {"id", "name", "created_at", "updated_at"}
QueuesTable   == {"id", "owner", "channel_id", "name", "type", "description",
                  "created_at", "updated_at"}
RequestsTable == {"id", "queue_id", "created_by", "name", "details",
                  "created_at", "updated_at"}

Migrated == [users |-> UsersTable, queues |-> QueuesTable,
             requests |-> RequestsTable]

Spoken == [users    |-> Inserted(UserModel),
           queues   |-> Inserted(QueueModel),
           requests |-> Inserted(RequestModel)]

Columns(schema) == IF schema = "migrated" THEN Migrated ELSE Spoken

-----------------------------------------------------------------------------
(* The statements, each by the columns it names *)

\* A bug: an insert keeps the columns the table has and drops the others.
LenientCanInsert(schema, table, model) ==
  \E name \in Inserted(model) : name \in Columns(schema)[table]

CanInsert(schema, table, model) ==
  Inserted(model) \subseteq Columns(schema)[table]

CanList(schema, table, where) == where \subseteq Columns(schema)[table]

CanUpdate(schema, table, data) ==
  {"id"} \cup data \subseteq Columns(schema)[table]
=============================================================================
