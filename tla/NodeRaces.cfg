\* Either database; two calls at a time, failing statements and posts, crashes.
\* The application rests when it has received all the calls of the instance.
SPECIFICATION FairSpec
CONSTANTS
  alice = alice
  bob = bob
  h1 = h1
  h2 = h2
  Undefined = Undefined
  Users <- MCUsers
  Channels = {general}
  QueueIds = {q1, q2, q3}
  RequestIds = {r1, r2, r3}
  Descriptions = {fix}
  Slots <- MCSlots
  Deployments = {"migrated", "spoken"}
  Faults = TRUE
  MaxCalls = 3
INVARIANTS
  TypeOK
  MigratedStoresOnlyUsers
  SecondsOnlyInRaces
PROPERTIES
  CallsAnswered
CHECK_DEADLOCK FALSE
