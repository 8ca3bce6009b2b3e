\* The create-queue command where nothing fails, over the migrated tables.
\* The application rests when it has received all the calls of the instance.
SPECIFICATION Spec
CONSTANTS
  alice = alice
  bob = bob
  h1 = h1
  h2 = h2
  Undefined = Undefined
  Users <- MCUsers
  Channels = {general}
  QueueIds = {q1, q2, q3}
  RequestIds = {r1, r2, r3}
  Descriptions = {fix}
  Slots <- MCSlots
  Deployments = {"migrated"}
  Faults = FALSE
  MaxCalls = 2
INVARIANTS
  CreateQueueAnswered
CHECK_DEADLOCK FALSE
