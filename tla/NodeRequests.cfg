\* From the first list command to two decisions: six calls, two at a time, with
\* failing statements and posts, and crashes.  It rests after the last call.
SPECIFICATION Spec
CONSTANTS
  alice = alice
  bob = bob
  h1 = h1
  h2 = h2
  Undefined = Undefined
  Users <- MCUsers
  Channels = {general}
  QueueIds = {q1, q2}
  RequestIds = {r1, r2}
  Descriptions = {fix, deploy}
  Slots <- MCSlots
  Deployments = {"spoken"}
  Faults = TRUE
  MaxCalls = 6
INVARIANTS
  ButtonsAreCurrent
  NoticesAreTrue
  AnswersAreTrue
PROPERTIES
  FollowsBoard
SYMMETRY MCSymmetry
CHECK_DEADLOCK FALSE
