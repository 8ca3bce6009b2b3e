\* One goroutine answers requests to a queue that two others edit.  It accepts
\* and completes; rejections, which ask the same question of the queue as
\* acceptances, would more than double the states.
SPECIFICATION SharedSpec
CONSTANTS
  alice = alice
  bob = bob
  support = support
  Nil = Nil
  User <- MCUser
  Channel = {}
  QueueId = {support}
  RequestId = {r1}
  Reason = {}
  Worker = {w1}
  Creators = {alice}
  Recipients <- MCQueueRecipient
  MaxCrashes = 1
  Editor = {e1, e2}
  Founders = {alice}
SYMMETRY MCSymmetry
INVARIANTS
  TypeOK
  QueuesWellStaffed
  StaffWasAppointed
  AnswersWereEntitled
PROPERTIES
  EditsTakeEffect
  ServesRequests
