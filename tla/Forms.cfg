\* Modals submitted, answered, given up on and submitted again.
SPECIFICATION FairSpec
CONSTANTS
  alice = alice
  bob = bob
  general = general
  q1 = q1
  Nil = Nil
  User <- MCUser
  Channel = {general}
  QueueId = {q1, q2}
  RequestId = {r1, r2}
  Reason = {}
  RequestForm = {f1}
  QueueForm = {f2}
  Worker = {w1, w2}
  Creators = {alice}
  Recipients <- MCRecipients
  AdminChoices <- MCAdminChoices
  MaxLost = 1
\* Every modal may have been closed, and nobody has to open another one.
CHECK_DEADLOCK FALSE
INVARIANTS
  TypeOK
  QueuesWellStaffed
  OneRowPerSubmission
  CardsReachRecipient
  NoneWaitsInVain
PROPERTIES
  SubmissionsAnswered
  FormsServeRequests
