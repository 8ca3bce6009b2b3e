\* One goroutine at a time; a user, the creator himself or a queue addressed,
\* and the staff of the queue changing meanwhile.
SPECIFICATION FairSpec
CONSTANTS
  alice = alice
  bob = bob
  carol = carol
  general = general
  support = support
  Nil = Nil
  User <- MCUser
  Channel = {general}
  QueueId = {support}
  RequestId = {r1}
  Reason = {busy}
  Worker = {w1}
  Creators = {alice}
  Recipients <- MCClosedRecipients
  StaffRows <- MCStaffRows
  MaxCrashes = 1
INVARIANTS
  AcceptorWasEligible
  DeadEndsStayPending
  NoMultipleAcceptances
PROPERTIES
  FollowsLifecycle
  DecisionsAreAnnounced
