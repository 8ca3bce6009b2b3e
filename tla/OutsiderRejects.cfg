\* One goroutine suffices for an outsider to reject an accepted request.
SPECIFICATION Spec
CONSTANTS
  alice = alice
  bob = bob
  carol = carol
  general = general
  support = support
  Nil = Nil
  User <- MCUser
  Channel = {general}
  QueueId = {}
  RequestId = {r1}
  Reason = {busy}
  Worker = {w1}
  Creators = {alice}
  Recipients <- MCChannelRecipients
  StaffRows = {}
  MaxCrashes = 1
INVARIANT
  OnlyPartiesReject
