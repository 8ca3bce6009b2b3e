\* A queue form that is filled in and submitted.
SPECIFICATION Spec
CONSTANTS
  Nil = Nil
  View = {v1, v2}
  Worker = {w1, w2, w3}
  User = {alice, bob}
  Channel = {general}
  MaxPicks = 2
SYMMETRY MCSymmetry
\* Every modal may have been closed.
CHECK_DEADLOCK FALSE
INVARIANTS
  QueueFormsAreUnderstood
