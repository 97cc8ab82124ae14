SPECIFICATION Spec
CONSTANTS
  Callbacks = {c1, c2, c3}
  Nodes = {n1, n2, n3, n4}
  Null = Null
  Links <- MCLinks
  QueueLength = 2
SYMMETRY MCSymmetry
INVARIANTS TypeOK MadeOnceInOrder ListIntact CalledOnceInOrder CalledAsRegistered
