SPECIFICATION Spec
CONSTANTS
  a1 = a1
  a2 = a2
  m = m
  u = u
  rb = rb
  s = s
  o = o
  NoLock = NoLock
  NoState = NoState
  OldState = OldState
  Requests <- Snapshots
  Kind <- KindOf
  MaxVersions = 2
  Allowed <- NoMishap
INVARIANT RollbackRestores
