SPECIFICATION Spec
CONSTANTS
  s1 = s1
  s2 = s2
  m1 = m1
  m2 = m2
  m3 = m3
  i1 = i1
  Subs = {s1, s2}
  Messages = {m1, m2, m3}
  Names = {"order"}
  Instances = {i1}
  Name <- NameOf
  Keys <- KeysOf
  Instance <- InstanceOf
  Ttl = {m1}
  MaxBuffer = 2
  MaxReloads = 1
INVARIANT BufferUnmatched
INVARIANT MessageAccounted
INVARIANT OneConsumer
INVARIANT CleanedUp
PROPERTY ReloadRestores
PROPERTY RendezvousSpec
SYMMETRY Symmetry
CHECK_DEADLOCK FALSE
