SPECIFICATION HubSpec
CONSTANTS
  u1 = u1 u2 = u2 a = a b = b c = c s1 = s1 s2 = s2 s3 = s3 s4 = s4
  Students = {u1, u2}
  Pages = {a, b, c}
  Sockets = {s1, s2, s3, s4}
  StudentOf <- MCStudentOf
  PageOf <- MCPageOf
  BufferLimit = 2
  NoSocket = NoSocket
  MaxSent <- MCMaxSent
  MaxCrashes = 1
INVARIANTS HubTypeOK ShownInOrder BufferIsNewest
PROPERTY LossesKnown
CHECK_DEADLOCK FALSE
