SPECIFICATION Spec
CONSTANTS
  Clients = {a, b}
  Msgs = {m1, m2}
  Sockets = {s1, s2}
  NoClient = NoClient
  NoSocket = NoSocket
  DbFaults = TRUE
SYMMETRY Symmetry
INVARIANT OpenIsRegistered
INVARIANT AtMostOncePerSocket
INVARIANT OnlyBacklogIsOvertaken
INVARIANT ReplyImpliesMarked
PROPERTY ImplementsMailbox
