SPECIFICATION Spec
CONSTANTS
  None = None
  Sessions = {s1, s2}
  Messages = {m1, m2}
  Calls = {k1, k2}
  Rooms = {r1}
  Conns = {c1, c2}
  Verbs = {"room"}
  Sizes = {1}
  BodyBytes = 2
  MailboxEnvelopes = 2
  MailboxBytes = 3
  RuntimeBytes = 4
  ActiveCalls = 2
  MaxDeadline = 2
  RoomParticipants = 2
  RoomRounds = 2
  Remembered = 2
  MaxTime = 1
  MaxActivation = 1
  MaxWorkers = 1
  Skews = TRUE
INVARIANT RoomsAreExact
SYMMETRY SameMessagesAndConns
CHECK_DEADLOCK FALSE
