SPECIFICATION Spec
CONSTANTS
  None = None
  Sessions = {s1, s2}
  Messages = {m1, m2, m3}
  Calls = {k1}
  Rooms = {r1}
  Conns = {c1, c2}
  Verbs = {"ask", "receive", "answer", "cancel"}
  Sizes = {1}
  BodyBytes = 2
  MailboxEnvelopes = 2
  MailboxBytes = 3
  RuntimeBytes = 4
  ActiveCalls = 1
  MaxDeadline = 2
  RoomParticipants = 2
  RoomRounds = 2
  Remembered = 3
  MaxTime = 1
  MaxActivation = 1
  MaxWorkers = 1
  Skews = FALSE
SYMMETRY SameMessagesAndConns
INVARIANTS TypeOK SleepersMissNothing MailIsExact
PROPERTIES CallsEndForCause HandoffIsExact
CHECK_DEADLOCK FALSE
