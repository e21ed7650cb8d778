SPECIFICATION FairSpec
CONSTANTS
  None = None
  Sessions = {s1, s2}
  Messages = {m1, m2}
  Calls = {k1}
  Rooms = {r1}
  Conns = {c1}
  Verbs = {"tell", "spawn", "room", "receive", "answer"}
  Sizes = {1}
  BodyBytes = 2
  MailboxEnvelopes = 1
  MailboxBytes = 3
  RuntimeBytes = 4
  ActiveCalls = 1
  MaxDeadline = 2
  RoomParticipants = 2
  RoomRounds = 2
  Remembered = 2
  MaxTime = 1
  MaxActivation = 2
  MaxWorkers = 1
  Skews = TRUE
INVARIANT MailboxesMatchGate
PROPERTY EverythingExpires
CHECK_DEADLOCK FALSE
