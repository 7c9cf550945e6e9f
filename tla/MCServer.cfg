SPECIFICATION Spec
CONSTANTS
  busy = busy
  eager = eager
  Clients = {busy, eager}
  Workers = {m1, m2}
  Chatty = {busy}
  Ahead <- MCAhead
  MaxConnections = 1
  MaxFramePieces = 2
  Deadline = 2
  MaxBuffered = 2
  MaxFrames = 2
  Nobody = Nobody
INVARIANTS
  TypeOK
  HandledFramesAreAwaited
PROPERTIES
  FramesAreSettled
  QueuedConnectionsAreServed
