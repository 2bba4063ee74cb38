CONSTANTS
  Approvals = {a1, a2, a3}
  Loops = {main}
  Main = main
  Tools = {tool}
  Handlers = {}
  NoApproval = NoApproval
  MaxPending = 2
  Clients = {c1, c2}
  Nobody = Nobody
  MaxVersion = 2
  Readers = {r1}
  MaxChannels = 4
  NoChannel = NoChannel
  MaxEvents = 6
  EventLimit = 2
  SubscriberBuffer = 1
  MaxBreaks = 1
SPECIFICATION CallingSpec
CHECK_DEADLOCK FALSE
INVARIANTS
  ConnectionsAreSound
  StreamsAreSound
PROPERTIES
  CallersWakeUp
  EverybodyReturns
  IsEventLog
  ReadersFinish
