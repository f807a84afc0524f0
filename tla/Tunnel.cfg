SPECIFICATION TunnelFairSpec
CONSTANTS
  s1 = s1
  s2 = s2
  s3 = s3
  p1 = p1
  Streams = {s1, s2, s3}
  Pollers = {p1}
  Receiver = Receiver
  NoStream = NoStream
  StreamLimit = 2
INVARIANTS
  TableIsSound
  NoStaleOn
PROPERTIES
  OpensWithConsent
  StreamsLiveOnce
  TimerCloses
  CloseAllTerminates
