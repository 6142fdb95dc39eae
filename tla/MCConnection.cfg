\* Two requests of any kind, cut into pieces at any bytes.
SPECIFICATION FairSpec
\* A client may close the connection, or have nothing more to send.
CHECK_DEADLOCK FALSE
CONSTANTS
  NoResponse = NoResponse
  Kinds <- MCKinds
  MaxSent = 2
  MaxGarbled = 2
INVARIANTS
  HandledOnce
  PoliteServed
  LastAnswerOnly
  HandledWhole
PROPERTY
  TrafficEnds
