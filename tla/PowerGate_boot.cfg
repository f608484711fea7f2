SPECIFICATION GateFairSpec
CONSTANTS
  Waits <- MCWaits
  Blind = 2
  Pause = 2
  SettlePause = 1
  Settle = 3
  IppMax = 1
  TcpMax = 2
  NoMoment = NoMoment
CHECK_DEADLOCK FALSE
INVARIANTS
  WaitIsLimited
  ShownIsTrue
PROPERTIES
  ReleasedOnEvidence
  AnswersCount
  KeepsContract
  GateAnswers
