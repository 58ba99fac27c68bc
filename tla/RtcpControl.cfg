SPECIFICATION ControlSpec
CONSTANTS
  p1 = p1
  self = self
  a = a
  b = b
  SSRC = {p1, self}
  OwnSSRC = self
  From <- MCFrom
  MemberMod = 3
  TimeMod = 8
  MinInterval = 3
  PerMember = 2
  CheckInterval = 1
  Crowd = 1
  MaxByes = 2
  Far = 6
INVARIANTS MembersCounted TimersNear
PROPERTY ReportsSpaced ServiceGoesOn
CHECK_DEADLOCK FALSE
