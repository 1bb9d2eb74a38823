CONSTANTS
  a = a
  b = b
  End = {a, b}
  MaxSend <- OneWay
  SndWnd = 2
  RcvWnd = 2
  RemindLimit = 1
  InFlight = 0
  MaxLate = 1
  MaxFaults = 2
SPECIFICATION FairSpec
INVARIANT WindowsHold
PROPERTY ImplementsContract
PROPERTY Delivers
