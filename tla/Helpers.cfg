SPECIFICATION FairSpec
CONSTANTS
  Char <- MCChar
  Value <- MCValue
  PortSpan = 512
  AddressLength = 5
  Lines <- MCLines
  Keys <- MCKeys
  Points = {88}
  Salts = {24}
  LengthDigits = {1, 4, 10}
  Byte <- MCByte
  Sign <- MCSign
  InputLength = 6
  PerSecond = 4
  PerMs = 2
  UintMax = 7
  Seconds <- MCSeconds
  MSeconds <- MCMSeconds
  MaxSignals = 3
  Thread = {t1, t2}
  LogText <- MCText
  PerDay = 2
  MaxTime = 3
INVARIANTS TypeOK OverrunOnlyUnbounded EndpointRight HeaderRight Base64Right PauseRight LineRight
PROPERTY Returns
\* The functions return; a write beyond the buffer of a line ends what is known.
CHECK_DEADLOCK FALSE
