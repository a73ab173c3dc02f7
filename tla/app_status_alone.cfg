SPECIFICATION MessagesSpec
CONSTANTS
  Base = 256
  ExponentBits = 3
  MantissaBits = 12
  DoubleWidth = 2
  LogReach = 2
  MathLogs <- MCMathLogs
  ShortWidth = 1
  IntWidth = 3
  LongWidth = 3
  DecimalWidth = 3
  DecimalPlaces = 2
  MaxIntDigits = 4
  PlainDigits = 3
  PlainPlaces = 1
  ToNumber <- MCToNumber
  NullDouble <- MCNullDouble
  UidWidth = 2
  QueriesToSend = {}
  LoginsToSend = {}
  ResultsToSend = {}
  ResponsesToSend <- MCResponses
INVARIANT BitsAnnounceFields
