SPECIFICATION FairFraming
CONSTANTS
  Responses = 3
  Header = 2
  MaxBody = 2
  LoginFixed = 3
  MaxBuild = 1
  MaxThrows = 1
INVARIANTS
  FramingTypeOK
  NothingLostOrRepeated
  NoneKeptBack
  OnceInOrder
PROPERTIES
  EveryResponseDecoded
  ImplementsStream
CHECK_DEADLOCK FALSE
