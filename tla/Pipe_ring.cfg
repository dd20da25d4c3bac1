\* A writer and a reader, a buffer of three bytes, counters that wrap at six.
SPECIFICATION FairSpec
CONSTANTS
  Byte = {0, 1}
  Size = 3
  WordMod = 6
  MaxWrite = 3
  MaxRead = 3
INVARIANTS
  TypeOK
  EndsApart
PROPERTIES
  ImplementsAbsPipe
  ReaderReturns
