\* Two readers, a buffer of four characters, words of three bits; printf on
\* ints of eight bits and addresses of eleven.
SPECIFICATION MCSpec
CONSTANTS
  Proc = {p1, p2}
  BufSize = 4
  WordMod = 8
  ReadMax = 2
  IntMod = 256
  LongMod = 2048
INVARIANTS
  TypeOK
  IndicesAgree
  PrintsValue
PROPERTIES
  ImplementsAbsConsole
  ReadersDrain
