SPECIFICATION Spec
CONSTANTS
  Readers = {p1, p2}
  Writers = {p2}
  None = none
  Handler = handler
  Plain = {"x"}
  Keys = {"x", "nl", "^D", "^U", "^H"}
  INPUT_BUF_SIZE = 2
  UINT = 4
  BATCH = 1
  RXFIFO = 1
  ReadLens = {2}
  WriteLens = {2}
  Mortal = {p1}
INVARIANTS
  ReaderNotForgotten
  FullIsReadable
  OutputGoesOn
  FifoFits
PROPERTY
  LineByLine
