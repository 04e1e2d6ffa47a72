CONSTANTS
  Streams = {"stdout", "stderr"}
  Viewers = {v1}
  Cap = 3
  NoLine = NoLine
  SendCap = 2
  MaxWrites = 2
  MaxSelects = 2
SPECIFICATION FairOutputSpec
INVARIANTS OutputTypeOK BufferIsTail NothingMissed
PROPERTIES ReadersEnd
