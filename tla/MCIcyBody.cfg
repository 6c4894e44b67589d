SPECIFICATION Spec
CONSTANTS
  Interval = 3
  BlockSize = 3
  MaxBlocks = 2
  Opening = 1
  Pages = {1, 2, 7}
  Titles <- SomeTitles
  MaxAudio = 9
CHECK_DEADLOCK FALSE
INVARIANTS
  TypeOK
  PlaysExactly
  LengthByteExact
  TitleQuoted
  LongestPrefix
