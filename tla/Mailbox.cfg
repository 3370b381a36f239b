CONSTANTS
  Buffer = {b1, b2, b3}
  NoBuffer = none
SPECIFICATION FairSpec
INVARIANTS
  ThreadOwnsLists
  AnswerIsThere
PROPERTY
  BuffersReturn
