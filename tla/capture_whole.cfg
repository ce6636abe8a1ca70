SPECIFICATION Spec
CONSTANTS
  Words = {"v", "w"}
  Body <- OneWord
  Echoes = {"whole"}
  MinOverlap = 1
  MinCommon = 2
  Recall = 2
  Window = 7
  MaxScreen = 13
INVARIANTS
  EchoIsNoAnswer FencedIsAnswer VisibleAnswerCaptured
CHECK_DEADLOCK FALSE
