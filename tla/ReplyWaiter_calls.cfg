SPECIFICATION FairSpec
CONSTANTS
  Calls = {c1, c2, c3}
  NoCall = none
  Timed = {c1}
  Silent = {c2}
  MaxAgain = 1
INVARIANTS TypeOK NobodyForgotten ReturnsItsReply EndingKept
PROPERTY Ends
CHECK_DEADLOCK FALSE
