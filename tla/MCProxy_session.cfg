\* Two tools/calls and a call of another method with an oversized request
\* frame; one tools/call has an oversized answer.  A channel of one frame.
SPECIFICATION FairSpec
CONSTANTS
  c1 = c1
  c2 = c2
  c3 = c3
  Calls <- MCThree
  Tools <- MCTwo
  Big <- MCBig
  ChanCap = 1
  ReadMax = 2
INVARIANTS PTypeOK Transparent EventIsReal AccountedFor
PROPERTIES WireGoesOn ShutsDown
\* A session ends.
CHECK_DEADLOCK FALSE
