SPECIFICATION Spec
CONSTANTS
  w1 = w1
  w2 = w2
  c1 = c1
  c2 = c2
  Recs       = {1, 2}
  Recorders  = {1, 2}
  Channels   = {c1, c2}
  Workers    = {w1, w2}
  Recovery   = Recovery
  Out        = Out
  NoRecorder = NoRecorder
  NoRec      = NoRec
  NoGap      = 0
  Allowances <- StopAllowances
SYMMETRY Symmetry
INVARIANT TypeOK
INVARIANT WayBack
INVARIANT LoginsHeld
PROPERTY StopsRight
PROPERTY RecordersSpec
PROPERTY OutForGood
CHECK_DEADLOCK FALSE
