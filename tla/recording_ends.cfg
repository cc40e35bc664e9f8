SPECIFICATION FairSpec
CONSTANTS
  w1 = w1
  w2 = w2
  c1 = c1
  c2 = c2
  Recs       = {1, 2}
  Recorders  = {1}
  Channels   = {c1}
  Workers    = {w1, w2}
  Recovery   = Recovery
  Out        = Out
  NoRecorder = NoRecorder
  NoRec      = NoRec
  NoGap      = 0
  Allowances <- EndAllowances
INVARIANT RowsTell
PROPERTY RecordingsSettle
CHECK_DEADLOCK FALSE
