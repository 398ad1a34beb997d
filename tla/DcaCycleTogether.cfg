CONSTANTS
  NoWindow = NoWindow
  Windows = {x1}
  Executors = {w1, w2}
  Budget = 3
  Prices = {1, 2}
SPECIFICATION DcaSpec
INVARIANT NeverTogether
CHECK_DEADLOCK FALSE
