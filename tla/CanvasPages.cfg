SPECIFICATION Spec
CONSTANTS
  p1 = p1  p2 = p2  blank = blank  a = a  b = b  e1 = e1  e2 = e2  q = q  none = none
  Pages = {p1, p2}
  Blank = blank
  Drafts = {a}
  Saves = {e1}
  Asks = {q}
  None = none
  MaxTries = 2
  MaxLeases = 1
  MaxSilences = 0
SYMMETRY PageSymmetry
CHECK_DEADLOCK FALSE
INVARIANTS DeliveredKeepsLocked
PROPERTY SavesTouchOnlySeenPages
