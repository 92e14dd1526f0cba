SPECIFICATION FairSpec
CONSTANTS
  p1 = p1  p2 = p2  blank = blank  a = a  b = b  e1 = e1  e2 = e2  q = q  none = none
  Pages = {p1}
  Blank = blank
  Drafts = {a}
  Saves = {e1}
  Asks = {}
  None = none
  MaxTries = 2
  MaxLeases = 2
  MaxSilences = 1
CHECK_DEADLOCK FALSE
PROPERTIES NoOlderAttemptPublishes SavesEndWhileBased QueuedSavesEnd
