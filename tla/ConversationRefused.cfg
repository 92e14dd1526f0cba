SPECIFICATION ConversationSpec
CONSTANTS
  author = author  final = final  deck = deck  v1 = v1  v2 = v2  none = none
  c1 = c1  c2 = c2  missing = missing  old = old  new = new
  NumMessages = 1
  Revisions = {1}
  Phases = {author, final}
  Final = final
  Deck = deck
  Frozen = {v1, v2}
  NoVersion = none
  Paths = {deck, v1, v2}
  Contents = {c1}
  Missing = missing
  Versions = {old}
  FirstVersion = old
  MaxRevision = 0
INVARIANT AttemptsCanEnter
