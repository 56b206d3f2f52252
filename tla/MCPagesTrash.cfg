SPECIFICATION Spec
CONSTANTS
  b1 = b1
  b2 = b2
  b3 = b3
  plan = plan
  idea = idea
  goal = goal
  t1 = t1
  t2 = t2
  ann = ann
  bob = bob
  call1 = call1
  call2 = call2
  trash1 = trash1
  trash2 = trash2
  trash3 = trash3
  NoQuote = NoQuote
  Contents <- MCContents
  Empty <- MCEmpty
  TrashIds = {trash1, trash2, trash3}
  Calls <- MCCalls
  MaxRevisions = 3
  Blocks = {b1, b2, b3}
  Texts = {plan, idea}
  Blank = {}
  Quotes = {}
  Contains <- MCContains
  Threads = {}
  Users = {ann}
  Editors = {ann}
  MaxMessages = 2
SYMMETRY MCSymmetry
INVARIANTS TrashAligned
