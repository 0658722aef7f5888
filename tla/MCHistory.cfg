\* Two channels, three messages, two polls under way at most, any number of
\* them and of reconnections.
CONSTANTS
  c1 = c1
  c2 = c2
  Channels = {c1, c2}
  Page = 2
  MaxMessages = 3
  p1 = p1
  p2 = p2
  Polls = {p1, p2}
  Unset = Unset
SPECIFICATION Spec
INVARIANTS TypeOK NoneOverlooked OnceEach HistoryInv
SYMMETRY Symmetry
