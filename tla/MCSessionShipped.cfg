\* The session as the code stands: nothing starts the poll.
CONSTANTS
  c1 = c1
  c2 = c2
  u1 = u1
  Channels = {c1, c2}
  Users = {u1}
  ReadUsers = FALSE
  PollSeconds = 3
  WatchdogSeconds = 8
  MaxPending = 2
  Unset = Unset
SPECIFICATION Spec
SYMMETRY ChannelSymmetry
INVARIANTS
  ListedOnce
  
