\* Two channels and a user, with the history poll running.
CONSTANTS
  c1 = c1
  c2 = c2
  u1 = u1
  Channels = {c1, c2}
  Users = {u1}
  ReadUsers = TRUE
  PollSeconds = 3
  WatchdogSeconds = 8
  MaxPending = 2
  Unset = Unset
SPECIFICATION FairSpec
INVARIANTS
  TypeOK
  OneChain
  NothingOutlivesClose
  OnlyPollFires
  SessionInv
PROPERTIES
  AskedAgain
