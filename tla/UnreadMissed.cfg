CONSTANTS
  Rooms = {c1, c2}
  Peers = {peer}
  Nothing = nothing
  MaxScreens = 3
  MaxMessages = 2
  MaxChanges = 4
  MaxSent = 3
SPECIFICATION UnreadSpec
INVARIANT UnseenIsUnread
CHECK_DEADLOCK FALSE
