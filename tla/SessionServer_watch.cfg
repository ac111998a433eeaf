\* Two creates, two posters and two watchers, a channel that overflows.
SPECIFICATION Spec
CONSTANTS
  Creators = {c1, c2}
  Posters = {p1, p2}
  Watchers = {w1, w2}
  Capacity = 1
  MaxSessions = 2
  MaxPosts = 2
  Single = {p2}
INVARIANTS
  NothingLost
  OrderIsShared
PROPERTIES
  EveryMessageArrives
CHECK_DEADLOCK FALSE
