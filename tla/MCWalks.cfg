CONSTANTS
  Keys = {1, 2, 3, 4, 5, 6, 7}
  MaxN = 7
  Lead = {"L"}
  Cont = {"c", "d"}
  MAX_PAREN = 2
  Subjects <- ShortAndGroups
SPECIFICATION WalkSpec
INVARIANTS Found EqDecides InBounds Decides
PROPERTIES Halves
CHECK_DEADLOCK FALSE
