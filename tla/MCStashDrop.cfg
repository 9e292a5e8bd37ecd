SPECIFICATION StashesSpec
CONSTANTS
  Windows = {w1, w2}
  Repos = {A, B}
  Branches = {main, dev}
  Changes = {c1}
  MaxStashes = 2
  MaxOps = 3
INVARIANT DropTakesTheStashNamed
CHECK_DEADLOCK FALSE
