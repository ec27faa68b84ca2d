SPECIFICATION Spec
CONSTANTS
  p1 = p1
  p2 = p2
  f1 = f1
  f2 = f2
  Processes = {p1, p2}
  Paths = {f1, f2}
  Avgs = {1, 2}
  Default = 1
  Length <- MCLength
  NumRepos = 2
  Scheme <- MCScheme
  MaxOps = 2
INVARIANT KeyKept
SYMMETRY Alike
CHECK_DEADLOCK FALSE
