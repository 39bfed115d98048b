SPECIFICATION Spec
CONSTANTS
  p = p
  q = q
  Procs = {p, q}
  Keys = {k}
  Revisions = {1, 2}
  Layouts <- Large
  Nothing = Nothing
  MaxVersion = 2
  MaxMtime = 2
INVARIANT NeverAnOlderParse
