SPECIFICATION Spec
CONSTANTS
  p = p
  q = q
  Procs = {p, q}
  Keys = {k}
  Revisions = {1, 2}
  Layouts <- Usual
  Nothing = Nothing
  MaxVersion = 2
  MaxMtime = 2
SYMMETRY Symmetry
INVARIANT TypeOK
PROPERTY ParsesAreFresh
