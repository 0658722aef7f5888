\* Answers of up to three header lines that set two cookies.
CONSTANTS
  n1 = n1
  n2 = n2
  v1 = v1
  v2 = v2
  Names = {n1, n2}
  Values = {v1, v2}
  MaxLines = 3
SPECIFICATION Spec
SYMMETRY CookieSymmetry
INVARIANTS
  AnsweredWhole
  Survives
  CookiesAsSent
CHECK_DEADLOCK FALSE
