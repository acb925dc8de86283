\* Two imports of one project one after the other, and rules written by hand before the first.
SPECIFICATION IcpSpec
CONSTANTS
  NULL = NULL
  f1 = f1
  f2 = f2
  g1 = g1
  g2 = g2
  Imports <- TwoImports
  AuthorOf <- Authors
  Visits = {w1}
  HandRules = {h}
  Targets = {t}
  EditsOverlap = FALSE
PROPERTIES HandRulesKept
CHECK_DEADLOCK FALSE
