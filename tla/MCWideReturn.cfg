\* The rule above ReturnItem, with every quantity there is: an issue, a partial
\* return and one of nearly the largest int break it.
CONSTANTS
  Half <- MCHalf
  Supply = 6
  TxIds = {t1, t2, t3}
  Quantities <- MCQuantities
  MaxCalls = 4
SPECIFICATION Spec
SYMMETRY Symmetry
INVARIANT ReturnsWithinIssue
