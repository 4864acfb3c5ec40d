SPECIFICATION Spec
CONSTANTS
  a = a  b = b  k1 = k1  k2 = k2
  Cards = {k1, k2}
  Contents = {a, b}
  CardsOf <- MCCardsOf
  First = a
  None = None
  MaxRequeue = 1
  MaxEvents = 2
INVARIANT SkipIsProof
CHECK_DEADLOCK FALSE
