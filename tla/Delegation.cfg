SPECIFICATION MCSpec
CONSTANTS
  a = a  b = b  c = c  d = d  q = q
  None = None
  Recipients <- MCRecipients
  Kids <- MCKids
  Reads <- MCReads
  Persons <- MCPersons
  Messages <- MCMessages
INVARIANT TurnsKept
PROPERTIES NoSecondTelling DelegationMovesOn
CHECK_DEADLOCK FALSE
