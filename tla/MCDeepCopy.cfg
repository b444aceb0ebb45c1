CONSTANTS
  Holders = {cached, mine}
  Decoded <- MCDecoded
  MaxCopies = 2
  MaxWrites = 2
SPECIFICATION DCSpec
INVARIANTS CopiesAreEqual
PROPERTIES CopiesAreIndependent
CHECK_DEADLOCK FALSE
