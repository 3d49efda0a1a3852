SPECIFICATION MemSpec
CONSTANTS
  MemHarts = {1, 2}
  WordLen = 4
  BitAnd <- MCAnd
  BitOr <- MCOr
  BitXor <- MCXor
  MemRequests <- MCAdds
  MaxRequests = 2
INVARIANTS AddsCounted
CHECK_DEADLOCK FALSE
