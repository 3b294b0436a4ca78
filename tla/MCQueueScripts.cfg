\* Lists of up to five entries, chunks of two: none, one, and more than one
\* full chunk, with and without a rest.
CONSTANTS
  Item = {a, b}
  MaxLen = 5
  MaxClaim = 6
  Chunk = 2
SPECIFICATION Spec
INVARIANT ListsInOrder
PROPERTY LoopsAdvance
CHECK_DEADLOCK FALSE
