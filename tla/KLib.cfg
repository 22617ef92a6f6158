\* Two lists of together four elements; tables of up to five items, from one
\* bucket on; bitmaps of up to four bits in elements of three, two of which
\* the instructions reach.
SPECIFICATION LibSpec
CONSTANTS
  Elems = {e1, e2, e3, e4}
  Lists = {0, 1}
  NULL = NULL
  Values = {1, 2}
  Free = Free
  Items = {x1, x2, x3, x4, x5}
  Keys <- MCKeys
  Hash <- MCHash
  NoKey = NoKey
  MinBuckets = 1
  ElemBits = 3
  OpBits = 2
  MaxBits = 4
INVARIANTS Linked CountExact FindExact
PROPERTIES ListsImplementSequences 
