\* Every kind of rectangle; messages arrive whole or in pieces.
CONSTANTS
  Width = 3
  Rects <- AllRects
  MaxRects = 2
  MaxMessages = 2
  MaxSeq = 5
  Cap = 2
  Waiter = {w1, w2}
SPECIFICATION Spec
INVARIANTS TypeOK DirtyCovers NoLostWakeup NeverStarved ContCovers FaithfulPixels
