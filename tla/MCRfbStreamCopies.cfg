\* Paints that overlap and scrolls, in messages that may arrive in pieces.
CONSTANTS
  Width = 3
  Rects <- PaintRects
  MaxRects = 2
  MaxMessages = 2
  MaxSeq = 3
  Cap = 4
  Waiter = {w1}
SPECIFICATION Spec
INVARIANT FaithfulFrame
