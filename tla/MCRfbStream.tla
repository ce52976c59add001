---------------------------- MODULE MCRfbStream ----------------------------
(* RfbStream on a screen of three pixels. *)
EXTENDS RfbStream

Raw(x, w, colour) == [kind |-> "raw", x |-> x, w |-> w, colour |-> colour]
Copy(x, w, src)   == [kind |-> "copy", x |-> x, w |-> w, src |-> src]
Resize(w)         == [kind |-> "resize", w |-> w]
Pseudo(kind)      == [kind |-> kind]

\* Paints that overlap, a scroll, an empty rectangle.
PaintRects == {Raw(0, 1, 1), Raw(2, 1, 2), Raw(1, 0, 1), Copy(1, 2, 0)}

\* Every kind of rectangle.
AllRects == {Raw(0, 1, 1), Raw(1, 2, 2), Copy(1, 2, 0), Resize(2), Resize(3),
             Pseudo("cont"), Pseudo("cursor")}
=============================================================================
