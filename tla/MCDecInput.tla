----------------------------- MODULE MCDecInput -----------------------------
(* DecInput on short streams. *)
EXTENDS DecInput

Nal(t, n) == [nut |-> t, len |-> n]
Aud == Nal("aud", 2)
F(n) == Nal("first", n)
S(n) == Nal("slice", n)
Refused(n) == Nal("refused", n)
Layer == Nal("layer", 2)
Fatal == Nal("fatal", 2)
Flush == Nal("flush", 1)

InputPrograms == {
    \* Slices, delimiters and two ends of stream.
    <<Aud, F(2), S(2), Aud, F(3), Flush, F(2), F(3), Flush>>,
    \* Pictures the decoder refuses or filters out free no space.
    <<F(3), Refused(2), Refused(2), Refused(2), Refused(2), Refused(2),
      F(2), Layer, F(2), Flush>>,
    \* One picture does not fit in the circular buffer.
    <<F(2), F(9), S(3), F(3), F(2), Flush>>,
    \* The decoder fails in the middle.
    <<F(2), Fatal, F(2), Flush>>,
    \* A flush too many.
    <<F(2), Flush, Flush>> }
=============================================================================
