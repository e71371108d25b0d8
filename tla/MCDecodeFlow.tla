--------------------------- MODULE MCDecodeFlow ---------------------------
(* DecodeFlow on short streams. *)
EXTENDS DecodeFlow

Pic(p, isIdr, isRef, isOk) ==
    [kind |-> "picture", poc |-> p, idr |-> isIdr, ref |-> isRef, ok |-> isOk]
I == Pic(0, TRUE, TRUE, TRUE)
P(p) == Pic(p, FALSE, TRUE, TRUE)
B(p) == Pic(p, FALSE, FALSE, TRUE)
Broken(p) == Pic(p, FALSE, TRUE, FALSE)

\* Reordered pictures, two sequences, a flush in the middle and one at the
\* end.
ReorderStreams == {<<I, P(4), B(2), P(6), I, P(2), Eos>>,
                   <<I, P(4), Eos, I, B(2), Eos>>}

\* Every stream of an IDR and four more items: references slide out of the
\* DPB, a POC comes back, pictures are cancelled, flushes come anywhere.
Items == {I, P(4), B(2), Broken(4), Eos}
AnyStreams == {<<I>> \o s : s \in [1 .. 4 -> Items]}

\* Without reordered pictures.
LowDelayStreams == {<<I, P(2), B(4), P(6), P(8), I, P(2), Eos>>, <<I, P(2), Eos, I, P(2), Eos>>}

DisplayStreams == ReorderStreams \cup LowDelayStreams

\* An intra profile: every picture is an IDR.
IntraStreams == {<<I, I, I, Eos>>}
===========================================================================
