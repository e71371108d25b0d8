--------------------------- MODULE MCFrmBufPool ---------------------------
(* FrmBufPool on a small instance. *)
EXTENDS FrmBufPool, TLC

\* The buffers are interchangeable, and so are the clients.  (Slots are not:
\* the scan of AddAvailableBuffer prefers the first.)
Symmetry == Permutations(Buffers) \cup Permutations(Holder)
===========================================================================
