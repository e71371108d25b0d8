----------------------------- MODULE MCPictMngr -----------------------------
(* PictMngr for TLC: the streams, one for each group of tools. *)
EXTENDS PictMngr

Avc(pics, order, numRef, maxRefFrames, adaptive, gaps) ==
    [codec |-> "AVC", pics |-> pics, order |-> order, numRef |-> numRef,
     maxRefFrames |-> maxRefFrames, adaptive |-> adaptive, gaps |-> gaps]
Hevc(pics, maxDec, numReorder, maxLatency, raps, outs) ==
    [codec |-> "HEVC", pics |-> pics, order |-> "free", numRef |-> 3, maxDec |-> maxDec,
     maxRefFrames |-> maxDec, numReorder |-> numReorder, maxLatency |-> maxLatency,
     raps |-> raps, outs |-> outs, adaptive |-> FALSE, gaps |-> {0}]

MCStreams ==
    {Avc(7, "free", 2, 2, FALSE, {0}),          \* reordering, POC type 0
     Avc(8, "paired", 3, 2, FALSE, {0}),        \* POC type 1
     Avc(6, "decode", 3, 3, TRUE, {0}),         \* memory management commands, POC type 2
     Avc(5, "decode", 2, 2, FALSE, {0, 1, 14}), \* gaps of frame_num
     Hevc(5, 3, 1, 9, {"IDR", "CRA"}, {TRUE}),
     Hevc(4, 3, 2, 1, {"CRA"}, BOOLEAN)}

\* Four reference frames and any memory management command.
UnrestrictedStreams == {Avc(6, "decode", 4, 4, TRUE, {0})}
=============================================================================
