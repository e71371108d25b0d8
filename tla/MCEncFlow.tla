----------------------------- MODULE MCEncFlow -----------------------------
(* EncFlow on short programs of the application. *)
EXTENDS EncFlow

Puts == <<Put(1), Put(2)>>

\* A QP table, HDR SEIs that change, two parts, a frame that does not fit,
\* and calls after the end of the stream; and HDR SEIs set more often than
\* frames are pushed.
FaultPrograms ==
    {Puts \o <<Hdr, Frame(TRUE, 2), Hdr, Frame(FALSE, 1), Misfit, Frame(TRUE, 1),
               EndOfInput, Frame(FALSE, 1), EndOfInput>>,
     Puts \o <<Hdr, Frame(FALSE, 1), Hdr, Hdr, Hdr, Hdr, Hdr, Hdr, Frame(TRUE, 1), EndOfInput>>}

\* Frames with parameters of their own: a new PPS each after the first, whose
\* ring comes round while a B picture of the GOP before the restart waits; a
\* new SPS each; or in turn new SPS, PPS and HDR SEIs, with frames of one part
\* and of two.
Cycle(calls, n) == FlattenSeq([k \in 1 .. n |-> calls[(k % Len(calls)) + 1]])
NewPps == <<<<Offsets(1), Frame(FALSE, 1)>>, <<Offsets(2), Frame(FALSE, 1)>>>>
NewSps == <<<<Resolution(1), Frame(FALSE, 1)>>, <<Resolution(2), Frame(FALSE, 1)>>>>
NewBoth == <<<<Hdr, Resolution(1), Frame(TRUE, 2)>>, <<Offsets(2), Frame(FALSE, 1)>>,
             <<Offsets(1), Hdr, Frame(FALSE, 1)>>, <<Resolution(2), Frame(FALSE, 1)>>,
             <<Hdr, Offsets(3), Frame(FALSE, 1)>>>>
GopPrograms ==
    {<<Put(1), Frame(FALSE, 1)>> \o Cycle(NewPps, 4) \o <<Resolution(2), Frame(FALSE, 1)>>
        \o Cycle(NewPps, 2) \o <<EndOfInput>>,
     Puts \o Cycle(NewSps, 7) \o <<EndOfInput>>,
     Puts \o Cycle(NewBoth, 7) \o <<EndOfInput>>}

EncPrograms == FaultPrograms \cup GopPrograms

\* The PPS changes with each frame.
ErrorPrograms == {Puts \o Cycle(NewPps, 8)}

\* The PPS changes with each frame: the IDR picture, and one frame more than
\* there are PPS ids.
PyramidPrograms == {<<Put(1)>> \o Cycle(NewPps, MAX_PPS_IDS + 2)}

\* Some of the behaviours of EncFlow: nobody destroys the encoder, the
\* application pushes frames as long as there are tokens, and of a pyramid
\* the last frame is encoded first, then the one in the middle of those
\* before it, and so on to the first.
Middle(i) == i > 1 => i = 2 ^ (GetMaxReordering - hw.jobs[i].overtaken)
PyramidOrder ==
    EncodePart => /\ PendingEncodings = 0 \/ next > Len(program)
                  /\ \E i \in DOMAIN hw.jobs :
                        MayEncode(i) /\ Middle(i) /\ hw'.jobs = JobsAfter(i)
PyramidSpec == EncInit /\ [][EncNext /\ hw'.alive /\ PyramidOrder]_encVars
===========================================================================
