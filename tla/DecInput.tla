---------------------------- MODULE DecInput ----------------------------
(* The input path of the decoder in AL_DEC_UNSPLIT_INPUT mode: buffers the  *)
(* application pushes (UnsplitBufferFeeder.c) are copied by the feeder's    *)
(* slave thread (DecoderFeeder.c) into a circular buffer (Patchworker.c),   *)
(* scanned for start codes (DefaultDecoder.c), grouped in access units      *)
(* (SearchDecUnit.c) and sent to the hardware, which reads them in place    *)
(* while the slave goes on; the end-of-decoding callback frees the space.   *)
(*                                                                          *)
(* A cell stands for some bytes of the stream: <<n, k>> is the k-th cell of *)
(* NAL n of the program.  The first cell holds the start code and the NAL   *)
(* header, the second the bit that tells the first slice of a picture.      *)
EXTENDS Integers, FiniteSets, SequencesExt

CONSTANTS
    Programs,       \* what applications send: sequences of NALs and flushes
    Size,           \* cells of the circular buffer
    iStackSize,     \* frames the hardware is given at once
    NumBufs,        \* input buffers of the application
    ChunkSizes,     \* cells an input buffer may carry
    MAX_NAL_UNIT,   \* NALs the table holds
    ScdMax          \* start codes one request to the detector reports

ASSUME InputAssumption ==
    /\ Size \in Nat /\ Size > 2
    /\ {iStackSize, NumBufs, ScdMax} \subseteq Nat \ {0}
    /\ MAX_NAL_UNIT \in Nat /\ MAX_NAL_UNIT >= ScdMax
    /\ ChunkSizes \subseteq Nat \ {0}
    /\ Programs \subseteq Seq([nut : STRING, len : Nat])

VARIABLES
    prog,       \* the program of this behaviour
    input,      \* cells the application has still to push
    app,        \* where the application is
    flushes,    \* calls of AL_Decoder_Flush that were not ignored
    eos,        \* the last buffer pushed was the last one
    fifo,       \* buffers waiting for the slave
    workBuf,    \* at most one buffer, being copied
    eosMeta,    \* the circular meta data of the one end-of-stream buffer
    ring,       \* the bytes of the circular buffer
    out,        \* meta data of outputCirc: iOffset, iAvailSize, bLastBuffer
    view,       \* meta data of startCodeStreamView: what is not scanned yet
    table,      \* NALs found and not yet consumed
    iCurNalStreamOffset,    \* end of the last NAL consumed
    iCurOffset,             \* end of the last frame decoded
    iStreamOffset,          \* end of each frame in the hardware
    iNumFrmBlk1, iNumFrmBlk2,   \* frames sent, frames decoded
    Sem,        \* frames the hardware can still be given
    inflight,   \* what the hardware reads, oldest first
    ending,     \* the callback has still to release Sem
    incomingWorkSem, keepGoing,
    scQueue,    \* messages to the start code thread
    scThread,   \* it runs, or has ended
    ScDetectionComplete,    \* the event the slave waits for
    ScdStatus,  \* what the start code thread reports
    slave,      \* where the slave thread is
    draining,   \* it has seen that it must stop
    bIsIncomingWorkSignaled, decoderHasBeenFlushed,
    units,      \* history: the NALs of each unit decoded
    lost,       \* history: input was discarded to avoid a stall
    shown       \* ends of stream signalled to the application

appVars == <<prog, input, app, flushes, eos, keepGoing>>
circVars == <<ring, out, view>>
tableVars == <<table, iCurNalStreamOffset>>
hwVars == <<iStreamOffset, iNumFrmBlk1, iNumFrmBlk2, Sem, inflight, ending>>
scdVars == <<scQueue, scThread, ScDetectionComplete, ScdStatus>>
slaveVars == <<slave, draining, bIsIncomingWorkSignaled, decoderHasBeenFlushed>>
historyVars == <<units, lost, shown>>
vars == <<appVars, fifo, workBuf, eosMeta, circVars, tableVars, iCurOffset,
          hwVars, incomingWorkSem, scdVars, slaveVars, historyVars>>

---------------------------------------------------------------------------
(* Streams *)

EosNal == 0
EosCells == <<<<EosNal, 1>>, <<EosNal, 2>>>>

CellsOf(p) == FlattenSeq([n \in DOMAIN p |-> [k \in 1 .. p[n].len |-> <<n, k>>]])

Nut(n) == IF n = EosNal THEN "eos" ELSE prog[n].nut

\* First slices: of a picture that is sent to the hardware, of one the
\* decoder refuses, of a layer it filters out, of one that is fatal to it.
FirstSlices == {"first", "refused", "layer", "fatal"}
IsVcl(n) == Nut(n) \in FirstSlices \cup {"slice"}

---------------------------------------------------------------------------
(* The circular buffer *)

AL_CIRCULAR_BUFFER_SIZE_MARGIN == 1
SCDHardwareConstraintMinSize == 2

\* Cells from one offset to another; the code's is Size when they are equal.
Ahead(first, second) == (second - first) % Size
DeltaPosition(first, second) ==
    IF first < second THEN second - first ELSE Size + second - first

EmptyCirc == [off |-> 0, avail |-> 0, last |-> FALSE]
CircBuffer_IsFull(c) == c.avail = Size - AL_CIRCULAR_BUFFER_SIZE_MARGIN

\* A mutant: an offset that has wrapped is not told from one that has not.
ConsumeNoWrap(c, offset) ==
    [c EXCEPT !.avail = @ - (offset - c.off), !.off = offset]

CircBuffer_ConsumeUpToOffset(c, offset) ==
    [c EXCEPT !.avail = @ - (IF offset < c.off THEN offset + Size - c.off
                                               ELSE offset - c.off),
              !.off = offset]

---------------------------------------------------------------------------
(* The input buffers *)

\* ScdStatus is read once, when the event is set; the model forgets it then.
NoStatus == [uNumBytes |-> 0, starts |-> <<>>]

NoMeta == [cells |-> <<>>, last |-> FALSE]
IsEos(buf) == buf.id = "eos"

\* The end-of-stream buffer is one buffer, however often it is in the fifo;
\* its meta data goes when it has been copied once, and without it the
\* buffer is copied whole and is not the last one.
BufMeta(buf) ==
    CASE ~IsEos(buf)                     -> [cells |-> buf.cells, last |-> FALSE]
      [] IsEos(buf) /\ eosMeta = NoMeta  -> [cells |-> EosCells, last |-> FALSE]
      [] OTHER                           -> eosMeta

AppBuffers == Len(SelectSeq(workBuf \o fifo, LAMBDA b : ~IsEos(b)))

\* pushBuffer of the end-of-stream buffer: new meta data replaces the old.
PushEos(isLast) ==
    /\ eosMeta' = [cells |-> EosCells, last |-> isLast]
    /\ fifo' = Append(fifo, [id |-> "eos", cells |-> <<>>])

---------------------------------------------------------------------------
(* The application, and the part of Destroy that runs in its thread *)

Init ==
    /\ prog \in Programs
    /\ input = CellsOf(prog) /\ app = "pushes" /\ flushes = 0 /\ eos = FALSE /\ keepGoing = 1
    /\ fifo = <<>> /\ workBuf = <<>> /\ eosMeta = NoMeta
    /\ ring = [p \in 0 .. Size - 1 |-> <<EosNal, 2>>]
    /\ out = EmptyCirc /\ view = EmptyCirc
    /\ table = <<>> /\ iCurNalStreamOffset = 0
    /\ iCurOffset = 0
    /\ iStreamOffset = [i \in 0 .. iStackSize - 1 |-> 0]
    /\ iNumFrmBlk1 = 0 /\ iNumFrmBlk2 = 0
    /\ Sem = iStackSize /\ inflight = <<>> /\ ending = FALSE
    /\ incomingWorkSem = 0
    /\ scQueue = <<>> /\ scThread = "runs"
    /\ ScDetectionComplete = FALSE /\ ScdStatus = NoStatus
    /\ slave = "wait" /\ draining = FALSE
    /\ bIsIncomingWorkSignaled = FALSE /\ decoderHasBeenFlushed = FALSE
    /\ units = <<>> /\ lost = FALSE /\ shown = 0

IsFlush(cell) == Nut(cell[1]) = "flush"

\* An input buffer carries cells up to the next flush at most.
Push ==
    \E n \in ChunkSizes :
        LET chunk == SubSeq(input, 1, Min({n, Len(input)}))
            flushAt == SelectInSeq(chunk, IsFlush)
            cells == IF flushAt = 0 THEN chunk ELSE SubSeq(chunk, 1, flushAt - 1)
        IN  /\ app = "pushes" /\ cells # <<>>
            /\ AppBuffers < NumBufs
            /\ eos' = FALSE
            /\ input' = SubSeq(input, Len(cells) + 1, Len(input))
            /\ fifo' = Append(fifo, [id |-> "app", cells |-> cells])
            /\ incomingWorkSem' = incomingWorkSem + 1
            /\ UNCHANGED <<scdVars, prog, app, flushes, keepGoing, workBuf, eosMeta,
                           circVars, tableVars, iCurOffset, hwVars, slaveVars,
                           historyVars>>

\* AL_Decoder_Flush, which does nothing right after another; the application
\* then waits for the end of the stream.
FlushCalled ==
    /\ app = "pushes" /\ input # <<>> /\ IsFlush(Head(input))
    /\ input' = Tail(input)
    /\ app' = "awaits" /\ eos' = TRUE
    /\ IF eos THEN UNCHANGED <<flushes, fifo, eosMeta, incomingWorkSem>>
       ELSE /\ flushes' = flushes + 1
            /\ PushEos(TRUE)
            /\ incomingWorkSem' = incomingWorkSem + 1
    /\ UNCHANGED <<scdVars, prog, keepGoing, workBuf, circVars, tableVars, iCurOffset,
                   hwVars, slaveVars, historyVars>>

EndOfStreamSeen ==
    /\ app = "awaits" /\ shown = flushes
    /\ app' = "pushes"
    /\ UNCHANGED <<scdVars, prog, input, flushes, eos, keepGoing, fifo, workBuf, eosMeta,
                   circVars, tableVars, iCurOffset, hwVars, incomingWorkSem, slaveVars,
                   historyVars>>

\* AL_Decoder_Destroy: the picture manager is decommited, the last unit is
\* forced out by an end of stream that is no last buffer,
DestroyCalled ==
    /\ app \in {"pushes", "awaits"}
    /\ app' = "stops"
    /\ eos' = FALSE
    /\ PushEos(FALSE)
    /\ incomingWorkSem' = incomingWorkSem + 1
    /\ UNCHANGED <<scdVars, prog, input, flushes, keepGoing, workBuf, circVars, tableVars,
                   iCurOffset, hwVars, slaveVars, historyVars>>

\* the slave is told to stop,
DestroySlave ==
    /\ app = "stops"
    /\ app' = "joins"
    /\ keepGoing' = keepGoing - 1
    /\ incomingWorkSem' = incomingWorkSem + 1
    /\ UNCHANGED <<scdVars, prog, input, flushes, eos, fifo, workBuf, eosMeta, circVars,
                   tableVars, iCurOffset, hwVars, slaveVars, historyVars>>

\* and joined; AL_Patchworker_Deinit gives the buffers that are left back.
SlaveJoined ==
    /\ app = "joins" /\ slave = "ended"
    /\ app' = "detaches"
    /\ fifo' = <<>> /\ workBuf' = <<>>
    /\ UNCHANGED <<scdVars, prog, input, flushes, eos, keepGoing, eosMeta, circVars,
                   tableVars, iCurOffset, hwVars, incomingWorkSem, slaveVars, historyVars>>

\* API_DestroyStartCodeChannel: a last message for the start code thread,
DestroyStartCodeChannel ==
    /\ app = "detaches"
    /\ app' = "closes"
    /\ scQueue' = Append(scQueue, "ended")
    /\ UNCHANGED <<prog, input, flushes, eos, keepGoing, fifo, workBuf, eosMeta, circVars,
                   tableVars, iCurOffset, hwVars, incomingWorkSem, scThread,
                   ScDetectionComplete, ScdStatus, slaveVars, historyVars>>

\* which is joined; API_DestroyChannel joins the callback thread, which ends
\* when the driver has no more status for it.
ChannelDestroyed ==
    /\ app = "closes" /\ scThread = "ended"
    /\ inflight = <<>> /\ ~ending
    /\ app' = "destroyed"
    /\ UNCHANGED <<scdVars, prog, input, flushes, eos, keepGoing, fifo, workBuf, eosMeta,
                   circVars, tableVars, iCurOffset, hwVars, incomingWorkSem, slaveVars,
                   historyVars>>

---------------------------------------------------------------------------
(* The slave: Slave_EntryPoint *)

NextRound == IF draining THEN "drain" ELSE "wait"

\* Rtos_GetSemaphore and shouldKeepGoing; the units are access units, so that
\* endWithAccessUnit is always set.
SlaveWakes ==
    /\ slave = "wait" /\ incomingWorkSem > 0
    /\ incomingWorkSem' = incomingWorkSem - 1
    /\ draining' = (keepGoing - 1 < 0)
    /\ slave' = IF keepGoing - 1 < 0 THEN "drain" ELSE "read"
    /\ UNCHANGED <<appVars, scdVars, fifo, workBuf, eosMeta, circVars, tableVars,
                   iCurOffset, hwVars, bIsIncomingWorkSignaled, decoderHasBeenFlushed,
                   historyVars>>

\* A mutant: it ends without the last flush.
SlaveDrainsOnly ==
    /\ slave = "drain"
    /\ IF incomingWorkSem > 0
       THEN incomingWorkSem' = incomingWorkSem - 1 /\ slave' = "read"
       ELSE slave' = "ended" /\ UNCHANGED incomingWorkSem
    /\ UNCHANGED <<appVars, scdVars, fifo, workBuf, eosMeta, circVars, tableVars,
                   iCurOffset, hwVars, draining, bIsIncomingWorkSignaled,
                   decoderHasBeenFlushed, historyVars>>

\* Once it must stop it does the work that is left, without waiting.
SlaveDrains ==
    /\ slave = "drain"
    /\ IF incomingWorkSem > 0
       THEN incomingWorkSem' = incomingWorkSem - 1 /\ slave' = "read"
       ELSE /\ slave' = IF decoderHasBeenFlushed THEN "ended" ELSE "lastFlush"
            /\ UNCHANGED incomingWorkSem
    /\ UNCHANGED <<appVars, scdVars, fifo, workBuf, eosMeta, circVars, tableVars,
                   iCurOffset, hwVars, draining, bIsIncomingWorkSignaled,
                   decoderHasBeenFlushed, historyVars>>

(* Slave_Process *)

\* What has been decoded is freed, and AL_Patchworker_Transfer copies as much
\* of one input buffer as fits.
SlaveReads ==
    LET o == CircBuffer_ConsumeUpToOffset(out, iCurOffset)
        work == IF workBuf # <<>> THEN workBuf ELSE SubSeq(fifo, 1, Min({1, Len(fifo)}))
        meta == IF work = <<>> THEN NoMeta ELSE BufMeta(work[1])
        unusedAreaSize == Size - AL_CIRCULAR_BUFFER_SIZE_MARGIN - o.avail
        n == Min({Len(meta.cells), unusedAreaSize})
        rest == SubSeq(meta.cells, n + 1, Len(meta.cells))
        copied == work # <<>> /\ rest = <<>>
    IN  /\ slave = "read"
        /\ slave' = "search"
        /\ fifo' = IF workBuf = <<>> /\ fifo # <<>> THEN Tail(fifo) ELSE fifo
        /\ workBuf' = IF copied \/ work = <<>> THEN <<>>
                      ELSE <<[work[1] EXCEPT !.cells = IF IsEos(work[1]) THEN <<>> ELSE rest]>>
        /\ eosMeta' = IF work = <<>> \/ ~IsEos(work[1]) THEN eosMeta
                      ELSE IF copied THEN NoMeta ELSE [meta EXCEPT !.cells = rest]
        /\ ring' = [p \in 0 .. Size - 1 |->
                       LET i == Ahead(o.off + o.avail, p)
                       IN  IF i < n THEN meta.cells[i + 1] ELSE ring[p]]
        /\ out' = [o EXCEPT !.avail = @ + n, !.last = @ \/ (copied /\ meta.last)]
        /\ view' = [view EXCEPT !.avail = @ + n]
        /\ bIsIncomingWorkSignaled' = (n > 0)
        /\ incomingWorkSem' = incomingWorkSem + (IF n > 0 THEN 1 ELSE 0)
        /\ UNCHANGED <<appVars, scdVars, tableVars, iCurOffset, hwVars, draining,
                       decoderHasBeenFlushed, historyVars>>

(* TryDecodeOneUnit: FindNextDecodingUnit *)

\* isFirstSliceNAL, once the byte behind the NAL header has been scanned.
IsFirstSlice(nal) ==
    /\ nal.uSize > 1
    /\ LET cell == ring[(nal.uPosition + 1) % Size]
       IN  cell[2] = 2 /\ Nut(cell[1]) \in FirstSlices

VclSeen(i) == \E j \in 1 .. i - 1 : IsVcl(table[j].nal)

\* A mutant: every slice ends the unit before it.
EndsUnitAtSlice(i) ==
    VclSeen(i) /\ (Nut(table[i].nal) \in {"aud", "eos"} \/ IsVcl(table[i].nal))

\* An AUD, an end of stream or a first slice ends the unit before it.
EndsUnit(i) ==
    /\ VclSeen(i)
    /\ \/ Nut(table[i].nal) \in {"aud", "eos"}
       \/ IsVcl(table[i].nal) /\ IsFirstSlice(table[i])

\* AL_SearchDecUnit_GetNextUnit: 0 when no unit is complete.
UnitLength ==
    LET ends == {i \in DOMAIN table : EndsUnit(i)}
    IN  IF ends = {} THEN 0 ELSE Min(ends) - 1

\* AL_SearchDecUnit_AddNals: positions in scanned order, up to uLastByte.
AddNals(nals, starts, uLastByte) ==
    LET pos(i) == IF i > Len(starts) THEN uLastByte ELSE starts[i]
        old == IF nals = <<>> \/ starts = <<>> THEN nals
               ELSE [nals EXCEPT ![Len(nals)].uSize =
                        DeltaPosition(nals[Len(nals)].uPosition, starts[1])]
    IN  old \o [i \in DOMAIN starts |->
                   [nal |-> ring[starts[i]][1], uPosition |-> starts[i],
                    uSize |-> DeltaPosition(pos(i), pos(i + 1))]]

\* The start code detector (external): it scans all but the cells a start
\* code could begin in, or up to the start code it has no room to report.
StartsAhead ==
    {i \in 0 .. view.avail - SCDHardwareConstraintMinSize :
        ring[(view.off + i) % Size][2] = 1}

StartCodes(all) ==
    [uNumBytes |-> IF Len(all) > ScdMax THEN all[ScdMax + 1] ELSE view.avail - 1,
     starts |-> [i \in 1 .. Min({ScdMax, Len(all)}) |-> (view.off + all[i]) % Size]]

InOrder(S) ==
    {s \in [1 .. Cardinality(S) -> S] :
        Range(s) = S /\ \A i, j \in DOMAIN s : i < j => s[i] < s[j]}

\* API_SearchSC: the request is launched and the start code thread told.
SearchSC == scQueue' = Append(scQueue, "search")

\* A table that is full without a unit is cleared.  RefillStartCodes asks the
\* detector for more and waits for its answer, if there are cells enough.
NoUnit ==
    LET full == MAX_NAL_UNIT - Len(table) < ScdMax
        canScan == view.avail >= SCDHardwareConstraintMinSize
    IN  /\ slave = "search" /\ UnitLength = 0
        /\ table' = IF full THEN <<>> ELSE table
        /\ iCurNalStreamOffset' = IF full THEN 0 ELSE iCurNalStreamOffset
        /\ lost' = (lost \/ full)
        /\ IF canScan
           THEN slave' = "detect" /\ SearchSC
           ELSE slave' = "notFound" /\ UNCHANGED scQueue
        /\ UNCHANGED <<appVars, fifo, workBuf, eosMeta, circVars, iCurOffset, hwVars,
                       incomingWorkSem, scThread, ScDetectionComplete, ScdStatus, draining,
                       bIsIncomingWorkSignaled, decoderHasBeenFlushed, units, shown>>

\* The request is repeated when the detector was too busy to look at a byte;
\* else the NALs are added, and there may be a unit if there are any.
StartCodesAdded ==
    LET off == (view.off + ScdStatus.uNumBytes) % Size
    IN  /\ slave = "detect" /\ ScDetectionComplete
        /\ ScDetectionComplete' = FALSE
        /\ IF ScdStatus.uNumBytes = 0
           THEN /\ SearchSC
                /\ UNCHANGED <<slave, view, table, ScdStatus>>
           ELSE /\ view' = [view EXCEPT !.off = off, !.avail = @ - ScdStatus.uNumBytes]
                /\ table' = AddNals(table, ScdStatus.starts, off)
                /\ slave' = IF ScdStatus.starts # <<>> THEN "search" ELSE "notFound"
                /\ ScdStatus' = NoStatus
                /\ UNCHANGED scQueue
        /\ UNCHANGED <<appVars, fifo, workBuf, eosMeta, ring, out, iCurNalStreamOffset,
                       iCurOffset, hwVars, incomingWorkSem, scThread, draining,
                       bIsIncomingWorkSignaled, decoderHasBeenFlushed, historyVars>>

(* TryDecodeOneUnit: DecodeOneUnit *)

Unit == SubSeq(table, 1, UnitLength)
LastVcl == Unit[Max({i \in DOMAIN Unit : IsVcl(Unit[i].nal)})]
EndOf(nal) == (nal.uPosition + nal.uSize) % Size
Verdict == Nut(Unit[Min({i \in DOMAIN Unit : IsVcl(Unit[i].nal)})].nal)

ConsumeUnit ==
    /\ iCurNalStreamOffset' = EndOf(Unit[Len(Unit)])
    /\ table' = SubSeq(table, Len(Unit) + 1, Len(table))
    /\ units' = Append(units, [i \in DOMAIN Unit |-> Unit[i].nal])

\* A mutant: the slave looks again only when new bytes come.
LookAgainLater ==
    /\ slave' = NextRound
    /\ decoderHasBeenFlushed' = FALSE
    /\ UNCHANGED <<bIsIncomingWorkSignaled, incomingWorkSem>>

\* SUCCESS_ACCESS_UNIT: there may be another unit, look again.
LookAgain ==
    /\ slave' = NextRound
    /\ decoderHasBeenFlushed' = FALSE
    /\ bIsIncomingWorkSignaled' = TRUE
    /\ incomingWorkSem' = incomingWorkSem + (IF bIsIncomingWorkSignaled THEN 0 ELSE 1)

\* UpdateStreamOffset and the frame is sent: the hardware reads it in place.
UnitLaunched ==
    LET from == Unit[1].uPosition
        end == EndOf(LastVcl)
    IN  /\ slave = "search" /\ UnitLength > 0 /\ Verdict \in {"first", "slice"} /\ Sem > 0
        /\ Sem' = Sem - 1
        /\ iStreamOffset' = [iStreamOffset EXCEPT ![iNumFrmBlk1 % iStackSize] = end]
        /\ iNumFrmBlk1' = iNumFrmBlk1 + 1
        /\ inflight' = Append(inflight,
                              {<<p, ring[p]>> : p \in {q \in 0 .. Size - 1 :
                                  Ahead(from, q) < DeltaPosition(from, end)}})
        /\ ConsumeUnit /\ LookAgain
        /\ UNCHANGED <<appVars, scdVars, fifo, workBuf, eosMeta, circVars, iCurOffset,
                       iNumFrmBlk2, ending, draining, lost, shown>>

\* A picture the parser refuses is a success that sends nothing; so may be one
\* whose first slice was discarded.
UnitRefused ==
    /\ slave = "search" /\ UnitLength > 0 /\ Verdict \in {"refused", "slice"}
    /\ ConsumeUnit /\ LookAgain
    /\ UNCHANGED <<appVars, scdVars, fifo, workBuf, eosMeta, circVars, iCurOffset, hwVars,
                   draining, lost, shown>>

\* ERR_INVALID_NAL_UNIT: every NAL is filtered out.  ERR_CHAN_DESTROYING: no
\* buffer comes from a picture manager that is decommited.  Nothing more.
UnitDropped ==
    /\ slave = "search" /\ UnitLength > 0
    /\ \/ Verdict = "layer"
       \/ Verdict \in {"first", "slice"} /\ Sem > 0
          /\ app \notin {"pushes", "awaits"}
    /\ slave' = NextRound
    /\ ConsumeUnit
    /\ UNCHANGED <<appVars, scdVars, fifo, workBuf, eosMeta, circVars, iCurOffset, hwVars,
                   incomingWorkSem, draining, bIsIncomingWorkSignaled,
                   decoderHasBeenFlushed, lost, shown>>

\* ERR_UNIT_INVALID_CHANNEL, ERR_UNIT_DYNAMIC_ALLOC: the thread ends, and
\* flushes first only if it was told to stop before.
UnitFatal ==
    /\ slave = "search" /\ UnitLength > 0 /\ Verdict = "fatal"
    /\ slave' = IF draining /\ ~decoderHasBeenFlushed THEN "lastFlush" ELSE "ended"
    /\ UNCHANGED <<appVars, scdVars, fifo, workBuf, eosMeta, circVars, tableVars,
                   iCurOffset, hwVars, incomingWorkSem, draining, bIsIncomingWorkSignaled,
                   decoderHasBeenFlushed, historyVars>>

(* Slave_Process: ERR_UNIT_NOT_FOUND *)

WaitFrameSent == Sem = iStackSize

\* AL_Default_Decoder_FlushInput
FlushInput ==
    /\ table' = <<>> /\ iCurNalStreamOffset' = 0
    /\ iCurOffset' = 0
    /\ out' = EmptyCirc /\ view' = EmptyCirc

\* AL_Patchworker_IsAllDataTransferred
LastOrNext(o) == IF o.last THEN "flush" ELSE NextRound

\* Room is made in a full circular buffer: what has been decoded, what has
\* been parsed, and at last everything.
RoomMade ==
    LET o == CircBuffer_ConsumeUpToOffset(out, iCurOffset)
        skipped == CircBuffer_ConsumeUpToOffset(o, iCurNalStreamOffset)
    IN  /\ slave = "notFound" /\ CircBuffer_IsFull(out)
        /\ WaitFrameSent
        /\ IF ~CircBuffer_IsFull(o)
           THEN out' = o /\ UNCHANGED <<view, tableVars, iCurOffset, lost>>
           ELSE IF ~CircBuffer_IsFull(skipped)
           THEN /\ out' = skipped /\ iCurOffset' = iCurNalStreamOffset
                /\ UNCHANGED <<view, tableVars, lost>>
           ELSE FlushInput /\ lost' = TRUE
        /\ slave' = LastOrNext(out')
        /\ bIsIncomingWorkSignaled' = TRUE
        /\ incomingWorkSem' = incomingWorkSem + (IF bIsIncomingWorkSignaled THEN 0 ELSE 1)
        /\ UNCHANGED <<appVars, scdVars, fifo, workBuf, eosMeta, ring, hwVars, draining,
                       decoderHasBeenFlushed, units, shown>>

RoomLeft ==
    /\ slave = "notFound" /\ ~CircBuffer_IsFull(out)
    /\ slave' = LastOrNext(out)
    /\ UNCHANGED <<appVars, scdVars, fifo, workBuf, eosMeta, circVars, tableVars,
                   iCurOffset, hwVars, incomingWorkSem, draining, bIsIncomingWorkSignaled,
                   decoderHasBeenFlushed, historyVars>>

\* AL_Default_Decoder_InternalFlush, at the end of the input or of the thread.
InternalFlush ==
    /\ slave \in {"flush", "lastFlush"} /\ WaitFrameSent
    /\ FlushInput
    /\ shown' = shown + 1
    /\ slave' = IF slave = "flush" THEN NextRound ELSE "ended"
    /\ decoderHasBeenFlushed' = (decoderHasBeenFlushed \/ slave = "flush")
    /\ UNCHANGED <<appVars, scdVars, fifo, workBuf, eosMeta, ring, hwVars, incomingWorkSem,
                   draining, bIsIncomingWorkSignaled, units, lost>>

---------------------------------------------------------------------------
(* StartCodeNotificationThread *)

\* The request is fetched and its end waited for; EndScd stores the status
\* and sets the event.
EndScd(status) ==
    /\ scThread = "runs" /\ scQueue # <<>> /\ Head(scQueue) = "search"
    /\ scQueue' = Tail(scQueue)
    /\ ScdStatus' = status
    /\ ScDetectionComplete' = TRUE
    /\ UNCHANGED <<appVars, fifo, workBuf, eosMeta, circVars, tableVars, iCurOffset, hwVars,
                   incomingWorkSem, scThread, slaveVars, historyVars>>

StartCodeThreadEnds ==
    /\ scThread = "runs" /\ scQueue # <<>> /\ Head(scQueue) = "ended"
    /\ scQueue' = Tail(scQueue)
    /\ scThread' = "ended"
    /\ UNCHANGED <<appVars, fifo, workBuf, eosMeta, circVars, tableVars, iCurOffset, hwVars,
                   incomingWorkSem, ScDetectionComplete, ScdStatus, slaveVars, historyVars>>

StartCodesFound == \E all \in InOrder(StartsAhead) : EndScd(StartCodes(all))
DetectorBusy == EndScd(NoStatus)

StartCodeThread == StartCodesFound \/ DetectorBusy \/ StartCodeThreadEnds

---------------------------------------------------------------------------
(* AL_Default_Decoder_EndDecoding, on the callback thread *)

\* A mutant: the offset is the one of the frame sent last.
LatestSlot == (iNumFrmBlk1 - 1) % iStackSize

DecodedSlot == iNumFrmBlk2 % iStackSize

\* The frame's bytes may be overwritten, and the feeder is signalled;
EndDecoding ==
    /\ inflight # <<>> /\ ~ending
    /\ inflight' = Tail(inflight)
    /\ iCurOffset' = iStreamOffset[DecodedSlot]
    /\ iNumFrmBlk2' = iNumFrmBlk2 + 1
    /\ incomingWorkSem' = incomingWorkSem + 1
    /\ ending' = TRUE
    /\ UNCHANGED <<appVars, scdVars, fifo, workBuf, eosMeta, circVars, tableVars,
                   iStreamOffset, iNumFrmBlk1, Sem, slaveVars, historyVars>>

\* after the display callbacks the next frame may be sent.
FrameEnded ==
    /\ ending
    /\ ending' = FALSE /\ Sem' = Sem + 1
    /\ UNCHANGED <<appVars, scdVars, fifo, workBuf, eosMeta, circVars, tableVars,
                   iCurOffset, iStreamOffset, iNumFrmBlk1, iNumFrmBlk2, inflight,
                   incomingWorkSem, slaveVars, historyVars>>

---------------------------------------------------------------------------

DestroyContinues ==
    DestroySlave \/ SlaveJoined \/ DestroyStartCodeChannel \/ ChannelDestroyed
Destroying == DestroyCalled \/ DestroyContinues
App == Push \/ FlushCalled \/ EndOfStreamSeen \/ Destroying
Slave ==
    \/ SlaveWakes \/ SlaveDrains \/ SlaveReads
    \/ NoUnit \/ StartCodesAdded
    \/ UnitLaunched \/ UnitRefused \/ UnitDropped \/ UnitFatal
    \/ RoomMade \/ RoomLeft \/ InternalFlush
Callback == EndDecoding \/ FrameEnded

Done == app = "destroyed" /\ UNCHANGED vars

Next == App \/ Slave \/ StartCodeThread \/ Callback \/ Done

\* Threads are scheduled, the hardware ends every frame and the detector is
\* not busy for ever.  The application owes nothing but the rest of a Destroy
\* it has begun.
InputSpec ==
    /\ Init /\ [][Next]_vars
    /\ WF_vars(Slave) /\ WF_vars(Callback)
    /\ WF_vars(StartCodeThread) /\ SF_vars(StartCodesFound)
    /\ WF_vars(DestroyContinues)

---------------------------------------------------------------------------
(* Properties *)

\* Variables keep the ranges the code gives them: in particular no more is
\* consumed from the circular buffer than it holds, the assertion at the end
\* of CircBuffer_ConsumeUpToOffset (BufCommonInternal.h), what is to be scanned is
\* the end of what is held, and at most iStackSize frames are in the hardware.
TypeOK ==
    /\ out.avail \in 0 .. Size - 1 /\ out.off \in 0 .. Size - 1
    /\ view.avail \in 0 .. out.avail
    /\ (view.off + view.avail) % Size = (out.off + out.avail) % Size
    /\ Len(table) <= MAX_NAL_UNIT
    /\ Sem \in 0 .. iStackSize
    /\ Sem + Len(inflight) + (IF ending THEN 1 ELSE 0) = iStackSize
    /\ iNumFrmBlk1 - iNumFrmBlk2 = Len(inflight)
    /\ incomingWorkSem \in Nat /\ keepGoing \in 0 .. 1
    /\ Len(workBuf) <= 1

\* The bytes of the circular buffer are kept as long as somebody reads them:
\* the hardware those of the frames it decodes, the parser those of the NALs
\* in the table, while the slave copies input and the callback frees space.
BytesAreKept ==
    /\ \A i \in DOMAIN inflight : \A b \in inflight[i] :
          Ahead(out.off, b[1]) < out.avail /\ ring[b[1]] = b[2]
    /\ \A i \in DOMAIN table :
          /\ Ahead(out.off, table[i].uPosition) < out.avail
          /\ \A k \in 0 .. table[i].uSize - 1 :
                ring[(table[i].uPosition + k) % Size][1] = table[i].nal
    /\ \A i \in 0 .. view.avail - 1 :
          Ahead(out.off, (view.off + i) % Size) < out.avail

DecodedNals == SelectSeq(FlattenSeq(units), LAMBDA n : n # EosNal)

\* NALs before the i-th flush of the program.
Before(i) == {n \in DOMAIN prog : prog[n].nut # "flush"
                 /\ Cardinality({m \in 1 .. n : prog[m].nut = "flush"}) < i}

\* Units are decoded in stream order, each NAL once; unless input was
\* discarded or the decoder is being destroyed, none is left out, each has the
\* slices of exactly one picture, and when the end of stream is signalled
\* every unit before it has been decoded.
UnitsAreWhole ==
    /\ \A i \in 1 .. Len(DecodedNals) - 1 : DecodedNals[i] < DecodedNals[i + 1]
    /\ ~lost /\ app \in {"pushes", "awaits"} =>
        /\ \E i \in 1 .. flushes + 1 :
              \A n \in Range(DecodedNals) : n \in Before(i)
        /\ \A n \in Range(DecodedNals) : \A m \in 1 .. n :
              prog[m].nut # "flush" => m \in Range(DecodedNals)
        /\ \A i \in DOMAIN units :
              Cardinality({j \in DOMAIN units[i] : Nut(units[i][j]) \in FirstSlices}) = 1
        /\ \A n \in Before(shown) : slave # "ended" => n \in Range(DecodedNals)

Failed == slave = "ended" /\ ~draining

\* The slave never sleeps with work left: every buffer pushed is copied and
\* given back, and every flush is answered by an end of stream, unless the
\* decoder fails or is destroyed.
InputIsAnswered ==
    (fifo # <<>> \/ workBuf # <<>> \/ shown < flushes) ~>
        \/ fifo = <<>> /\ workBuf = <<>> /\ shown = flushes
        \/ Failed \/ app \notin {"pushes", "awaits"}

\* Destroy ends, with the last pictures flushed, whatever it interrupts.
DestroyEnds ==
    app = "stops" ~> app = "destroyed" /\ (Failed \/ shown > 0)
===========================================================================
