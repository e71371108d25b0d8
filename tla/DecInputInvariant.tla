------------------------- MODULE DecInputInvariant -------------------------
(***************************************************************************)
(* The inductive invariant of DecInput: what the threads ask of each other *)
(* (InputTypes), where the offsets are in the circular buffer              *)
(* (OffsetsInOrder), what the hardware reads (FramesKept), what the start  *)
(* code detector has found (StatusRight), and where NALs begin and end     *)
(* (CellsInOrder).  Of the circular buffer it speaks only until input is   *)
(* discarded: a full table that is cleared leaves iCurNalStreamOffset      *)
(* behind.                                                                 *)
(***************************************************************************)
EXTENDS DecInput

---------------------------------------------------------------------------
(* What the variables are, and what the threads ask of each other *)

Offset == 0 .. Size - 1
Cell == Nat \X Nat
Circ == [off : Offset, avail : Offset, last : BOOLEAN]
NalRange == [nal : Nat, uPosition : Offset, uSize : Offset \ {0}]
Buffer == [id : {"app", "eos"}, cells : Seq(Cell)]
SlavePlaces == {"wait", "drain", "read", "search", "detect", "notFound", "flush",
                "lastFlush", "ended"}

Prog == Seq([nut : STRING, len : Nat])
InputTypes ==
    /\ prog \in Prog /\ input \in Seq(Cell)
    /\ fifo \in Seq(Buffer) /\ workBuf \in Seq(Buffer)
    /\ eosMeta \in [cells : Seq(Cell), last : BOOLEAN]
    /\ out \in Circ /\ view \in Circ /\ ring \in [Offset -> Cell]
    /\ iCurOffset \in Offset /\ iCurNalStreamOffset \in Offset
    /\ table \in Seq(NalRange)
    /\ iStreamOffset \in [0 .. iStackSize - 1 -> Offset]

Calls == {"pushes", "awaits", "stops", "joins", "detaches", "closes", "destroyed"}
Joined == {"detaches", "closes", "destroyed"}
Places ==
    /\ incomingWorkSem \in Nat /\ lost \in BOOLEAN
    /\ app \in Calls /\ slave \in SlavePlaces
    /\ keepGoing = IF app \in {"pushes", "awaits", "stops"} THEN 1 ELSE 0
    /\ app \in Joined => slave = "ended"
OneWork == workBuf # <<>> => workBuf = <<workBuf[1]>>
Requests ==
    /\ scQueue \in {<<>>, <<"search">>, <<"ended">>}
    /\ scQueue = <<"ended">> => app \in {"closes", "destroyed"}
    /\ scQueue = <<"search">> <=> slave = "detect" /\ ~ScDetectionComplete
    /\ ScDetectionComplete \in BOOLEAN /\ (ScDetectionComplete => slave = "detect")
Asks == Places /\ OneWork /\ Requests

---------------------------------------------------------------------------
(* The offsets, as cells ahead of the first one that is held *)

At(p) == Ahead(out.off, p)
EndAt(i) == At(table[i].uPosition) + table[i].uSize

TableHasRoom ==
    /\ Len(table) <= MAX_NAL_UNIT
    /\ slave = "detect" => /\ Len(table) + ScdMax <= MAX_NAL_UNIT
                           /\ view.avail >= SCDHardwareConstraintMinSize

\* What has been decoded, what has been parsed, the NALs of the table and what
\* is not scanned yet follow each other.
OffsetsInOrder ==
    /\ At(iCurOffset) <= At(iCurNalStreamOffset)
    /\ At(iCurNalStreamOffset) <= At(view.off)
    /\ At(view.off) + view.avail = out.avail
    /\ \A i \in DOMAIN table :
          /\ At(iCurNalStreamOffset) <= At(table[i].uPosition)
          /\ EndAt(i) <= At(view.off)
          /\ \A j \in DOMAIN table : i < j => EndAt(i) <= At(table[j].uPosition)

\* The frames in the hardware lie between what has been decoded and what has
\* been parsed, one after the other, and their bytes are those they were sent
\* with.
FrameEnd(i) == iStreamOffset[(iNumFrmBlk2 + i - 1) % iStackSize]
FramesKept ==
    \A i \in DOMAIN inflight :
        /\ At(iCurOffset) <= At(FrameEnd(i)) /\ At(FrameEnd(i)) <= At(iCurNalStreamOffset)
        /\ \A b \in inflight[i] :
              /\ b[1] \in Offset /\ ring[b[1]] = b[2]
              /\ At(iCurOffset) <= At(b[1]) /\ At(b[1]) < At(iCurNalStreamOffset)
        /\ \A j \in DOMAIN inflight : i < j =>
              /\ At(FrameEnd(i)) <= At(FrameEnd(j))
              /\ \A b \in inflight[j] : At(FrameEnd(i)) <= At(b[1])

\* While the slave waits for the detector the view does not move, so that the
\* status still says where its NALs start.
Unseen(p) == Ahead(view.off, p)
StatusTells(status) ==
    /\ status.uNumBytes \in 1 .. view.avail - 1
    /\ status.starts \in Seq(Offset) /\ Len(status.starts) <= ScdMax
    /\ \A i \in DOMAIN status.starts :
          /\ Unseen(status.starts[i]) < status.uNumBytes
          /\ ring[status.starts[i]][2] = 1
          /\ \A j \in DOMAIN status.starts :
                i < j => Unseen(status.starts[i]) < Unseen(status.starts[j])
    /\ \A p \in Offset :
          Unseen(p) < status.uNumBytes /\ ring[p][2] = 1 => p \in Range(status.starts)
StatusRight == ScDetectionComplete /\ ScdStatus.uNumBytes # 0 => StatusTells(ScdStatus)

---------------------------------------------------------------------------
(* The cells: a NAL goes on until another one starts *)

Follows(c, d) == d[2] = 1 \/ d[1] = c[1]
Chained(s) == \A i \in 1 .. Len(s) - 1 : Follows(s[i], s[i + 1])

\* The cells of the circular buffer, and those of the NALs of the table; no
\* start code has been seen behind the last one.
LastHeld == (out.off + out.avail - 1) % Size
RingChained ==
    \A p \in Offset : At(p) + 1 < out.avail => Follows(ring[p], ring[(p + 1) % Size])
TableRead ==
    \A i \in DOMAIN table :
        /\ \A p \in Offset :
              Ahead(table[i].uPosition, p) < table[i].uSize => ring[p][1] = table[i].nal
        /\ i = Len(table) =>
              \A p \in Offset : At(table[i].uPosition) < At(p) /\ At(p) < At(view.off)
                                => ring[p][2] # 1

\* What is still to be copied goes on where the circular buffer ends: the buffer
\* being copied, those of the fifo, what the application has not pushed yet.
FirstCell(buf) == IF IsEos(buf) THEN EosCells[1] ELSE buf.cells[1]
LastCell(buf) == IF IsEos(buf) THEN EosCells[2] ELSE buf.cells[Len(buf.cells)]
Filled(buf) == ~IsEos(buf) => buf.cells # <<>> /\ Chained(buf.cells)

EosHalf == eosMeta.cells = <<EosCells[2]>>
EosParts ==
    /\ eosMeta.cells \in {<<>>, EosCells, <<EosCells[2]>>}
    /\ eosMeta.cells = <<>> => eosMeta = NoMeta
    /\ EosHalf /\ workBuf = <<>> => app \in Joined
    /\ EosHalf /\ workBuf # <<>> => IsEos(workBuf[1])

NextCell == IF workBuf # <<>> THEN BufMeta(workBuf[1]).cells[1] ELSE FirstCell(fifo[1])
BuffersChained ==
    /\ \A k \in DOMAIN fifo :
          /\ Filled(fifo[k])
          /\ k > 1 => Follows(LastCell(fifo[k - 1]), FirstCell(fifo[k]))
    /\ workBuf # <<>> =>
          /\ Filled(workBuf[1])
          /\ fifo # <<>> => Follows(LastCell(workBuf[1]), FirstCell(fifo[1]))
    /\ out.avail > 0 /\ (workBuf # <<>> \/ fifo # <<>>) => Follows(ring[LastHeld], NextCell)

InputChained ==
    /\ Chained(input)
    /\ app \in {"pushes", "awaits"} /\ input # <<>> /\ ~IsFlush(Head(input)) =>
          /\ fifo # <<>> => Follows(LastCell(fifo[Len(fifo)]), Head(input))
          /\ fifo = <<>> /\ workBuf # <<>> => Follows(LastCell(workBuf[1]), Head(input))
          /\ fifo = <<>> /\ workBuf = <<>> /\ out.avail > 0 =>
                Follows(ring[LastHeld], Head(input))

CellsInOrder ==
    RingChained /\ TableRead /\ EosParts /\ BuffersChained /\ InputChained

InputInv ==
    /\ Asks
    /\ ~lost => InputTypes /\ TableHasRoom /\ OffsetsInOrder /\ FramesKept /\ StatusRight
                /\ CellsInOrder
=============================================================================
