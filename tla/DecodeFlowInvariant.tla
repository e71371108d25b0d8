------------------------ MODULE DecodeFlowInvariant ------------------------
(***************************************************************************)
(* The inductive invariant of DecodeFlow: what is true of the tokens of    *)
(* pCtx->Sem, of the two pools, of the DPB and of the pictures in flight   *)
(* whenever one of the threads may run.                                    *)
(***************************************************************************)
EXTENDS DecodeFlow

---------------------------------------------------------------------------
(* Tokens and counters *)

\* Between AL_InitFrameBuffers and the launch or the cancel of the picture
\* the decoder thread has a token.
HoldsToken == dpc \in {"pop", "annex"} \/ Reserved

\* The decoder thread is in a flush, past WaitFrameSent.
Flushing == dpc \in {"display", "signal", "terminate", "annexes"}

\* The callback thread has counted the picture as finished, but the command
\* has not left the queue.
Finished == cpc \in {"display", "signal", "unlock"}

FlowTypes ==
    /\ Sem \in Nat /\ taken \in Nat
    /\ iNumFrmBlk1 \in Nat /\ iNumFrmBlk2 \in Nat
    /\ inflight \in Seq(Range(inflight))
    /\ dpc \in {"parse", "pop", "annex", "refs", "cancel", "flushDpb", "endParsing", "insert",
                "cleanup", "launch", "wait", "display", "signal", "terminate", "annexes",
                "exited"}
    /\ cpc \in {"idle", "unlockRefs", "display", "signal", "unlock", "post"}

\* Every token is in the semaphore, taken by WaitFrameSent, with the picture
\* being parsed, with a picture in flight, or about to be released.
TokensConserved ==
    Sem + taken + Len(inflight) + (IF HoldsToken THEN 1 ELSE 0)
        + (IF cpc = "post" THEN 1 ELSE 0) = iStackSize

\* The counters of pictures differ by the pictures in flight.
CountersAgree ==
    iNumFrmBlk1 = iNumFrmBlk2 + Len(inflight) - (IF Finished THEN 1 ELSE 0)

FlowInv ==
    /\ FlowTypes /\ TokensConserved /\ CountersAgree
    /\ taken > 0 => dpc = "wait"
    /\ cpc \notin {"idle", "post"} => inflight # <<>>
    /\ Flushing => inflight = <<>> /\ cpc = "idle"

---------------------------------------------------------------------------
(* The picture manager *)

Entry == [frm : Frm, mv : Annex]
Reference == [frm : Frm, mv : Annex, pic : Nat]
Node == [frm : Frm, mv : Annex, pic : Nat, iFramePOC : Nat, isRef : BOOLEAN,
         bPicOutputFlag : BOOLEAN]

PictMngrs ==
    [iAccessCnt : [Frm -> Nat \cup {-1}], bToBeDisplayed : [Frm -> BOOLEAN],
     avail : Seq(Frm), mvAccessCnt : [Annex -> Nat], mvFree : Seq(Annex),
     pFrmStatus : [Frm -> {"not_ready", "ready", "not_needed"}],
     nodes : Seq(Node), dispFifo : Seq(Frm), deleted : Seq(Entry)]

FrmRefs(s, f) == Occurrences(s, LAMBDA e : e.frm = f)
MvRefs(s, a) == Occurrences(s, LAMBDA e : e.mv = a)
FifoRefs(s, f) == Occurrences(s, LAMBDA d : d = f)
NumOutput(s) == Occurrences(s, LAMBDA n : n.bPicOutputFlag)
NumRef(s) == Occurrences(s, LAMBDA n : n.isRef)

\* What the DPB holds: its nodes, those removed from it, the display fifo.
DpbFrm(m, f) == FrmRefs(m.nodes, f) + FrmRefs(m.deleted, f) + FifoRefs(m.dispFifo, f)
DpbMv(m, a) == MvRefs(m.nodes, a) + MvRefs(m.deleted, a)

\* The counts, when others hold H[f] references to frame f and K[a] to annex a.
Counted(m, H, K) ==
    /\ \A f \in Frm : /\ m.iAccessCnt[f] \in {H[f] + DpbFrm(m, f), -1}
                      /\ m.iAccessCnt[f] = -1 => H[f] + DpbFrm(m, f) = 0
    /\ \A a \in Annex : m.mvAccessCnt[a] = K[a] + DpbMv(m, a)

\* A buffer that is available is nobody's, and is there once.
AvailableIsFree(m) ==
    /\ IsInjective(m.avail) /\ IsInjective(m.mvFree)
    /\ \A i \in DOMAIN m.avail : m.iAccessCnt[m.avail[i]] = 0
    /\ \A i \in DOMAIN m.mvFree : m.mvAccessCnt[m.mvFree[i]] = 0

\* The pool knows which buffers the application has.
UserIsKnown(m, U) ==
    /\ U \subseteq Frm
    /\ \A f \in U : m.iAccessCnt[f] = -1 \/ (m.iAccessCnt[f] > 0 /\ m.bToBeDisplayed[f])

\* A frame is in one node at most, until it is displayed, and then once in
\* the fifo; the application gets it from there, when it is the head and is
\* decoded (shown = 1).
DistinctFrames(s) == \A i, j \in DOMAIN s : s[i].frm = s[j].frm => i = j

FramesOf(s) == {s[i].frm : i \in DOMAIN s}

QueuedOnce(m, U, shown) ==
    /\ DistinctFrames(m.nodes) /\ IsInjective(m.dispFifo)
    /\ \A i \in DOMAIN m.nodes :
          m.nodes[i].bPicOutputFlag =>
              m.nodes[i].frm \notin U /\ m.nodes[i].frm \notin Range(m.dispFifo)
    /\ \A i \in DOMAIN m.dispFifo :
          i > shown => m.bToBeDisplayed[m.dispFifo[i]] /\ m.dispFifo[i] \notin U
    /\ shown = 1 => m.dispFifo # <<>> /\ m.pFrmStatus[Head(m.dispFifo)] = "ready"

\* The frames of N are not decoded yet; the others that wait to be displayed
\* are.
StatusIsKnown(m, U, shown, N) ==
    /\ N \cap U = {}
    /\ \A f \in N : m.pFrmStatus[f] = "not_ready"
    /\ \A i \in DOMAIN m.nodes :
          m.nodes[i].bPicOutputFlag => m.nodes[i].frm \in N
                                       \/ m.pFrmStatus[m.nodes[i].frm] = "ready"
    /\ \A i \in DOMAIN m.dispFifo :
          i > shown => m.dispFifo[i] \in N \/ m.pFrmStatus[m.dispFifo[i]] = "ready"

\* The pictures that are not displayed yet.
ToOutput(m, shown) == NumOutput(m.nodes) + Len(m.dispFifo) - shown

MngrInv(m, H, K, U, shown, N) ==
    /\ m \in PictMngrs /\ H \in [Frm -> Nat] /\ K \in [Annex -> Nat]
    /\ shown \in {0, 1}
    /\ Counted(m, H, K)
    /\ AvailableIsFree(m)
    /\ UserIsKnown(m, U)
    /\ QueuedOnce(m, U, shown)
    /\ StatusIsKnown(m, U, shown, N)

---------------------------------------------------------------------------
(* The threads *)

\* The picture being parsed is in the DPB.
Inserted == dpc \in {"cleanup", "launch"}

\* References outside of the DPB: the picture being parsed, those in flight,
\* the locked lists.
OtherFrm == [f \in Frm |->
      (IF (dpc = "annex" \/ Reserved) /\ cur.frm = f THEN 1 ELSE 0)
    + FrmRefs(inflight, f) + InLockedLists(LAMBDA e : e.frm = f)]

OtherMv == [a \in Annex |->
      (IF Reserved /\ cur.mv = a THEN 1 ELSE 0)
    + MvRefs(inflight, a) + InLockedLists(LAMBDA e : e.mv = a)]

Undecoded == IF cpc \in {"idle", "post"} THEN inflight ELSE Tail(inflight)
NotDecoded == FramesOf(Undecoded) \cup IF Inserted THEN {cur.frm} ELSE {}

Shown == IF dpc = "signal" \/ cpc = "signal" THEN 1 ELSE 0

ThreadTypes ==
    /\ cur \in [frm : Frm \cup {0}, mv : Annex \cup {0}]
    /\ dpc = "annex" \/ Reserved => cur.frm \in Frm
    /\ Reserved => cur.mv \in Annex
    /\ inflight \in Seq(Reference)
    /\ refRing \in [Ring -> Seq(Reference)]
    /\ stream \in Streams /\ next \in Nat \ {0}
    /\ dpc \in {"pop", "annex"} \/ Reserved => next <= Len(stream) /\ Now # Eos
    /\ content \in [Frm -> Nat] /\ output \in Seq(Nat)

\* The picture being parsed has a frame of its own.
CurIsFresh ==
    /\ (dpc = "annex" \/ Reserved) /\ ~Inserted =>
          /\ cur.frm \notin FramesOf(mngr.nodes)
          /\ cur.frm \notin Range(mngr.dispFifo)
          /\ cur.frm \notin user
    /\ dpc = "annex" \/ Reserved =>
          /\ cur.frm \notin FramesOf(inflight)
          /\ \A o \in LockedSlots : cur.frm \notin FramesOf(refRing[o])
    /\ DistinctFrames(inflight)

\* The pictures of the DPB and those that the hardware reads are in their
\* buffers, where the picture being parsed will be.
IsKept(e) == content[e.frm] = e.pic /\ e.pic < next

PicturesKept ==
    /\ \A i \in DOMAIN mngr.nodes :
          IF Inserted /\ mngr.nodes[i].frm = cur.frm
          THEN mngr.nodes[i].pic = next
          ELSE IsKept(mngr.nodes[i])
    /\ \A o \in LockedSlots : \A i \in DOMAIN refRing[o] : IsKept(refRing[o][i])

\* The DPB has room for one more picture when one comes.
DpbHasRoom ==
    /\ dpc # "cleanup" => Len(mngr.nodes) <= uNumRef
    /\ dpc \in {"endParsing", "insert"} /\ Now.idr => mngr.nodes = <<>>
    /\ dpc = "cleanup" =>
          /\ Len(mngr.nodes) <= uNumRef + 1
          /\ Now.idr => Len(mngr.nodes) <= 1
          /\ ~Now.ref => NumRef(mngr.nodes) <= uNumRef \/ Now.idr

\* Every picture sent is displayed or will be.
OutputIsExact ==
    iNumFrmBlk1 + (IF Inserted THEN 1 ELSE 0) = Len(output) + ToOutput(mngr, Shown)

\* From the flush of the DPB on, nothing of the sequence is left in it.
FlushLeavesNothing ==
    /\ Flushing => mngr.nodes = <<>>
    /\ dpc \in {"terminate", "annexes"} => mngr.dispFifo = <<>>
    /\ dpc = "annexes" => mngr.deleted = <<>>
    /\ hasBeenFlushed /\ ~Inserted =>
          /\ mngr.nodes = <<>> /\ mngr.dispFifo = <<>> /\ mngr.deleted = <<>>
          /\ inflight = <<>> /\ cpc = "idle"

PictureInv ==
    /\ ThreadTypes
    /\ MngrInv(mngr, OtherFrm, OtherMv, user, Shown, NotDecoded)
    /\ CurIsFresh /\ PicturesKept
    /\ DpbHasRoom
    /\ OutputIsExact
    /\ FlushLeavesNothing
=============================================================================
