---------------------------- MODULE DecodeFlow ----------------------------
(***************************************************************************)
(* How pictures flow through the AVC decoder: the picture manager          *)
(* (lib_parsing/I_PictMngr.c), its DPB (lib_parsing/DPB.c), the pool of    *)
(* annex buffers (lib_common_dec/BufPool.c) and the threads that drive     *)
(* them (lib_decode/AvcDecoder.c, SliceDataParsing.c, DefaultDecoder.c,    *)
(* DecoderFeeder.c).                                                       *)
(*                                                                         *)
(* The decoder thread (the feeder's slave) reserves buffers for a picture, *)
(* updates the DPB and sends the picture to the hardware, at most          *)
(* iStackSize at a time.  The hardware finishes pictures in that order;    *)
(* the scheduler's callback thread then releases what the picture          *)
(* referenced and shows what is ready.  The application gives buffers back *)
(* at any moment, and may destroy the decoder at any moment.               *)
(*                                                                         *)
(* One action is one critical section of the DPB's Mutex with the          *)
(* callbacks it makes into the two pools.  A buffer and the slot of the    *)
(* frame pool it is bound to are one thing here: FrmBufPool models the     *)
(* slots.  Not here either: long term references, gaps in frame_num, MMCO  *)
(* and the picture ids of the DPB.                                         *)
(***************************************************************************)
EXTENDS Integers, SequencesExt

CONSTANTS
    iStackSize,          \* AL_TDecSettings.iStackSize
    MaxStack,            \* AL_DEC_SW_MAX_STACK_SIZE
    NumFrm,              \* frame buffers the application allocated
    NumAnnex,            \* uNumAnnexBuf
    uNumRef,             \* size of the DPB
    max_num_ref_frames,  \* of the SPS
    Streams,             \* the input streams to consider
    LowDelay             \* those decoded with eDpbMode = AL_DPB_NO_REORDERING

\* An input stream is a sequence of pictures and flushes.  ok: the slices of
\* the picture are decodable, else its buffers are cancelled.
Picture == [kind : {"picture"}, poc : Nat, idr : BOOLEAN, ref : BOOLEAN, ok : BOOLEAN]
Eos == [kind |-> "eos"]

ASSUME FlowAssumption ==
    /\ MaxStack \in Nat /\ iStackSize \in 1 .. MaxStack
    /\ NumFrm \in Nat \ {0} /\ NumAnnex \in Nat \ {0}
    /\ uNumRef \in Nat \ {0} /\ max_num_ref_frames \in Nat \ {0}
    /\ LowDelay \subseteq Streams
    /\ Streams \subseteq Seq(Picture \cup {Eos})

Frm == 1 .. NumFrm
Annex == 1 .. NumAnnex
Ring == 0 .. MaxStack - 1

VARIABLES
    mngr,            \* the picture manager: its two pools and the DPB
    Sem,             \* pCtx->Sem, iStackSize tokens
    iNumFrmBlk1,     \* pictures sent to the hardware
    iNumFrmBlk2,     \* pictures the hardware has finished
    refRing,         \* tFrameIDRefList, tMvIDRefList, uNumRef
    inflight,        \* commands sent and not yet called back (external)
    dpc,             \* where the decoder thread is
    cur,             \* tFrameID, tAnnexID of the picture being parsed
    taken,           \* tokens WaitFrameSent has taken
    leaving,         \* the slave thread is in its last flush
    hasBeenFlushed,  \* decoderHasBeenFlushed
    cpc,             \* where the callback thread is
    isDecommited,    \* AL_Decoder_Destroy was called
    stream, next,    \* the input, and the next item to parse
    user,            \* buffers in the application's hands
    content,         \* the picture last decoded in a buffer (ghost)
    output           \* the pictures displayed, in order (ghost)

cntVars == <<Sem, iNumFrmBlk1, iNumFrmBlk2>>
decVars == <<dpc, cur, taken, leaving, hasBeenFlushed, next>>
ghosts == <<content, output>>
flowVars == <<mngr, cntVars, refRing, inflight, decVars, cpc, isDecommited,
              stream, user, ghosts>>

NoReordering == stream \in LowDelay

---------------------------------------------------------------------------
(* The two pools *)

IncrementFrm(m, f) == [m EXCEPT !.iAccessCnt[f] = @ + 1]

\* sFrmBufPool_DecrementBufID: the last reference recycles the buffer, or
\* forgets it when the application has it.
DecrementFrm(m, f) ==
    IF m.iAccessCnt[f] # 1 THEN [m EXCEPT !.iAccessCnt[f] = @ - 1]
    ELSE IF m.bToBeDisplayed[f]
         THEN [m EXCEPT !.iAccessCnt[f] = -1, !.bToBeDisplayed[f] = FALSE]
         ELSE [m EXCEPT !.iAccessCnt[f] = 0, !.avail = Append(@, f)]

\* AL_TBufPool_IncrementBufID, AL_TBufPool_DecrementBufID
IncrementAnnex(m, a) == [m EXCEPT !.mvAccessCnt[a] = @ + 1]

DecrementAnnex(m, a) ==
    CASE m.mvAccessCnt[a] = 0 -> m
      [] m.mvAccessCnt[a] = 1 -> [m EXCEPT !.mvAccessCnt[a] = 0, !.mvFree = Append(@, a)]
      [] OTHER                -> [m EXCEPT !.mvAccessCnt[a] = @ - 1]

\* (Mutant: the references of a picture are not locked.)
LockNothing(m, list) == m

\* One frame with its annex (AL_PictMngr_UnlockID), and the loops of
\* AL_PictMngr_LockRefID and AL_PictMngr_UnlockRefID.
Lock(m, e) == IncrementAnnex(IncrementFrm(m, e.frm), e.mv)
Unlock(m, e) == DecrementAnnex(DecrementFrm(m, e.frm), e.mv)

\* How many elements of a list are what Is says.
Occurrences(s, Is(_)) == Cardinality({i \in DOMAIN s : Is(s[i])})

LockRefID(m, list) ==
    [m EXCEPT !.iAccessCnt = [f \in Frm |-> @[f] + Occurrences(list, LAMBDA e : e.frm = f)],
              !.mvAccessCnt = [a \in Annex |-> @[a] + Occurrences(list, LAMBDA e : e.mv = a)]]

UnlockRefID(m, list) ==
    LET unlocked[i \in 0 .. Len(list)] ==
            IF i = 0 THEN m ELSE Unlock(unlocked[i - 1], list[i])
    IN  unlocked[Len(list)]

---------------------------------------------------------------------------
(* The DPB: nodes in POC order, and the fifo of pictures to display *)

\* AL_Dpb_sReleaseUnusedBuf
ReleaseUnusedBuf(m) == UnlockRefID([m EXCEPT !.deleted = <<>>], m.deleted)

\* AL_Dpb_Display: node i and the nodes before it, those meant for output.
\* AL_Dpb_sAddToDisplayList takes a reference for the fifo.
DisplayNode(m, i) ==
    LET f == m.nodes[i].frm
    IN  IF ~m.nodes[i].bPicOutputFlag THEN m
        ELSE [m EXCEPT !.nodes[i].bPicOutputFlag = FALSE,
                       !.dispFifo = Append(@, f),
                       !.iAccessCnt[f] = @ + 1,
                       !.bToBeDisplayed[f] = TRUE]

Display(m, i) ==
    LET displayed[j \in 0 .. i] == IF j = 0 THEN m ELSE DisplayNode(displayed[j - 1], j)
    IN  displayed[i]

\* AL_Dpb_Remove: the node's references go with the next ReleaseUnusedBuf.
RemoveNode(m, i) ==
    [m EXCEPT !.nodes = RemoveAt(@, i),
              !.deleted = Append(@, [frm |-> m.nodes[i].frm, mv |-> m.nodes[i].mv])]

DisplayAndRemove(m, i) == RemoveNode(Display(m, i), i)

\* (Mutant: the nodes are removed without being displayed.)
FlushSilently(m) ==
    LET flushed[i \in 0 .. Len(m.nodes)] ==
            IF i = 0 THEN m ELSE RemoveNode(flushed[i - 1], 1)
    IN  flushed[Len(m.nodes)]

\* sApiFlush: AL_Dpb_RemoveHead until the list is empty.
RemoveHead(m) == DisplayAndRemove(m, 1)

Flush(m) ==
    LET flushed[i \in 0 .. Len(m.nodes)] == IF i = 0 THEN m ELSE RemoveHead(flushed[i - 1])
    IN  flushed[Len(m.nodes)]

\* AL_AVC_Dpb_EndParsing: a reference with the POC of the new picture goes.
EndParsing(m, poc) ==
    LET i == SelectInSeq(m.nodes, LAMBDA n : n.iFramePOC = poc /\ n.isRef)
    IN  IF i = 0 THEN m
        ELSE IF m.nodes[i].bPicOutputFlag THEN DisplayAndRemove(m, i) ELSE RemoveNode(m, i)

\* (Mutant: the list is kept in decoding order.)
InsertLast(m, node) ==
    Lock([m EXCEPT !.nodes = Append(@, node), !.pFrmStatus[node.frm] = "not_ready"], node)

\* sApiInsert: before the first node with a greater POC.
Insert(m, node) ==
    LET i == SelectInSeq(m.nodes, LAMBDA n : n.iFramePOC > node.iFramePOC)
        at == IF i = 0 THEN Len(m.nodes) + 1 ELSE i
    IN  Lock([m EXCEPT !.nodes = InsertAt(@, at, node),
                       !.pFrmStatus[node.frm] = "not_ready"], node)

\* AL_Dpb_sSlidingWindowMarking: the reference with the least FrameNumWrap,
\* which is the first in decoding order.
SlidingWindowMarking(m) ==
    LET refs == {i \in DOMAIN m.nodes : m.nodes[i].isRef}
        oldest == CHOOSE i \in refs : \A j \in refs : m.nodes[i].pic <= m.nodes[j].pic
    IN  IF Cardinality(refs) > uNumRef \/ Cardinality(refs) > max_num_ref_frames
        THEN [m EXCEPT !.nodes[oldest].isRef = FALSE]
        ELSE m

\* AL_Dpb_AVC_Cleanup: nodes of no more use go; then, in POC order and while
\* the DPB is too full, those that are not references are displayed and go.
IsUseless(n) == ~n.isRef /\ ~n.bPicOutputFlag

PositionOf(m, f) == SelectInSeq(m.nodes, LAMBDA n : n.frm = f)

RemoveIfUseless(m, n) == IF IsUseless(n) THEN RemoveNode(m, PositionOf(m, n.frm)) ELSE m

RemoveUseless(m) ==
    LET left[i \in 0 .. Len(m.nodes)] ==
            IF i = 0 THEN m ELSE RemoveIfUseless(left[i - 1], m.nodes[i])
    IN  left[Len(m.nodes)]

\* (Mutant: the DPB is emptied one node too late.)
BumpLate(m, n) ==
    IF Len(m.nodes) > uNumRef + 1 /\ ~n.isRef
    THEN DisplayAndRemove(m, PositionOf(m, n.frm)) ELSE m

Bump(m, n) ==
    IF Len(m.nodes) > uNumRef /\ ~n.isRef
    THEN DisplayAndRemove(m, PositionOf(m, n.frm)) ELSE m

MakeRoom(m) ==
    LET left[i \in 0 .. Len(m.nodes)] ==
            IF i = 0 THEN m ELSE Bump(left[i - 1], m.nodes[i])
    IN  left[Len(m.nodes)]

AVC_Cleanup(m) == MakeRoom(RemoveUseless(m))

\* sApiEndDecoding
EndDecoding(m, f) ==
    LET r == ReleaseUnusedBuf(m)
        i == PositionOf(r, f)
        s == [r EXCEPT !.pFrmStatus[f] = "ready"]
    IN  CASE m.pFrmStatus[f] # "not_ready"                      -> r
          [] NoReordering /\ i # 0 /\ r.nodes[i].bPicOutputFlag -> Display(s, i)
          [] OTHER                                              -> s

\* sApiGetDisplayBuffer has something to give.
CanDisplay == mngr.dispFifo # <<>> /\ mngr.pFrmStatus[Head(mngr.dispFifo)] = "ready"

\* sApiReleaseDisplayBuffer
ReleaseDisplayBuffer(m) ==
    LET f == Head(m.dispFifo)
    IN  DecrementFrm([m EXCEPT !.dispFifo = Tail(@), !.pFrmStatus[f] = "not_needed"], f)

---------------------------------------------------------------------------
(* The decoder thread: one picture *)

AtEnd == next > Len(stream)
Now == stream[next]
\* (Mutant: the ring of reference lists is one slot too short.)
OffsetShort(n) == n % (MaxStack - 1)

Offset(n) == n % MaxStack

\* AL_InitFrameBuffers: at most iStackSize pictures between here and the
\* release of Sem.
ReserveStart ==
    /\ dpc = "parse" /\ ~AtEnd /\ Now # Eos
    /\ Sem > 0
    /\ Sem' = Sem - 1
    /\ dpc' = "pop"
    /\ UNCHANGED <<mngr, iNumFrmBlk1, iNumFrmBlk2, refRing, inflight, cur, taken,
                   leaving, hasBeenFlushed, cpc, isDecommited, stream, next, user, ghosts>>

\* AL_PictMngr_BeginFrame: waits for a frame buffer ...
BeginFrame ==
    /\ dpc = "pop" /\ ~isDecommited /\ mngr.avail # <<>>
    /\ LET f == Head(mngr.avail) IN
        /\ mngr' = [mngr EXCEPT !.avail = Tail(@), !.iAccessCnt[f] = 1]
        /\ cur' = [cur EXCEPT !.frm = f]
    /\ dpc' = "annex"
    /\ UNCHANGED <<cntVars, refRing, inflight, taken, leaving, hasBeenFlushed, cpc,
                   isDecommited, stream, next, user, ghosts>>

\* (Mutant: the token of the dropped picture is lost.)
BeginFrameLosesToken ==
    /\ dpc = "pop" /\ isDecommited
    /\ next' = next + 1
    /\ dpc' = "parse"
    /\ UNCHANGED <<mngr, cntVars, refRing, inflight, cur, taken, leaving,
                   hasBeenFlushed, cpc, isDecommited, stream, user, ghosts>>

\* ... which fails once the pool is decommited: CHAN_DESTROYING, and the
\* unit is dropped ...
BeginFrameFails ==
    /\ dpc = "pop" /\ isDecommited
    /\ Sem' = Sem + 1
    /\ next' = next + 1
    /\ dpc' = "parse"
    /\ UNCHANGED <<mngr, iNumFrmBlk1, iNumFrmBlk2, refRing, inflight, cur, taken,
                   leaving, hasBeenFlushed, cpc, isDecommited, stream, user, ghosts>>

\* ... and then for an annex buffer (AL_TBufPool_GetFreeBufID).
GetAnnex ==
    /\ dpc = "annex" /\ mngr.mvFree # <<>>
    /\ LET a == Head(mngr.mvFree) IN
        /\ mngr' = [mngr EXCEPT !.mvFree = Tail(@), !.mvAccessCnt[a] = 1]
        /\ cur' = [cur EXCEPT !.mv = a]
    /\ dpc' = "refs"
    /\ UNCHANGED <<cntVars, refRing, inflight, taken, leaving, hasBeenFlushed, cpc,
                   isDecommited, stream, next, user, ghosts>>

\* AL_InitRefBuffers: every reference of the DPB is locked for the picture.
\* (The DPB is read without its mutex: only this thread changes its nodes.)
ListIfRef(list, n) ==
    IF n.isRef THEN Append(list, [frm |-> n.frm, mv |-> n.mv, pic |-> n.pic]) ELSE list

RefList(m) ==
    LET list[i \in 0 .. Len(m.nodes)] ==
            IF i = 0 THEN <<>> ELSE ListIfRef(list[i - 1], m.nodes[i])
    IN  list[Len(m.nodes)]

InitRefBuffers ==
    /\ dpc = "refs"
    /\ refRing' = [refRing EXCEPT ![Offset(iNumFrmBlk1)] = RefList(mngr)]
    /\ mngr' = LockRefID(mngr, RefList(mngr))
    /\ dpc' = CASE ~Now.ok -> "cancel" [] Now.idr -> "flushDpb" [] OTHER -> "endParsing"
    /\ UNCHANGED <<cntVars, inflight, cur, taken, leaving, hasBeenFlushed, cpc,
                   isDecommited, stream, next, user, ghosts>>

\* AL_CancelFrameBuffers
CancelFrame ==
    /\ dpc = "cancel"
    /\ mngr' = UnlockRefID(Unlock(mngr, cur), refRing[Offset(iNumFrmBlk1)])
    /\ Sem' = Sem + 1
    /\ next' = next + 1
    /\ hasBeenFlushed' = FALSE
    /\ dpc' = "parse"
    /\ UNCHANGED <<iNumFrmBlk1, iNumFrmBlk2, refRing, inflight, cur, taken, leaving,
                   cpc, isDecommited, stream, user, ghosts>>

\* updatePictManager, one critical section of the DPB after the other.
Update(from, to, m) ==
    /\ dpc = from
    /\ mngr' = m
    /\ dpc' = to
    /\ UNCHANGED <<cntVars, refRing, inflight, cur, taken, leaving, hasBeenFlushed,
                   cpc, isDecommited, stream, next, user, ghosts>>

UpdatePictManager ==
    \/ Update("flushDpb", "endParsing", Flush(mngr))
    \/ Update("endParsing", "insert", EndParsing(mngr, Now.poc))
    \/ Update("insert", "cleanup",
              Insert(mngr, [frm |-> cur.frm, mv |-> cur.mv, pic |-> next,
                            iFramePOC |-> Now.poc, isRef |-> Now.ref \/ Now.idr,
                            bPicOutputFlag |-> TRUE]))
    \/ Update("cleanup", "launch",
              AVC_Cleanup(IF Now.ref /\ ~Now.idr THEN SlidingWindowMarking(mngr) ELSE mngr))

\* AL_LaunchFrameDecoding
LaunchFrameDecoding ==
    /\ dpc = "launch"
    /\ inflight' = Append(inflight, [frm |-> cur.frm, mv |-> cur.mv, pic |-> next])
    /\ content' = [content EXCEPT ![cur.frm] = next]
    /\ iNumFrmBlk1' = iNumFrmBlk1 + 1
    /\ next' = next + 1
    /\ hasBeenFlushed' = FALSE
    /\ dpc' = "parse"
    /\ UNCHANGED <<mngr, Sem, iNumFrmBlk2, refRing, cur, taken, leaving, cpc,
                   isDecommited, stream, user, output>>

---------------------------------------------------------------------------
(* The decoder thread: AL_Default_Decoder_InternalFlush *)

\* All the input was processed, and the application asked for a flush.
StartFlush ==
    /\ dpc = "parse" /\ ~AtEnd /\ Now = Eos
    /\ dpc' = "wait"
    /\ UNCHANGED <<mngr, cntVars, refRing, inflight, cur, taken, leaving,
                   hasBeenFlushed, cpc, isDecommited, stream, next, user, ghosts>>

\* Slave_EntryPoint, when shouldKeepGoing says no and no work is left (what
\* is left of the input may never be looked at): a last flush if need be.
Leave ==
    /\ dpc = "parse" /\ isDecommited
    /\ leaving' = TRUE
    /\ dpc' = IF hasBeenFlushed THEN "exited" ELSE "wait"
    /\ UNCHANGED <<mngr, cntVars, refRing, inflight, cur, taken, hasBeenFlushed,
                   cpc, isDecommited, stream, next, user, ghosts>>

\* AL_Default_Decoder_WaitFrameSent: takes every token, one at a time, then
\* gives them back.
WaitFrameSent ==
    /\ dpc = "wait" /\ taken < iStackSize /\ Sem > 0
    /\ Sem' = Sem - 1
    /\ taken' = taken + 1
    /\ UNCHANGED <<mngr, iNumFrmBlk1, iNumFrmBlk2, refRing, inflight, dpc, cur,
                   leaving, hasBeenFlushed, cpc, isDecommited, stream, next, user, ghosts>>

\* (Mutant: one token is enough.)
OneFrameSent ==
    /\ dpc = "wait" /\ taken > 0
    /\ Sem' = Sem + taken
    /\ taken' = 0
    /\ mngr' = Flush(mngr)
    /\ dpc' = "display"
    /\ UNCHANGED <<iNumFrmBlk1, iNumFrmBlk2, refRing, inflight, cur, leaving,
                   hasBeenFlushed, cpc, isDecommited, stream, next, user, ghosts>>

AllFramesSent ==
    /\ dpc = "wait" /\ taken = iStackSize
    /\ Sem' = Sem + taken
    /\ taken' = 0
    /\ mngr' = Flush(mngr)
    /\ dpc' = "display"
    /\ UNCHANGED <<iNumFrmBlk1, iNumFrmBlk2, refRing, inflight, cur, leaving,
                   hasBeenFlushed, cpc, isDecommited, stream, next, user, ghosts>>

\* AL_PictMngr_Terminate, after the end of stream was displayed; it waits
\* until every annex buffer is free.
Terminate ==
    /\ dpc = "terminate"
    /\ mngr' = ReleaseUnusedBuf(mngr)
    /\ dpc' = "annexes"
    /\ UNCHANGED <<cntVars, refRing, inflight, cur, taken, leaving, hasBeenFlushed,
                   cpc, isDecommited, stream, next, user, ghosts>>

AnnexesTerminated ==
    /\ dpc = "annexes" /\ Len(mngr.mvFree) = NumAnnex
    /\ hasBeenFlushed' = TRUE
    /\ next' = IF leaving THEN next ELSE next + 1
    /\ dpc' = IF leaving THEN "exited" ELSE "parse"
    /\ UNCHANGED <<mngr, cntVars, refRing, inflight, cur, taken, leaving, cpc,
                   isDecommited, stream, user, ghosts>>

---------------------------------------------------------------------------
(* AL_sDecoder_CallDisplay, by the callback thread or by the decoder thread *)

\* AL_sDecoder_TryDisplayOneFrame: the picture at the head of the fifo goes
\* to the application, and only then leaves the fifo.
ShowHead ==
    /\ output' = Append(output, content[Head(mngr.dispFifo)])
    /\ user' = user \cup {Head(mngr.dispFifo)}
    /\ UNCHANGED mngr

DecoderDisplays ==
    /\ \/ dpc = "display" /\ CanDisplay /\ ShowHead /\ dpc' = "signal"
       \/ dpc = "display" /\ ~CanDisplay /\ dpc' = "terminate"
          /\ UNCHANGED <<mngr, user, output>>
       \/ dpc = "signal" /\ mngr' = ReleaseDisplayBuffer(mngr) /\ dpc' = "display"
          /\ UNCHANGED <<user, output>>
    /\ UNCHANGED <<cntVars, refRing, inflight, cur, taken, leaving, hasBeenFlushed,
                   next, cpc, isDecommited, stream, content>>

CallbackDisplays ==
    /\ \/ cpc = "display" /\ CanDisplay /\ ShowHead /\ cpc' = "signal"
       \/ cpc = "display" /\ ~CanDisplay /\ cpc' = "unlock"
          /\ UNCHANGED <<mngr, user, output>>
       \/ cpc = "signal" /\ mngr' = ReleaseDisplayBuffer(mngr) /\ cpc' = "display"
          /\ UNCHANGED <<user, output>>
    /\ UNCHANGED <<cntVars, refRing, inflight, decVars, isDecommited, stream, content>>

---------------------------------------------------------------------------
(* The callback thread: AL_Default_Decoder_EndDecoding *)

PictureDecoded ==
    /\ cpc = "idle" /\ inflight # <<>>
    /\ mngr' = EndDecoding(mngr, Head(inflight).frm)
    /\ cpc' = "unlockRefs"
    /\ UNCHANGED <<cntVars, refRing, inflight, decVars, isDecommited, stream, user, ghosts>>

\* (Mutant: the references of a decoded picture stay locked.)
ReferencesKept ==
    /\ cpc = "unlockRefs"
    /\ iNumFrmBlk2' = iNumFrmBlk2 + 1
    /\ cpc' = "display"
    /\ UNCHANGED <<mngr, Sem, iNumFrmBlk1, refRing, inflight, decVars, isDecommited,
                   stream, user, ghosts>>

ReferencesUnlocked ==
    /\ cpc = "unlockRefs"
    /\ mngr' = UnlockRefID(mngr, refRing[Offset(iNumFrmBlk2)])
    /\ iNumFrmBlk2' = iNumFrmBlk2 + 1
    /\ cpc' = "display"
    /\ UNCHANGED <<Sem, iNumFrmBlk1, refRing, inflight, decVars, isDecommited, stream,
                   user, ghosts>>

\* AL_PictMngr_UnlockID
PictureUnlocked ==
    /\ cpc = "unlock"
    /\ mngr' = Unlock(mngr, Head(inflight))
    /\ inflight' = Tail(inflight)
    /\ cpc' = "post"
    /\ UNCHANGED <<cntVars, refRing, decVars, isDecommited, stream, user, ghosts>>

SemReleased ==
    /\ cpc = "post"
    /\ Sem' = Sem + 1
    /\ cpc' = "idle"
    /\ UNCHANGED <<mngr, iNumFrmBlk1, iNumFrmBlk2, refRing, inflight, decVars,
                   isDecommited, stream, user, ghosts>>

---------------------------------------------------------------------------
(* The application *)

\* AL_Decoder_PutDisplayPicture: a buffer the pool still uses is marked, one
\* it forgot or that nobody references is available again.
PutDisplayPicture(b) ==
    /\ b \in user
    /\ user' = user \ {b}
    /\ mngr' = IF mngr.iAccessCnt[b] > 0
               THEN [mngr EXCEPT !.bToBeDisplayed[b] = FALSE]
               ELSE [mngr EXCEPT !.iAccessCnt[b] = 0, !.bToBeDisplayed[b] = FALSE,
                                 !.avail = Append(@, b)]
    /\ UNCHANGED <<cntVars, refRing, inflight, decVars, cpc, isDecommited, stream, ghosts>>

\* AL_Decoder_Destroy, up to the join of the slave thread.
Destroy ==
    /\ ~isDecommited
    /\ isDecommited' = TRUE
    /\ UNCHANGED <<mngr, cntVars, refRing, inflight, decVars, cpc, stream, user, ghosts>>

\* The slave thread was joined; what is left of Destroy is in FrmBufPool.
Exited == dpc = "exited" /\ inflight = <<>> /\ cpc = "idle" /\ UNCHANGED flowVars

---------------------------------------------------------------------------
FlowInit ==
    /\ mngr = [iAccessCnt |-> [f \in Frm |-> 0],
               bToBeDisplayed |-> [f \in Frm |-> FALSE],
               avail |-> [i \in Frm |-> i],
               mvAccessCnt |-> [a \in Annex |-> 0],
               mvFree |-> [i \in Annex |-> i],
               pFrmStatus |-> [f \in Frm |-> "not_needed"],
               nodes |-> <<>>, dispFifo |-> <<>>, deleted |-> <<>>]
    /\ Sem = iStackSize /\ iNumFrmBlk1 = 0 /\ iNumFrmBlk2 = 0
    /\ refRing = [o \in Ring |-> <<>>]
    /\ inflight = <<>>
    /\ dpc = "parse" /\ cur = [frm |-> 0, mv |-> 0] /\ taken = 0
    /\ leaving = FALSE /\ hasBeenFlushed = FALSE
    /\ cpc = "idle"
    /\ isDecommited = FALSE
    /\ stream \in Streams /\ next = 1
    /\ user = {}
    /\ content = [f \in Frm |-> 0] /\ output = <<>>

DecoderThread ==
    \/ ReserveStart \/ BeginFrame \/ BeginFrameFails \/ GetAnnex \/ InitRefBuffers
    \/ CancelFrame \/ UpdatePictManager \/ LaunchFrameDecoding
    \/ StartFlush \/ Leave \/ WaitFrameSent \/ AllFramesSent \/ DecoderDisplays
    \/ Terminate \/ AnnexesTerminated

CallbackThread ==
    \/ PictureDecoded \/ ReferencesUnlocked \/ CallbackDisplays
    \/ PictureUnlocked \/ SemReleased

FlowNext ==
    \/ DecoderThread \/ CallbackThread
    \/ \E b \in Frm : PutDisplayPicture(b)
    \/ Destroy \/ Exited

\* The threads run, the hardware finishes what it is given, and the
\* application returns every buffer in the end (else decoding stops, as it
\* must).  Nothing obliges it to destroy the decoder.
FlowFairness ==
    /\ WF_flowVars(DecoderThread)
    /\ WF_flowVars(CallbackThread)
    /\ \A b \in Frm : WF_flowVars(PutDisplayPicture(b))

FlowSpec == FlowInit /\ [][FlowNext]_flowVars /\ FlowFairness

---------------------------------------------------------------------------
(* Who holds what *)

Reserved == dpc \in {"refs", "cancel", "flushDpb", "endParsing", "insert", "cleanup", "launch"}
RefsLocked == Reserved /\ dpc # "refs"

\* Slots of refRing whose references are locked.
LockedSlots ==
    {Offset(n) : n \in iNumFrmBlk2 .. IF RefsLocked THEN iNumFrmBlk1 ELSE iNumFrmBlk1 - 1}

\* How many references of the locked lists are to what Is says.
InLockedLists(Is(_)) ==
    Cardinality(UNION {{o} \X {i \in DOMAIN refRing[o] : Is(refRing[o][i])} : o \in LockedSlots})

HoldersOfFrm(f) ==
      (IF (dpc = "annex" \/ Reserved) /\ cur.frm = f THEN 1 ELSE 0)
    + Occurrences(inflight, LAMBDA c : c.frm = f)
    + Occurrences(mngr.nodes, LAMBDA n : n.frm = f)
    + Occurrences(mngr.deleted, LAMBDA d : d.frm = f)
    + Occurrences(mngr.dispFifo, LAMBDA d : d = f)
    + InLockedLists(LAMBDA e : e.frm = f)

HoldersOfAnnex(a) ==
      (IF Reserved /\ cur.mv = a THEN 1 ELSE 0)
    + Occurrences(inflight, LAMBDA c : c.mv = a)
    + Occurrences(mngr.nodes, LAMBDA n : n.mv = a)
    + Occurrences(mngr.deleted, LAMBDA d : d.mv = a)
    + InLockedLists(LAMBDA e : e.mv = a)

\* The coded video sequence a picture belongs to.
SequenceOf(n) == Cardinality({k \in 1 .. n : stream[k] = Eos \/ stream[k].idr})

---------------------------------------------------------------------------
(* Properties *)

\* Threads, counters and lists stay in the ranges the code gives them.
TypeOK ==
    /\ mngr.iAccessCnt \in [Frm -> Nat \cup {-1}]
    /\ mngr.bToBeDisplayed \in [Frm -> BOOLEAN]
    /\ mngr.avail \in Seq(Frm) /\ mngr.mvFree \in Seq(Annex)
    /\ mngr.mvAccessCnt \in [Annex -> Nat]
    /\ Sem \in 0 .. iStackSize /\ taken \in 0 .. iStackSize
    /\ Len(mngr.nodes) <= IF dpc = "cleanup" THEN uNumRef + 1 ELSE uNumRef
    /\ Len(inflight) <= iStackSize
    /\ user \subseteq Frm

\* The counts of the two pools are exactly the references somebody holds:
\* the picture being parsed, those in flight, the nodes of the DPB and the
\* nodes removed from it, the display fifo and the reference lists of the
\* pictures in flight.  The ring of lists is never overwritten too early,
\* and no path (cancelled picture, IDR, flush) drops or keeps one too many.
CountsAreExact ==
    /\ \A f \in Frm : mngr.iAccessCnt[f] \in {HoldersOfFrm(f), -1}
                      /\ (mngr.iAccessCnt[f] = -1 => HoldersOfFrm(f) = 0)
    /\ \A a \in Annex : mngr.mvAccessCnt[a] = HoldersOfAnnex(a)

\* Nothing is written where somebody still reads: the pictures in flight and
\* the one being parsed have a buffer each, which the application does not
\* have; and every picture a node of the DPB or a picture in flight refers to
\* is still in its buffer.
NoOverwrite ==
    LET undecoded == IF cpc \in {"idle", "post"} THEN inflight ELSE Tail(inflight)
        written == undecoded \o IF dpc = "annex" \/ Reserved THEN <<cur>> ELSE <<>>
        Kept(e) == content[e.frm] = e.pic \/ (Reserved /\ e.pic = next)
    IN  /\ \A i, j \in DOMAIN written : written[i].frm = written[j].frm => i = j
        /\ \A i \in DOMAIN written : written[i].frm \notin user
        /\ \A i \in DOMAIN mngr.nodes : Kept(mngr.nodes[i])
        /\ \A o \in LockedSlots : \A i \in DOMAIN refRing[o] : Kept(refRing[o][i])

\* No picture is displayed twice, and the pictures of a coded video sequence
\* are displayed in output order, one sequence after the other (the streams
\* keep their reordering within the DPB).
OutputInOrder ==
    \A j \in DOMAIN output : \A i \in 1 .. j - 1 :
        \/ SequenceOf(output[i]) < SequenceOf(output[j])
        \/ /\ SequenceOf(output[i]) = SequenceOf(output[j])
           /\ output[i] # output[j]
           /\ stream[output[i]].poc <= stream[output[j]].poc

\* The decoder thread displays only when the callback thread does not: two
\* threads in AL_sDecoder_CallDisplay could show the same head of the fifo
\* twice and drop the next picture.
OneThreadDisplays == dpc \in {"display", "signal"} => cpc = "idle" /\ inflight = <<>>

\* After a flush every picture that was sent to the hardware was displayed,
\* and nothing of the sequence is left: no node, no fifo entry, no reference.
FlushIsComplete ==
    dpc \in {"parse", "exited"} /\ hasBeenFlushed =>
        /\ Len(output) = iNumFrmBlk1
        /\ mngr.nodes = <<>> /\ mngr.dispFifo = <<>> /\ mngr.deleted = <<>>
        /\ \A f \in Frm : mngr.iAccessCnt[f] <= 0
        /\ \A a \in Annex : mngr.mvAccessCnt[a] = 0

\* Unless the decoder is destroyed, all of the input is processed, whatever
\* the application keeps for a while: nobody waits for ever for a token, a
\* frame buffer or an annex buffer.
InputIsProcessed == <>(isDecommited \/ AtEnd)

\* AL_Decoder_Destroy ends, wherever the threads are when it is called: the
\* slave thread exits.
DestroyEnds == isDecommited ~> dpc = "exited"
=============================================================================
