---------------------------- MODULE FrmBufPool ----------------------------
(***************************************************************************)
(* The frame buffer pool of the picture manager: the sFrmBufPool_          *)
(* functions of lib_parsing/I_PictMngr.c.                                  *)
(*                                                                         *)
(* A slot (an AL_TIndex tFrameID) binds one buffer of the application and  *)
(* counts the references the decoder keeps on it: the picture being        *)
(* decoded, the nodes of the DPB, the display fifo and the reference       *)
(* lists of the pictures in flight.  Here these clients are the members of *)
(* Holder, and refs records who holds what; DecodeFlow names them.  Three  *)
(* threads share the pool: the decoder thread pops and references frames,  *)
(* the scheduler's callback thread releases and shows them, the            *)
(* application gives buffers back at any moment.                           *)
(*                                                                         *)
(* Every function runs under the pool's recursive Mutex, so each is one    *)
(* action.  Pop is two: it takes the semaphore before the mutex.           *)
(***************************************************************************)
EXTENDS Integers, Sequences, FiniteSets, Functions

CONSTANTS
    PoolSize,      \* AL_REFMNGR_MAX_POOL_SIZE
    Buffers,       \* the AL_TBuffers the application allocated
    NoBuf,         \* a slot with no buffer (tRecBuffers.pFrame == NULL)
    Holder,        \* the clients that keep references on frames
    bForceDisplay, \* pictures are shown before they are decoded (early callback)
    AllOutput      \* every picture of the stream has its output flag set

FrameID == 0 .. PoolSize - 1
NoFrame == -1

ASSUME PoolAssumption ==
    /\ PoolSize \in Nat \ {0}
    /\ NoBuf \notin Buffers
    /\ bForceDisplay \in BOOLEAN
    /\ AllOutput \in BOOLEAN

VARIABLES
    pFrame,             \* vFrameData[f].tRecBuffers.pFrame
    iAccessCnt,         \* vFrameData[f].iAccessCnt, -1 for an empty slot
    bToBeDisplayed,     \* vFrameData[f].bToBeDisplayed
    bAlreadyDisplayed,  \* vFrameData[f].bAlreadyDisplayed
    avail,              \* tAvailableFrameIDFifo
    Semaphore,          \* counts the entries of avail
    isDecommited,       \* the decoder is being destroyed
    popping,            \* the decoder thread is in Pop, past the semaphore
    stage,              \* how far AL_Default_Decoder_Destroy has come
    flushed,            \* slot being handed back by Destroy, or NoFrame
    poolRef,            \* references the pool holds on an AL_TBuffer
    refs,               \* the holders of a slot
    queued,             \* slots whose picture was queued for display
    shown,              \* slots whose picture was given to the application
    user                \* buffers in the application's hands

slotVars == <<pFrame, iAccessCnt, bToBeDisplayed, bAlreadyDisplayed>>
pictVars == <<refs, queued, shown>>
poolVars == <<slotVars, avail, Semaphore, isDecommited, popping, stage, flushed,
              poolRef, pictVars, user>>

---------------------------------------------------------------------------
(* Helpers *)

\* sFrmBufPool_GetFrameIDFromDisplay: the slots bound to b (at most one).
SlotsOf(b) == {f \in FrameID : pFrame[f] = b}

\* The slots the scan of sFrmBufPool_AddAvailableBuffer accepts.
EmptySlots == {f \in FrameID : /\ pFrame[f] = NoBuf
                               /\ iAccessCnt[f] = -1
                               /\ ~bToBeDisplayed[f]}

IsLeast(f, S) == f \in S /\ \A g \in S : f <= g

\* sFrmBufPool_RemoveID leaves slot f empty, then
\* sFrmBufPoolFifo_AddAvailableBuffer binds b to slot g.
Rebind(f, g, b) ==
    /\ pFrame' = [pFrame EXCEPT ![f] = NoBuf, ![g] = b]
    /\ iAccessCnt' = [iAccessCnt EXCEPT ![f] = -1, ![g] = 0]
    /\ bToBeDisplayed' = [bToBeDisplayed EXCEPT ![f] = FALSE, ![g] = FALSE]
    /\ avail' = Append(avail, g)
    /\ Semaphore' = Semaphore + 1

\* (Mutant: the pool's reference on the buffer is not dropped.)
UnbindLeavesRef(S) ==
    /\ pFrame' = [f \in FrameID |-> IF f \in S THEN NoBuf ELSE pFrame[f]]
    /\ iAccessCnt' = [f \in FrameID |-> IF f \in S THEN -1 ELSE iAccessCnt[f]]
    /\ bToBeDisplayed' = [f \in FrameID |-> f \notin S /\ bToBeDisplayed[f]]
    /\ UNCHANGED poolRef

\* sFrmBufPool_RemoveID of the slots in S, with nothing bound after it, and
\* sRecBuffers_Release of their buffers.
Unbind(S) ==
    /\ pFrame' = [f \in FrameID |-> IF f \in S THEN NoBuf ELSE pFrame[f]]
    /\ iAccessCnt' = [f \in FrameID |-> IF f \in S THEN -1 ELSE iAccessCnt[f]]
    /\ bToBeDisplayed' = [f \in FrameID |-> f \notin S /\ bToBeDisplayed[f]]
    /\ poolRef' = [b \in Buffers |->
                     IF \E f \in S : pFrame[f] = b THEN poolRef[b] - 1 ELSE poolRef[b]]

Running == stage = "running"
Alive == stage # "destroyed"

---------------------------------------------------------------------------
(* The application *)

\* sFrmBufPool_PutDisplayBuffer of a buffer no slot is bound to.  When the
\* pool is full the reference taken by FillRecBuffer is dropped again and
\* nothing has changed.
PutNew(b) ==
    /\ Running /\ b \in user /\ SlotsOf(b) = {}
    /\ \E g \in EmptySlots : IsLeast(g, EmptySlots) /\ Rebind(g, g, b)
    /\ poolRef' = [poolRef EXCEPT ![b] = @ + 1]
    /\ user' = user \ {b}
    /\ UNCHANGED <<bAlreadyDisplayed, isDecommited, popping, stage, flushed, pictVars>>

\* (Mutants: a referenced buffer is recycled; one shown early never is.)
bPushBackReferenced(f) == bAlreadyDisplayed[f] => bToBeDisplayed[f]
bPushBackNotShown(f) == iAccessCnt[f] = 0 /\ ~bAlreadyDisplayed[f]

\* sFrmBufPool_ReleaseDisplayBuffer: the application returns a buffer that
\* is still bound to f.  bPushBack recycles it when nobody references it.
bPushBack(f) == iAccessCnt[f] = 0 /\ (bAlreadyDisplayed[f] => bToBeDisplayed[f])

PutBackRecycle(b, f) ==
    /\ Running /\ b \in user /\ f \in SlotsOf(b) /\ bPushBack(f)
    /\ bAlreadyDisplayed' = [bAlreadyDisplayed EXCEPT ![f] = FALSE]
    /\ \E g \in EmptySlots \cup {f} :
        IsLeast(g, EmptySlots \cup {f}) /\ Rebind(f, g, b)
    /\ user' = user \ {b}
    /\ UNCHANGED <<isDecommited, popping, stage, flushed, poolRef, pictVars>>

PutBackKeep(b, f) ==
    /\ Running /\ b \in user /\ f \in SlotsOf(b) /\ ~bPushBack(f)
    /\ bAlreadyDisplayed' = [bAlreadyDisplayed EXCEPT ![f] = FALSE]
    /\ bToBeDisplayed' = [bToBeDisplayed EXCEPT ![f] = @ /\ bAlreadyDisplayed[f]]
    /\ user' = user \ {b}
    /\ UNCHANGED <<pFrame, iAccessCnt, avail, Semaphore, isDecommited, popping,
                   stage, flushed, poolRef, pictVars>>

---------------------------------------------------------------------------
(* The decoder thread *)

\* (Mutant: the wait for the semaphore returns without a token.)
PopNoWait ==
    /\ Running /\ ~popping
    /\ Semaphore' = Semaphore - 1
    /\ popping' = TRUE
    /\ UNCHANGED <<slotVars, avail, isDecommited, stage, flushed, poolRef,
                   pictVars, user>>

\* sFrmBufPool_Pop, up to Rtos_GetSemaphore.
PopWait ==
    /\ Running /\ ~popping /\ Semaphore > 0
    /\ Semaphore' = Semaphore - 1
    /\ popping' = TRUE
    /\ UNCHANGED <<slotVars, avail, isDecommited, stage, flushed, poolRef,
                   pictVars, user>>

\* sFrmBufPool_Pop under the mutex: the first available frame is for h.
PopTake(h) ==
    /\ popping /\ ~isDecommited /\ avail # <<>>
    /\ LET f == Head(avail) IN
        /\ iAccessCnt' = [iAccessCnt EXCEPT ![f] = 1]
        /\ refs' = [refs EXCEPT ![f] = {h}]
        /\ queued' = queued \ {f}
        /\ shown' = shown \ {f}
    /\ avail' = Tail(avail)
    /\ popping' = FALSE
    /\ UNCHANGED <<pFrame, bToBeDisplayed, bAlreadyDisplayed, Semaphore,
                   isDecommited, stage, flushed, poolRef, user>>

\* (Mutant: the token is not given back for the next caller.)
PopKeepsToken ==
    /\ popping /\ isDecommited
    /\ popping' = FALSE
    /\ UNCHANGED <<slotVars, avail, Semaphore, isDecommited, stage, flushed,
                   poolRef, pictVars, user>>

\* sFrmBufPool_Pop of a decommited pool: the token goes back for the next
\* caller, and no frame is returned.
PopDecommited ==
    /\ popping /\ isDecommited
    /\ Semaphore' = Semaphore + 1
    /\ popping' = FALSE
    /\ UNCHANGED <<slotVars, avail, isDecommited, stage, flushed, poolRef,
                   pictVars, user>>

\* sFrmBufPool_IncrementBufID on behalf of h.
Increment(h, f) ==
    /\ refs[f] # {} /\ h \notin refs[f]
    /\ iAccessCnt' = [iAccessCnt EXCEPT ![f] = @ + 1]
    /\ refs' = [refs EXCEPT ![f] = @ \cup {h}]
    /\ UNCHANGED <<pFrame, bToBeDisplayed, bAlreadyDisplayed, avail, Semaphore,
                   isDecommited, popping, stage, flushed, poolRef, queued, shown, user>>

\* sFrmBufPool_OutputBufID: the DPB queues the picture for display, once.
OutputBufID(f) ==
    /\ refs[f] # {} /\ f \notin queued
    /\ bToBeDisplayed' = [bToBeDisplayed EXCEPT ![f] = TRUE]
    /\ queued' = queued \cup {f}
    /\ UNCHANGED <<pFrame, iAccessCnt, bAlreadyDisplayed, avail, Semaphore,
                   isDecommited, popping, stage, flushed, poolRef, refs, shown, user>>

---------------------------------------------------------------------------
(* Releasing a reference: the callback thread and the decoder thread *)

\* What the clients promise of the last reference of a picture.  A queued
\* picture was shown: the display fifo keeps a reference until
\* SignalCallbackDisplayIsDone.  When the pictures are shown early, one that
\* was shown was queued too, unless the stream has pictures that are not for
\* output: the DPB removes a picture only when bPicOutputFlag is cleared.
LastRefIsSafe(f) ==
    IF bForceDisplay THEN AllOutput /\ f \in shown => f \in queued
                     ELSE f \in queued => f \in shown

\* sFrmBufPool_DecrementBufID when references remain, or when the picture
\* was shown early and the application still has it.
DecrementKeep(h, f) ==
    /\ h \in refs[f]
    /\ refs[f] = {h} => LastRefIsSafe(f)
    /\ iAccessCnt[f] # 1 \/ bAlreadyDisplayed[f]
    /\ iAccessCnt' = [iAccessCnt EXCEPT ![f] = @ - 1]
    /\ refs' = [refs EXCEPT ![f] = @ \ {h}]
    /\ UNCHANGED <<pFrame, bToBeDisplayed, bAlreadyDisplayed, avail, Semaphore,
                   isDecommited, popping, stage, flushed, poolRef, queued, shown, user>>

\* (Mutants: recycled one reference too early; recycled although the picture
\* was shown early and the application still has it.)
RecycleTooEarly(h, f) ==
    /\ h \in refs[f] /\ iAccessCnt[f] <= 2 /\ ~bAlreadyDisplayed[f]
    /\ ~bToBeDisplayed[f] \/ bForceDisplay
    /\ \E g \in EmptySlots \cup {f} :
        IsLeast(g, EmptySlots \cup {f}) /\ Rebind(f, g, pFrame[f])
    /\ refs' = [refs EXCEPT ![f] = @ \ {h}]
    /\ UNCHANGED <<bAlreadyDisplayed, isDecommited, popping, stage, flushed,
                   poolRef, queued, shown, user>>

RecycleShown(h, f) ==
    /\ h \in refs[f] /\ LastRefIsSafe(f) /\ iAccessCnt[f] = 1
    /\ ~bToBeDisplayed[f] \/ bForceDisplay
    /\ \E g \in EmptySlots \cup {f} :
        IsLeast(g, EmptySlots \cup {f}) /\ Rebind(f, g, pFrame[f])
    /\ refs' = [refs EXCEPT ![f] = @ \ {h}]
    /\ UNCHANGED <<bAlreadyDisplayed, isDecommited, popping, stage, flushed,
                   poolRef, queued, shown, user>>

\* ... when the last reference goes and the buffer is recycled in the first
\* empty slot, its own included.
DecrementRecycle(h, f) ==
    /\ h \in refs[f] /\ LastRefIsSafe(f)
    /\ iAccessCnt[f] = 1 /\ ~bAlreadyDisplayed[f]
    /\ ~bToBeDisplayed[f] \/ bForceDisplay
    /\ \E g \in EmptySlots \cup {f} :
        IsLeast(g, EmptySlots \cup {f}) /\ Rebind(f, g, pFrame[f])
    /\ refs' = [refs EXCEPT ![f] = @ \ {h}]
    /\ UNCHANGED <<bAlreadyDisplayed, isDecommited, popping, stage, flushed,
                   poolRef, queued, shown, user>>

\* ... when the last reference goes while the application has the buffer:
\* the slot forgets it, the application will put it again as a new one.
DecrementRelease(h, f) ==
    /\ h \in refs[f] /\ LastRefIsSafe(f)
    /\ iAccessCnt[f] = 1 /\ ~bAlreadyDisplayed[f]
    /\ bToBeDisplayed[f] /\ ~bForceDisplay
    /\ Unbind({f})
    /\ refs' = [refs EXCEPT ![f] = @ \ {h}]
    /\ UNCHANGED <<bAlreadyDisplayed, avail, Semaphore, isDecommited, popping,
                   stage, flushed, queued, shown, user>>

DecrementBufID(h, f) ==
    DecrementKeep(h, f) \/ DecrementRecycle(h, f) \/ DecrementRelease(h, f)

\* displayCB of AL_sDecoder_TryDisplayOneFrame: the application is given the
\* buffer of the picture at the head of the display fifo.
Show(f) ==
    /\ ~bForceDisplay
    /\ refs[f] # {} /\ f \in queued /\ f \notin shown
    /\ shown' = shown \cup {f}
    /\ user' = user \cup {pFrame[f]}
    /\ UNCHANGED <<slotVars, avail, Semaphore, isDecommited, popping, stage,
                   flushed, poolRef, refs, queued>>

\* AL_PictMngr_ForceDisplayBuffer and its displayCB: the buffer is given
\* while the hardware is still writing it.
ForceDisplay(f) ==
    /\ bForceDisplay
    /\ refs[f] # {} /\ f \notin shown
    /\ bAlreadyDisplayed' = [bAlreadyDisplayed EXCEPT ![f] = TRUE]
    /\ shown' = shown \cup {f}
    /\ user' = user \cup {pFrame[f]}
    /\ UNCHANGED <<pFrame, iAccessCnt, bToBeDisplayed, avail, Semaphore,
                   isDecommited, popping, stage, flushed, poolRef, refs, queued>>

---------------------------------------------------------------------------
(* Destroying the decoder *)

\* (Mutant: nobody is woken up.)
DecommitSilently ==
    /\ ~isDecommited
    /\ isDecommited' = TRUE
    /\ UNCHANGED <<slotVars, avail, Semaphore, popping, stage, flushed, poolRef,
                   pictVars, user>>

\* sFrmBufPool_Decommit
Decommit ==
    /\ ~isDecommited
    /\ isDecommited' = TRUE
    /\ Semaphore' = Semaphore + 1
    /\ UNCHANGED <<slotVars, avail, popping, stage, flushed, poolRef, pictVars, user>>

\* (Mutant: the last references are not waited for.)
ThreadsNotJoined ==
    /\ Running /\ isDecommited /\ ~popping
    /\ stage' = "flushing"
    /\ UNCHANGED <<slotVars, avail, Semaphore, isDecommited, popping, flushed,
                   poolRef, pictVars, user>>

\* AL_Feeder_Destroy and DestroyChannel: the decoder and callback threads are
\* gone, the flush of the DPB has dropped its references, and the
\* application calls the decoder no more.
ThreadsJoined ==
    /\ Running /\ isDecommited /\ ~popping /\ \A f \in FrameID : refs[f] = {}
    /\ stage' = "flushing"
    /\ UNCHANGED <<slotVars, avail, Semaphore, isDecommited, popping, flushed,
                   poolRef, pictVars, user>>

\* sFrmBufPool_FlushOneDisplayBuffer: dequeues without the semaphore.
FlushOne ==
    /\ stage = "flushing" /\ flushed = NoFrame /\ avail # <<>>
    /\ flushed' = Head(avail)
    /\ bToBeDisplayed' = [bToBeDisplayed EXCEPT ![Head(avail)] =
                            @ \/ ~bAlreadyDisplayed[Head(avail)]]
    /\ avail' = Tail(avail)
    /\ UNCHANGED <<pFrame, iAccessCnt, bAlreadyDisplayed, Semaphore,
                   isDecommited, popping, stage, poolRef, pictVars, user>>

\* sFrmBufPool_SignalCallbackReleaseIsDone, after the release callback.
ReleaseDone ==
    /\ flushed # NoFrame
    /\ Unbind({flushed})
    /\ user' = user \cup {pFrame[flushed]}
    /\ flushed' = NoFrame
    /\ UNCHANGED <<bAlreadyDisplayed, avail, Semaphore, isDecommited, popping,
                   stage, pictVars>>

\* sFrmBufPool_Deinit: what nobody references is released, and that must be
\* everything.
Deinit ==
    /\ stage = "flushing" /\ flushed = NoFrame /\ avail = <<>>
    /\ Unbind({f \in FrameID : iAccessCnt[f] = 0})
    /\ stage' = "destroyed"
    /\ UNCHANGED <<bAlreadyDisplayed, avail, Semaphore, isDecommited, popping,
                   flushed, pictVars, user>>

\* The decoder is gone.
Destroyed == stage = "destroyed" /\ UNCHANGED poolVars

---------------------------------------------------------------------------
PoolInit ==
    /\ pFrame = [f \in FrameID |-> NoBuf]
    /\ iAccessCnt = [f \in FrameID |-> -1]
    /\ bToBeDisplayed = [f \in FrameID |-> FALSE]
    /\ bAlreadyDisplayed = [f \in FrameID |-> FALSE]
    /\ avail = <<>>
    /\ Semaphore = 0
    /\ isDecommited = FALSE
    /\ popping = FALSE
    /\ stage = "running"
    /\ flushed = NoFrame
    /\ poolRef = [b \in Buffers |-> 0]
    /\ refs = [f \in FrameID |-> {}]
    /\ queued = {}
    /\ shown = {}
    /\ user = Buffers

Application ==
    \/ \E b \in Buffers : PutNew(b)
    \/ \E b \in Buffers, f \in FrameID : PutBackRecycle(b, f) \/ PutBackKeep(b, f)

Decoder ==
    \/ PopWait
    \/ \E h \in Holder : PopTake(h)
    \/ PopDecommited
    \/ \E h \in Holder, f \in FrameID : Increment(h, f) \/ DecrementBufID(h, f)
    \/ \E f \in FrameID : OutputBufID(f) \/ Show(f) \/ ForceDisplay(f)

Destroy == Decommit \/ ThreadsJoined \/ FlushOne \/ ReleaseDone \/ Deinit

PoolNext == Application \/ Decoder \/ Destroy \/ Destroyed

PoolSpec == PoolInit /\ [][PoolNext]_poolVars

---------------------------------------------------------------------------
(* Properties *)

Bound(f) == pFrame[f] # NoBuf
Available == Range(avail)

\* Each variable of the pool stays in the range its C type and its uses give.
TypeOK ==
    /\ pFrame \in [FrameID -> Buffers \cup {NoBuf}]
    /\ iAccessCnt \in [FrameID -> Int]
    /\ bToBeDisplayed \in [FrameID -> BOOLEAN]
    /\ bAlreadyDisplayed \in [FrameID -> BOOLEAN]
    /\ avail \in Seq(FrameID)
    /\ Semaphore \in Nat
    /\ isDecommited \in BOOLEAN
    /\ popping \in BOOLEAN
    /\ stage \in {"running", "flushing", "destroyed"}
    /\ flushed \in FrameID \cup {NoFrame}
    /\ poolRef \in [Buffers -> Int]
    /\ refs \in [FrameID -> SUBSET Holder]
    /\ queued \in SUBSET FrameID
    /\ shown \in SUBSET FrameID
    /\ user \in SUBSET Buffers

\* iAccessCnt of a bound slot is the number of clients that hold it, however
\* increments, decrements, early displays and recyclings interleave; an empty
\* slot has -1 and no client.  (The asserts on iAccessCnt in RemoveID,
\* DecrementBufID, IncrementBufID and EnsureRecBufferAreRemoved rest on it.)
CountMatchesHolders ==
    \A f \in FrameID :
        IF Bound(f) THEN IsFiniteSet(refs[f]) /\ iAccessCnt[f] = Cardinality(refs[f])
                    ELSE iAccessCnt[f] = -1 /\ refs[f] = {}

\* A frame in the available fifo is there once, is bound, is held by nobody,
\* is not marked for display, and its buffer is not in the application's
\* hands: Pop never lets the decoder overwrite a picture somebody reads.
\* (The asserts of Pop, GetAvailableBuffer and CheckIsNotAvailable.)
AvailableIsFree ==
    /\ IsInjective(avail)
    /\ \A f \in Available :
        /\ Bound(f) /\ iAccessCnt[f] = 0
        /\ ~bToBeDisplayed[f] /\ ~bAlreadyDisplayed[f]
        /\ pFrame[f] \notin user

\* The semaphore counts the available frames, plus the token Decommit adds,
\* minus the one a thread inside Pop has taken: a decoder thread never sleeps
\* in Pop while a frame is available or the pool is decommited, and never
\* gets past the semaphore to an empty fifo.
SemaphoreCounts ==
    Running => Semaphore + (IF popping THEN 1 ELSE 0)
                 = Len(avail) + (IF isDecommited THEN 1 ELSE 0)

\* A buffer is bound to at most one slot, and the pool holds one reference on
\* it exactly while it is bound: FillRecBuffer's AL_Buffer_Ref and
\* sRecBuffers_Release are balanced on every path.
BoundOnce ==
    /\ \A f, g \in FrameID : Bound(f) /\ pFrame[f] = pFrame[g] => f = g
    /\ \A b \in Buffers : poolRef[b] = IF SlotsOf(b) = {} THEN 0 ELSE 1

\* Every buffer can come back into use: the application has it, or it is
\* available, or some client still holds its slot and will release it.  No
\* interleaving of early display, last release and PutDisplayPicture strands
\* a buffer in a slot nobody will ever visit.
NoBufferLost ==
    Alive =>
        \A b \in Buffers :
            b \in user \/ \E f \in SlotsOf(b) :
                              refs[f] # {} \/ f \in Available \/ f = flushed

\* When Deinit has run, no slot is bound and no buffer is referenced any
\* more: Deinit's assert that every iAccessCnt is -1 holds.
DestroyReleasesAll ==
    stage = "destroyed" =>
        /\ \A f \in FrameID : ~Bound(f) /\ iAccessCnt[f] = -1
        /\ \A b \in Buffers : poolRef[b] = 0

\* While a slot stays referenced it stays bound to the same buffer: the
\* buffer behind a tFrameID a client keeps never changes under it.
PinnedWhileReferenced ==
    [][\A f \in FrameID : refs[f] # {} /\ refs'[f] \cap refs[f] # {} => pFrame'[f] = pFrame[f]]_poolVars

\* lib_decode.h: "return true if buffer has been successfully added" to the
\* internal pool; sFrmBufPool_PutDisplayBuffer returns true for every bound
\* buffer.  After it, the buffer is available or a client holds it.
PutAddsBuffer ==
    [][\A b \in Buffers : b \in user \ user' =>
           \E f \in FrameID : pFrame'[f] = b /\ (iAccessCnt'[f] > 0 \/ f \in Available')]_poolVars

---------------------------------------------------------------------------
(* The inductive invariant the proofs rest on *)

\* What the flags of a slot and the ghosts say of each other.
FlagsAgree ==
    \A f \in FrameID :
        /\ ~Bound(f) => ~bToBeDisplayed[f] /\ (Alive => ~bAlreadyDisplayed[f])
        /\ bAlreadyDisplayed[f] => bForceDisplay
        /\ refs[f] # {} =>
             /\ bToBeDisplayed[f] => f \in queued
             /\ bAlreadyDisplayed[f] => f \in shown
             /\ f \in queued /\ (bForceDisplay \/ f \notin shown) => bToBeDisplayed[f]
             /\ ~bForceDisplay /\ f \in shown => f \in queued

\* When the application has the buffer of a slot, the slot knows it; and a
\* picture that was shown and not yet returned is in its hands.
UserAgrees ==
    \A f \in FrameID :
        /\ Bound(f) /\ pFrame[f] \in user =>
             /\ IF bForceDisplay THEN bAlreadyDisplayed[f] ELSE bToBeDisplayed[f]
             /\ refs[f] # {} => f \in shown
        /\ Alive /\ bAlreadyDisplayed[f] => pFrame[f] \in user
        /\ ~bForceDisplay /\ refs[f] # {} /\ bToBeDisplayed[f] /\ f \in shown
             => pFrame[f] \in user

\* A bound slot nobody holds is available, being flushed, or was shown early
\* and will be recycled by PutDisplayBuffer (bPushBack).
IdleSlots ==
    \A f \in FrameID :
        Bound(f) /\ refs[f] = {} /\ f # flushed /\ f \notin Available =>
            bAlreadyDisplayed[f] /\ bToBeDisplayed[f]

\* How far Destroy has come bounds what the rest may be.
StagesAgree ==
    /\ ~Running => /\ isDecommited /\ ~popping
                   /\ \A f \in FrameID : refs[f] = {}
    /\ flushed # NoFrame =>
         /\ stage = "flushing" /\ Bound(flushed) /\ flushed \notin Available
         /\ refs[flushed] = {} /\ ~bAlreadyDisplayed[flushed]
         /\ pFrame[flushed] \notin user
    /\ stage = "destroyed" =>
         /\ flushed = NoFrame /\ avail = <<>>
         /\ \A f \in FrameID : ~Bound(f)

PoolInv ==
    /\ TypeOK
    /\ CountMatchesHolders
    /\ AvailableIsFree
    /\ SemaphoreCounts
    /\ BoundOnce
    /\ FlagsAgree
    /\ UserAgrees
    /\ (bForceDisplay => AllOutput) => IdleSlots
    /\ StagesAgree
    /\ (bForceDisplay => AllOutput) => NoBufferLost
    /\ DestroyReleasesAll
=============================================================================
