------------------------- MODULE FrmBufPoolProofs -------------------------
(***************************************************************************)
(* Proofs about FrmBufPool, for every pool size, every set of buffers and  *)
(* clients, and both display modes.                                        *)
(***************************************************************************)
EXTENDS FrmBufPool, QueueLemmas, FiniteSetTheorems

---------------------------------------------------------------------------
(* Lemmas about the data the pool is built from *)

\* A slot number is never NoFrame.
LEMMA FrameIDType == FrameID \subseteq Nat /\ NoFrame \notin FrameID
  BY PoolAssumption DEF FrameID, NoFrame

\* The number of clients holding a slot when one more comes or one goes.
LEMMA HoldersCount ==
  ASSUME NEW S, IsFiniteSet(S)
  PROVE  /\ Cardinality(S) \in Nat
         /\ Cardinality(S) = 0 <=> S = {}
         /\ \A h : /\ IsFiniteSet(S \cup {h}) /\ IsFiniteSet(S \ {h})
                   /\ h \notin S => Cardinality(S \cup {h}) = Cardinality(S) + 1
                   /\ h \in S => Cardinality(S \ {h}) = Cardinality(S) - 1
  BY FS_CardinalityType, FS_EmptySet, FS_AddElement, FS_RemoveElement

---------------------------------------------------------------------------
(* Type correctness *)

\* Queueing keeps the types: what sFrmBufPoolFifo_AddAvailableBuffer stores.
LEMMA RebindType ==
  ASSUME TypeOK, NEW f \in FrameID, NEW g \in FrameID, NEW b \in Buffers, Rebind(f, g, b)
  PROVE  /\ pFrame' \in [FrameID -> Buffers \cup {NoBuf}]
         /\ iAccessCnt' \in [FrameID -> Int]
         /\ bToBeDisplayed' \in [FrameID -> BOOLEAN]
         /\ avail' \in Seq(FrameID)
         /\ Semaphore' \in Nat
  <1>1. pFrame' \in [FrameID -> Buffers \cup {NoBuf}]
    BY DEF TypeOK, Rebind
  <1>2. iAccessCnt' \in [FrameID -> Int]
    BY DEF TypeOK, Rebind
  <1>3. bToBeDisplayed' \in [FrameID -> BOOLEAN]
    BY DEF TypeOK, Rebind
  <1>4. avail' \in Seq(FrameID)
    BY AppendRange DEF TypeOK, Rebind
  <1>5. Semaphore' \in Nat
    BY DEF TypeOK, Rebind
  <1> QED BY <1>1, <1>2, <1>3, <1>4, <1>5

\* Emptying slots keeps the types: what sFrmBufPool_RemoveID stores.
LEMMA UnbindType ==
  ASSUME TypeOK, NEW S \in SUBSET FrameID, Unbind(S)
  PROVE  /\ pFrame' \in [FrameID -> Buffers \cup {NoBuf}]
         /\ iAccessCnt' \in [FrameID -> Int]
         /\ bToBeDisplayed' \in [FrameID -> BOOLEAN]
         /\ poolRef' \in [Buffers -> Int]
  BY DEF TypeOK, Unbind

\* No function of the pool stores a value outside its type.
LEMMA TypeStep ==
  ASSUME TypeOK, CountMatchesHolders, StagesAgree, [PoolNext]_poolVars
  PROVE  TypeOK'
  <1>1. ASSUME NEW b \in Buffers, PutNew(b) PROVE TypeOK'
    BY <1>1, RebindType DEF TypeOK, PutNew, EmptySlots, pictVars
  <1>2. ASSUME NEW b \in Buffers, NEW f \in FrameID, PutBackRecycle(b, f) PROVE TypeOK'
    BY <1>2, RebindType DEF TypeOK, PutBackRecycle, EmptySlots, pictVars
  <1>3. ASSUME NEW b \in Buffers, NEW f \in FrameID, PutBackKeep(b, f) PROVE TypeOK'
    BY <1>3 DEF TypeOK, PutBackKeep, pictVars
  <1>4. CASE PopWait
    BY <1>4 DEF TypeOK, PopWait, slotVars, pictVars
  <1>5. ASSUME NEW h \in Holder, PopTake(h) PROVE TypeOK'
    <2>1. isDecommited' \in BOOLEAN /\ popping' \in BOOLEAN
      BY <1>5, Zenon DEF TypeOK, PopTake
    <2>2. avail # <<>> /\ avail' = Tail(avail) /\ Head(avail) \in FrameID
      BY <1>5, TailRange DEF TypeOK, PopTake
    <2>3. /\ iAccessCnt' \in [FrameID -> Int] /\ refs' \in [FrameID -> SUBSET Holder]
          /\ queued' \in SUBSET FrameID /\ shown' \in SUBSET FrameID
          /\ avail' \in Seq(FrameID)
      BY <1>5, <2>2, TailRange DEF TypeOK, PopTake
    <2>4. UNCHANGED <<pFrame, bToBeDisplayed, bAlreadyDisplayed, Semaphore, stage,
                      flushed, poolRef, user>>
      BY <1>5 DEF PopTake
    <2> QED BY <2>1, <2>3, <2>4 DEF TypeOK
  <1>6. CASE PopDecommited
    <2>1. isDecommited' \in BOOLEAN /\ popping' \in BOOLEAN
      BY <1>6, Zenon DEF TypeOK, PopDecommited
    <2>2. /\ Semaphore' = Semaphore + 1
          /\ UNCHANGED <<slotVars, avail, stage, flushed, poolRef, pictVars, user>>
      BY <1>6 DEF PopDecommited
    <2> QED BY <2>1, <2>2 DEF TypeOK, slotVars, pictVars
  <1>7. ASSUME NEW h \in Holder, NEW f \in FrameID, Increment(h, f) PROVE TypeOK'
    BY <1>7 DEF TypeOK, Increment, slotVars, pictVars
  <1>8. ASSUME NEW h \in Holder, NEW f \in FrameID, DecrementKeep(h, f) PROVE TypeOK'
    BY <1>8 DEF TypeOK, DecrementKeep, slotVars, pictVars
  <1>9. ASSUME NEW h \in Holder, NEW f \in FrameID, DecrementRecycle(h, f) PROVE TypeOK'
    BY <1>9, RebindType DEF TypeOK, CountMatchesHolders, Bound, DecrementRecycle, EmptySlots
  <1>10. ASSUME NEW h \in Holder, NEW f \in FrameID, DecrementRelease(h, f) PROVE TypeOK'
    BY <1>10, UnbindType DEF TypeOK, DecrementRelease
  <1>11. ASSUME NEW f \in FrameID, OutputBufID(f) PROVE TypeOK'
    BY <1>11 DEF TypeOK, OutputBufID, slotVars, pictVars
  <1>12. ASSUME NEW f \in FrameID, Show(f) PROVE TypeOK'
    BY <1>12 DEF TypeOK, CountMatchesHolders, Bound, Show, slotVars, pictVars
  <1>13. ASSUME NEW f \in FrameID, ForceDisplay(f) PROVE TypeOK'
    BY <1>13 DEF TypeOK, CountMatchesHolders, Bound, ForceDisplay, slotVars, pictVars
  <1>14. CASE Decommit
    BY <1>14 DEF TypeOK, Decommit, slotVars, pictVars
  <1>15. CASE ThreadsJoined
    BY <1>15 DEF TypeOK, ThreadsJoined, slotVars, pictVars
  <1>16. CASE FlushOne
    BY <1>16, TailRange DEF TypeOK, FlushOne, pictVars
  <1>17. CASE ReleaseDone
    BY <1>17, UnbindType DEF TypeOK, StagesAgree, Bound, ReleaseDone, pictVars
  <1>18. CASE Deinit
    BY <1>18, UnbindType DEF TypeOK, Deinit, pictVars
  <1>19. CASE Destroyed
    BY <1>19 DEF TypeOK, Destroyed, slotVars, pictVars, poolVars
  <1>20. CASE UNCHANGED poolVars
    BY <1>20 DEF TypeOK, poolVars, slotVars, pictVars
  <1> QED
    BY <1>1, <1>2, <1>3, <1>4, <1>5, <1>6, <1>7, <1>8, <1>9, <1>10, <1>11, <1>12, <1>13, <1>14, <1>15, <1>16, <1>17, <1>18, <1>19, <1>20
    DEF PoolNext, Application, Decoder, Destroy, DecrementBufID

---------------------------------------------------------------------------
(* The inductive invariant *)

\* What Rebind does to each slot and to the fifo.
LEMMA RebindEffect ==
  ASSUME TypeOK, NEW f \in FrameID, NEW g \in FrameID, NEW b \in Buffers, Rebind(f, g, b)
  PROVE  /\ \A x \in FrameID :
              /\ pFrame'[x] = IF x = g THEN b ELSE IF x = f THEN NoBuf ELSE pFrame[x]
              /\ iAccessCnt'[x] = IF x = g THEN 0 ELSE IF x = f THEN -1 ELSE iAccessCnt[x]
         /\ ~bToBeDisplayed'[f] /\ ~bToBeDisplayed'[g]
         /\ \A x \in FrameID \ {f, g} : bToBeDisplayed'[x] = bToBeDisplayed[x]
         /\ Available' = Available \cup {g}
         /\ IsInjective(avail) /\ g \notin Available => IsInjective(avail')
         /\ Len(avail') = Len(avail) + 1 /\ Len(avail) \in Nat
         /\ Semaphore' = Semaphore + 1
  <1>1. /\ \A x \in FrameID :
              /\ pFrame'[x] = IF x = g THEN b ELSE IF x = f THEN NoBuf ELSE pFrame[x]
              /\ iAccessCnt'[x] = IF x = g THEN 0 ELSE IF x = f THEN -1 ELSE iAccessCnt[x]
    BY DEF TypeOK, Rebind
  <1>2. /\ ~bToBeDisplayed'[f] /\ ~bToBeDisplayed'[g]
        /\ \A x \in FrameID \ {f, g} : bToBeDisplayed'[x] = bToBeDisplayed[x]
    BY DEF TypeOK, Rebind
  <1>3. /\ Available' = Available \cup {g}
        /\ IsInjective(avail) /\ g \notin Available => IsInjective(avail')
        /\ Len(avail') = Len(avail) + 1
    BY AppendRange DEF TypeOK, Rebind, Available
  <1>4. Len(avail) \in Nat /\ Semaphore' = Semaphore + 1
    BY LenProperties DEF TypeOK, Rebind
  <1> QED BY <1>1, <1>2, <1>3, <1>4

\* A buffer nobody keeps goes back to the fifo: the common part of PutNew,
\* PutBackRecycle and DecrementRecycle.
LEMMA RecyclePreserves ==
  ASSUME PoolInv, TypeOK', Running,
         NEW f \in FrameID, NEW g \in FrameID, NEW b \in Buffers, Rebind(f, g, b),
         g \in EmptySlots \cup {f},
         \/ /\ f \in EmptySlots /\ g = f /\ SlotsOf(b) = {}
            /\ poolRef' = [poolRef EXCEPT ![b] = @ + 1]
         \/ pFrame[f] = b /\ f \notin Available /\ poolRef' = poolRef,
         refs'[f] = {}, \A x \in FrameID \ {f} : refs'[x] = refs[x],
         ~bAlreadyDisplayed'[f],
         \A x \in FrameID \ {f} : bAlreadyDisplayed'[x] = bAlreadyDisplayed[x],
         user' = user \ {b},
         UNCHANGED <<isDecommited, popping, stage, flushed, queued, shown>>
  PROVE  PoolInv'
  <1> USE DEF Bound
  <1> DEFINE Unchanged(x) == /\ pFrame'[x] = pFrame[x] /\ iAccessCnt'[x] = iAccessCnt[x]
                             /\ bToBeDisplayed'[x] = bToBeDisplayed[x]
                             /\ bAlreadyDisplayed'[x] = bAlreadyDisplayed[x]
                             /\ refs'[x] = refs[x]
  <1>1. /\ pFrame'[g] = b /\ iAccessCnt'[g] = 0 /\ ~bToBeDisplayed'[g]
        /\ \A x \in FrameID \ {f, g} : Unchanged(x)
        /\ f # g => pFrame'[f] = NoBuf /\ iAccessCnt'[f] = -1 /\ ~bToBeDisplayed'[f]
    <2>1. TypeOK
      BY DEF PoolInv
    <2> HIDE DEF Unchanged
    <2>2. /\ pFrame'[g] = b /\ iAccessCnt'[g] = 0 /\ ~bToBeDisplayed'[g]
          /\ f # g => pFrame'[f] = NoBuf /\ iAccessCnt'[f] = -1 /\ ~bToBeDisplayed'[f]
      BY <2>1, RebindEffect
    <2>3. ASSUME NEW x \in FrameID \ {f, g} PROVE Unchanged(x)
      BY <2>1, <2>3, RebindEffect DEF Unchanged
    <2> QED BY <2>2, <2>3
  <1>2. /\ Available' = Available \cup {g} /\ b # NoBuf
        /\ IsInjective(avail) /\ g \notin Available => IsInjective(avail')
        /\ Len(avail') = Len(avail) + 1 /\ Len(avail) \in Nat /\ Semaphore' = Semaphore + 1
    BY RebindEffect, PoolAssumption DEF PoolInv
  <1>3. g # f => pFrame[g] = NoBuf /\ refs[g] = {} /\ ~bAlreadyDisplayed[g]
    BY DEF PoolInv, EmptySlots, FlagsAgree, CountMatchesHolders, Running, Alive
  <1>4. g \notin Available /\ flushed = NoFrame
    BY DEF PoolInv, EmptySlots, AvailableIsFree, Running, StagesAgree
  <1>5. refs'[g] = {} /\ ~bAlreadyDisplayed'[g] /\ pFrame'[g] \notin user'
    BY <1>1, <1>3
  <1>6. CountMatchesHolders'
    <2>1. IsFiniteSet(refs'[g]) /\ Cardinality(refs'[g]) = 0
      BY <1>5, FS_EmptySet
    <2> QED BY <1>1, <1>2, <1>5, <2>1 DEF PoolInv, CountMatchesHolders
  <1>7. AvailableIsFree'
    <2>1. IsInjective(avail')
      BY <1>2, <1>4 DEF PoolInv, AvailableIsFree
    <2>2. ASSUME NEW x \in Available, x # g PROVE x # f /\ x \in FrameID /\ Unchanged(x)
      <3>1. x \in FrameID
        BY DEF PoolInv, TypeOK, Available, Range
      <3>2. x # f
        BY <2>2 DEF PoolInv, EmptySlots, AvailableIsFree
      <3> QED BY <1>1, <2>2, <3>1, <3>2
    <2> QED BY <1>1, <1>2, <1>5, <2>1, <2>2 DEF PoolInv, AvailableIsFree
  <1>8. SemaphoreCounts'
    BY <1>2 DEF PoolInv, TypeOK, SemaphoreCounts, Running
  <1>9. BoundOnce'
    <2>1. ASSUME NEW x \in FrameID, x # f, x # g PROVE pFrame[x] # b
      BY <2>1, <1>2 DEF PoolInv, BoundOnce, SlotsOf
    <2>2. \A x, y \in FrameID : Bound(x)' /\ pFrame'[x] = pFrame'[y] => x = y
      BY <1>1, <1>2, <2>1 DEF PoolInv, BoundOnce
    <2>3. ASSUME NEW c \in Buffers, c # b PROVE (SlotsOf(c) = {} <=> SlotsOf(c)' = {}) /\ poolRef'[c] = poolRef[c]
      <3>1. pFrame[f] # c
        BY <2>3, PoolAssumption DEF EmptySlots
      <3>2. \A x \in FrameID : pFrame'[x] = c <=> pFrame[x] = c
        BY <1>1, <1>3, <2>3, <3>1, PoolAssumption
      <3> QED BY <2>3, <3>2 DEF SlotsOf, PoolInv, TypeOK
    <2>4. SlotsOf(b)' # {} /\ poolRef'[b] = 1
      <3>1. SlotsOf(b)' # {}
        BY <1>1 DEF SlotsOf
      <3>2. CASE SlotsOf(b) = {} /\ poolRef' = [poolRef EXCEPT ![b] = @ + 1]
        <4>1. poolRef[b] = 0
          BY <3>2 DEF PoolInv, BoundOnce
        <4>2. poolRef'[b] = poolRef[b] + 1
          BY <3>2 DEF PoolInv, TypeOK
        <4> QED BY <3>1, <4>1, <4>2
      <3>3. CASE pFrame[f] = b /\ poolRef' = poolRef
        <4>1. SlotsOf(b) # {}
          BY <3>3 DEF SlotsOf
        <4> QED BY <3>1, <3>3, <4>1 DEF PoolInv, BoundOnce
      <3> QED BY <3>1, <3>2, <3>3
    <2> QED BY <2>2, <2>3, <2>4 DEF PoolInv, BoundOnce
  <1>10. FlagsAgree'
    BY <1>1, <1>2, <1>3, <1>5 DEF PoolInv, FlagsAgree, Alive
  <1>11. UserAgrees'
    BY <1>1, <1>2, <1>3, <1>5 DEF PoolInv, UserAgrees, BoundOnce, SlotsOf, Alive
  <1>12. (bForceDisplay => AllOutput) => IdleSlots'
    BY <1>1, <1>2, <1>5 DEF PoolInv, IdleSlots
  <1>13. StagesAgree'
    BY <1>4 DEF PoolInv, StagesAgree, Running
  <1>14. (bForceDisplay => AllOutput) => NoBufferLost'
    <2> SUFFICES ASSUME bForceDisplay => AllOutput, NEW c \in Buffers, c \notin user'
                 PROVE  \E x \in SlotsOf(c)' :
                            refs'[x] # {} \/ x \in Available' \/ x = flushed'
      BY DEF NoBufferLost
    <2>1. CASE c = b
      BY <1>1, <1>2, <2>1 DEF SlotsOf
    <2>2. CASE c # b
      <3>1. PICK x \in SlotsOf(c) : refs[x] # {} \/ x \in Available \/ x = flushed
        BY <2>2 DEF PoolInv, NoBufferLost, Alive, Running
      <3>2. x \in FrameID /\ x # f /\ x # g
        BY <1>3, <2>2, <3>1, PoolAssumption DEF SlotsOf, EmptySlots
      <3> QED BY <1>1, <1>2, <3>1, <3>2 DEF SlotsOf
    <2> QED BY <2>1, <2>2
  <1>15. DestroyReleasesAll'
    BY DEF Running, DestroyReleasesAll
  <1> QED BY <1>6, <1>7, <1>8, <1>9, <1>10, <1>11, <1>12, <1>13, <1>14, <1>15 DEF PoolInv

\* A slot is emptied while the application has its buffer, or is about to:
\* the common part of DecrementRelease and ReleaseDone.
LEMMA ReleasePreserves ==
  ASSUME PoolInv, TypeOK', Alive,
         NEW f \in FrameID, Bound(f), Unbind({f}), f \notin Available,
         refs'[f] = {}, \A x \in FrameID \ {f} : refs'[x] = refs[x],
         ~bAlreadyDisplayed[f], flushed \in {f, NoFrame}, flushed' = NoFrame,
         user' = user \cup {pFrame[f]},
         UNCHANGED <<bAlreadyDisplayed, avail, Semaphore, isDecommited, popping,
                     stage, queued, shown>>
  PROVE  PoolInv'
  <1> USE DEF Bound
  <1>1. /\ pFrame'[f] = NoBuf /\ iAccessCnt'[f] = -1 /\ ~bToBeDisplayed'[f]
        /\ \A x \in FrameID \ {f} : /\ pFrame'[x] = pFrame[x]
                                    /\ iAccessCnt'[x] = iAccessCnt[x]
    BY DEF PoolInv, TypeOK, Unbind
  <1>2. \A x \in FrameID \ {f} : bToBeDisplayed'[x] = bToBeDisplayed[x]
    BY DEF PoolInv, TypeOK, Unbind
  <1>3. \A x \in FrameID \ {f} : pFrame[x] # pFrame[f]
    BY DEF PoolInv, BoundOnce
  <1>4. Available' = Available /\ Available \subseteq FrameID \ {f}
    BY DEF Available, Range, PoolInv, TypeOK
  <1>5. CountMatchesHolders'
    BY <1>1 DEF PoolInv, CountMatchesHolders
  <1>6. AvailableIsFree'
    BY <1>1, <1>2, <1>3, <1>4 DEF PoolInv, AvailableIsFree
  <1>7. SemaphoreCounts'
    BY DEF PoolInv, SemaphoreCounts, Running
  <1>8. BoundOnce'
    <2>1. \A x, y \in FrameID : Bound(x)' /\ pFrame'[x] = pFrame'[y] => x = y
      BY <1>1 DEF PoolInv, BoundOnce
    <2>2. ASSUME NEW c \in Buffers, c # pFrame[f]
          PROVE  SlotsOf(c)' = SlotsOf(c) /\ poolRef'[c] = poolRef[c]
      BY <1>1, <2>2, PoolAssumption DEF SlotsOf, Unbind
    <2>3. pFrame[f] \in Buffers
      BY DEF PoolInv, TypeOK
    <2>4. SlotsOf(pFrame[f]) # {}
      BY DEF SlotsOf
    <2>5. poolRef'[pFrame[f]] = poolRef[pFrame[f]] - 1 /\ poolRef[pFrame[f]] = 1
      BY <2>3, <2>4 DEF PoolInv, BoundOnce, Unbind
    <2>6. \A x \in FrameID : pFrame'[x] # pFrame[f]
      BY <1>1, <1>3
    <2>7. ASSUME NEW c \in Buffers, c = pFrame[f] PROVE SlotsOf(c)' = {} /\ poolRef'[c] = 0
      BY <2>5, <2>6, <2>7 DEF SlotsOf
    <2> QED BY <2>1, <2>2, <2>7 DEF PoolInv, BoundOnce
  <1>9. FlagsAgree'
    BY <1>1, <1>2 DEF PoolInv, FlagsAgree, Alive
  <1>10. UserAgrees'
    BY <1>1, <1>2, <1>3 DEF PoolInv, UserAgrees, Alive
  <1>11. (bForceDisplay => AllOutput) => IdleSlots'
    BY <1>1, <1>2, <1>4, FrameIDType DEF PoolInv, IdleSlots
  <1>12. StagesAgree'
    BY DEF PoolInv, StagesAgree, Running, Alive
  <1>13. (bForceDisplay => AllOutput) => NoBufferLost'
    <2> SUFFICES ASSUME bForceDisplay => AllOutput, NEW c \in Buffers, c \notin user'
                 PROVE  \E x \in SlotsOf(c)' :
                            refs'[x] # {} \/ x \in Available' \/ x = flushed'
      BY DEF NoBufferLost
    <2>1. PICK x \in SlotsOf(c) : refs[x] # {} \/ x \in Available \/ x = flushed
      BY DEF PoolInv, NoBufferLost
    <2>2. x \in FrameID /\ x # f /\ pFrame[x] = c
      BY <2>1 DEF SlotsOf
    <2> QED BY <1>1, <1>4, <2>1, <2>2, FrameIDType DEF SlotsOf
  <1>14. DestroyReleasesAll'
    BY DEF Alive, DestroyReleasesAll
  <1> QED BY <1>5, <1>6, <1>7, <1>8, <1>9, <1>10, <1>11, <1>12, <1>13, <1>14 DEF PoolInv

\* The three actions that recycle a buffer.  sFrmBufPool_PutDisplayBuffer of a
\* buffer no slot knows:
LEMMA PutNewPreserves ==
  ASSUME PoolInv, TypeOK', NEW b \in Buffers, PutNew(b)
  PROVE  PoolInv'
  <1>1. PICK g \in EmptySlots : Rebind(g, g, b)
    BY DEF PutNew
  <1>2. g \in FrameID /\ refs[g] = {} /\ ~bAlreadyDisplayed[g]
    BY DEF EmptySlots, PoolInv, CountMatchesHolders, FlagsAgree, Bound, PutNew, Running, Alive
  <1>3. /\ Running /\ SlotsOf(b) = {} /\ user' = user \ {b}
        /\ poolRef' = [poolRef EXCEPT ![b] = @ + 1]
        /\ UNCHANGED <<bAlreadyDisplayed, isDecommited, popping, stage, flushed, refs,
                       queued, shown>>
    BY DEF PutNew, pictVars
  <1> QED BY <1>1, <1>2, <1>3, RecyclePreserves

\* sFrmBufPool_ReleaseDisplayBuffer with bPushBack: the slot recycled may be
\* another one than the slot the buffer came from.
LEMMA PutBackRecyclePreserves ==
  ASSUME PoolInv, TypeOK', NEW b \in Buffers, NEW f \in FrameID, PutBackRecycle(b, f)
  PROVE  PoolInv'
  <1>1. PICK g \in EmptySlots \cup {f} : Rebind(f, g, b)
    BY DEF PutBackRecycle
  <1>2. /\ g \in FrameID /\ pFrame[f] = b /\ b \in user /\ iAccessCnt[f] = 0
        /\ Running /\ user' = user \ {b} /\ poolRef' = poolRef
        /\ UNCHANGED <<isDecommited, popping, stage, flushed, refs, queued, shown>>
    BY DEF EmptySlots, PutBackRecycle, SlotsOf, bPushBack, pictVars
  <1>3. refs[f] = {}
    BY <1>2, FS_EmptySet, PoolAssumption DEF PoolInv, CountMatchesHolders, Bound
  <1>4. f \notin Available
    BY <1>2 DEF PoolInv, AvailableIsFree
  <1>5. /\ ~bAlreadyDisplayed'[f]
        /\ \A x \in FrameID \ {f} : bAlreadyDisplayed'[x] = bAlreadyDisplayed[x]
    BY DEF PutBackRecycle, PoolInv, TypeOK
  <1> QED BY <1>1, <1>2, <1>3, <1>4, <1>5, RecyclePreserves

\* The last sFrmBufPool_DecrementBufID of a picture the application does not
\* have recycles its buffer.
LEMMA DecrementRecyclePreserves ==
  ASSUME PoolInv, TypeOK', NEW h \in Holder, NEW f \in FrameID, DecrementRecycle(h, f)
  PROVE  PoolInv'
  <1> DEFINE b == pFrame[f]
  <1>1. PICK g \in EmptySlots \cup {f} : Rebind(f, g, b)
    BY DEF DecrementRecycle
  <1>2. /\ g \in FrameID /\ h \in refs[f] /\ iAccessCnt[f] = 1 /\ ~bAlreadyDisplayed[f]
        /\ ~bToBeDisplayed[f] \/ bForceDisplay
        /\ refs' = [refs EXCEPT ![f] = @ \ {h}] /\ poolRef' = poolRef
        /\ UNCHANGED <<bAlreadyDisplayed, isDecommited, popping, stage, flushed,
                       queued, shown, user>>
    BY DEF EmptySlots, DecrementRecycle
  <1>3. Bound(f) /\ b \in Buffers
    BY <1>2 DEF PoolInv, TypeOK, CountMatchesHolders, Bound
  <1>4. /\ refs'[f] = {} /\ \A x \in FrameID \ {f} : refs'[x] = refs[x]
    <2>1. refs'[f] = refs[f] \ {h} /\ IsFiniteSet(refs[f]) /\ Cardinality(refs[f]) = 1
      BY <1>2, <1>3 DEF PoolInv, TypeOK, CountMatchesHolders
    <2>2. Cardinality(refs[f] \ {h}) = 0 /\ IsFiniteSet(refs[f] \ {h})
      BY <1>2, <2>1, HoldersCount
    <2>3. refs[f] \ {h} = {}
      BY <2>2, FS_EmptySet
    <2> QED BY <1>2, <2>1, <2>3 DEF PoolInv, TypeOK
  <1>5. f \notin Available /\ Running
    BY <1>2 DEF PoolInv, AvailableIsFree, StagesAgree
  <1>6. user' = user \ {b}
    BY <1>2, <1>3 DEF PoolInv, UserAgrees
  <1> HIDE DEF b
  <1> QED BY <1>1, <1>2, <1>3, <1>4, <1>5, <1>6, RecyclePreserves DEF b

\* The two actions that empty a slot and leave the buffer to the application.
\* The last sFrmBufPool_DecrementBufID while the application has the buffer:
LEMMA DecrementReleasePreserves ==
  ASSUME PoolInv, TypeOK', NEW h \in Holder, NEW f \in FrameID, DecrementRelease(h, f)
  PROVE  PoolInv'
  <1>1. /\ h \in refs[f] /\ LastRefIsSafe(f) /\ iAccessCnt[f] = 1 /\ ~bAlreadyDisplayed[f]
        /\ bToBeDisplayed[f] /\ ~bForceDisplay /\ Unbind({f})
        /\ refs' = [refs EXCEPT ![f] = @ \ {h}]
        /\ UNCHANGED <<bAlreadyDisplayed, avail, Semaphore, isDecommited, popping,
                       stage, flushed, queued, shown, user>>
    BY DEF DecrementRelease
  <1>2. Bound(f) /\ pFrame[f] \in Buffers
    BY <1>1 DEF PoolInv, TypeOK, CountMatchesHolders, Bound
  <1>3. /\ refs'[f] = {} /\ \A x \in FrameID \ {f} : refs'[x] = refs[x]
    <2>1. refs'[f] = refs[f] \ {h} /\ IsFiniteSet(refs[f]) /\ Cardinality(refs[f]) = 1
      BY <1>1, <1>2 DEF PoolInv, TypeOK, CountMatchesHolders
    <2>2. Cardinality(refs[f] \ {h}) = 0 /\ IsFiniteSet(refs[f] \ {h})
      BY <1>1, <2>1, HoldersCount
    <2>3. refs[f] \ {h} = {}
      BY <2>2, FS_EmptySet
    <2> QED BY <1>1, <2>1, <2>3 DEF PoolInv, TypeOK
  <1>4. f \notin Available
    BY <1>1 DEF PoolInv, AvailableIsFree
  <1>5. Alive /\ flushed = NoFrame
    BY <1>1 DEF PoolInv, StagesAgree, Running, Alive
  <1>6. pFrame[f] \in user
    BY <1>1 DEF PoolInv, FlagsAgree, UserAgrees, LastRefIsSafe
  <1> QED BY <1>1, <1>2, <1>3, <1>4, <1>5, <1>6, ReleasePreserves

\* sFrmBufPool_SignalCallbackReleaseIsDone empties the slot being flushed.
LEMMA ReleaseDonePreserves ==
  ASSUME PoolInv, TypeOK', ReleaseDone
  PROVE  PoolInv'
  <1> DEFINE f == flushed
  <1>1. /\ f # NoFrame /\ Unbind({f}) /\ user' = user \cup {pFrame[f]} /\ flushed' = NoFrame
        /\ UNCHANGED <<bAlreadyDisplayed, avail, Semaphore, isDecommited, popping,
                       stage, refs, queued, shown>>
    BY DEF ReleaseDone, pictVars
  <1>2. /\ f \in FrameID /\ stage = "flushing" /\ Bound(f) /\ f \notin Available
        /\ refs[f] = {} /\ ~bAlreadyDisplayed[f]
    BY <1>1 DEF PoolInv, TypeOK, StagesAgree
  <1>3. Alive
    BY <1>2 DEF Alive
  <1> QED BY <1>1, <1>2, <1>3, ReleasePreserves

\* The steps that leave the slots, the fifo and the buffers alone.
LEMMA ControlPreserves ==
  ASSUME PoolInv, TypeOK', PopWait \/ PopDecommited \/ Decommit \/ ThreadsJoined
  PROVE  PoolInv'
  <1>1. /\ UNCHANGED <<slotVars, avail, flushed, poolRef, pictVars, user>>
        /\ stage' = stage \/ (Running /\ isDecommited /\ stage' = "flushing")
    BY DEF PopWait, PopDecommited, Decommit, ThreadsJoined
  <1>2. /\ CountMatchesHolders' /\ AvailableIsFree' /\ BoundOnce'
        /\ (bForceDisplay => AllOutput) => IdleSlots'
    BY <1>1 DEF PoolInv, CountMatchesHolders, AvailableIsFree, BoundOnce, IdleSlots,
                Bound, SlotsOf, Available, slotVars, pictVars
  <1>3. Alive' = Alive
    BY <1>1 DEF Alive, Running
  <1>4. /\ FlagsAgree' /\ UserAgrees'
        /\ (bForceDisplay => AllOutput) => NoBufferLost'
    BY <1>1, <1>3 DEF PoolInv, FlagsAgree, UserAgrees, NoBufferLost, Bound, SlotsOf,
                Available, slotVars, pictVars
  <1>5. DestroyReleasesAll'
    BY <1>1 DEF PoolInv, DestroyReleasesAll, Bound, Running, slotVars
  <1>6. Len(avail) \in Nat /\ Semaphore \in Nat
    BY LenProperties DEF PoolInv, TypeOK
  <1>7. SemaphoreCounts' /\ StagesAgree'
    <2>1. CASE PopWait
      <3>1. Running /\ popping' = TRUE /\ ~popping /\ Semaphore' = Semaphore - 1
            /\ UNCHANGED <<slotVars, avail, isDecommited, stage, flushed, pictVars, user>>
        BY <2>1 DEF PopWait
      <3>2. SemaphoreCounts'
        BY <1>6, <3>1 DEF PoolInv, SemaphoreCounts, Running
      <3>3. StagesAgree'
        BY <3>1 DEF PoolInv, StagesAgree, Running
      <3> QED BY <3>2, <3>3
    <2>2. CASE PopDecommited
      <3>1. popping /\ popping' = FALSE /\ Semaphore' = Semaphore + 1
            /\ UNCHANGED <<slotVars, avail, isDecommited, stage, flushed, pictVars, user>>
        BY <2>2 DEF PopDecommited
      <3>2. SemaphoreCounts'
        BY <1>6, <3>1 DEF PoolInv, SemaphoreCounts, Running
      <3>3. StagesAgree'
        BY <3>1 DEF PoolInv, StagesAgree, Running
      <3> QED BY <3>2, <3>3
    <2>3. CASE Decommit
      <3>1. ~isDecommited /\ isDecommited' = TRUE /\ Semaphore' = Semaphore + 1
            /\ UNCHANGED <<slotVars, avail, popping, stage, flushed, pictVars, user>>
        BY <2>3 DEF Decommit
      <3>2. SemaphoreCounts'
        BY <1>6, <3>1 DEF PoolInv, SemaphoreCounts, Running
      <3>3. StagesAgree'
        BY <3>1 DEF PoolInv, StagesAgree, Running
      <3> QED BY <3>2, <3>3
    <2>4. CASE ThreadsJoined
      <3>1. Running /\ isDecommited /\ ~popping /\ (\A f \in FrameID : refs[f] = {})
            /\ stage' = "flushing"
            /\ UNCHANGED <<slotVars, avail, isDecommited, popping, flushed, pictVars, user>>
        BY <2>4 DEF ThreadsJoined
      <3>2. SemaphoreCounts'
        BY <3>1 DEF SemaphoreCounts, Running
      <3>3. StagesAgree'
        BY <3>1 DEF PoolInv, StagesAgree, Running, Bound, pictVars
      <3> QED BY <3>2, <3>3
    <2> QED BY <2>1, <2>2, <2>3, <2>4
  <1> QED BY <1>2, <1>4, <1>5, <1>7 DEF PoolInv

\* The steps that change the flags or the clients of one slot and keep the
\* binding, the fifo and the stage: what every one of them needs.
LEMMA SlotStepPreserves ==
  ASSUME PoolInv, TypeOK', NEW f \in FrameID,
         UNCHANGED <<pFrame, avail, Semaphore, isDecommited, popping, stage,
                     flushed, poolRef>>,
         Bound(f), Running, f \notin Available,
         \A x \in FrameID \ {f} :
            /\ iAccessCnt'[x] = iAccessCnt[x]
            /\ bToBeDisplayed'[x] = bToBeDisplayed[x]
            /\ bAlreadyDisplayed'[x] = bAlreadyDisplayed[x]
            /\ refs'[x] = refs[x]
            /\ x \in queued' <=> x \in queued
            /\ x \in shown' <=> x \in shown,
         \A c \in Buffers \ {pFrame[f]} : c \in user' <=> c \in user,
         IsFiniteSet(refs'[f]) /\ iAccessCnt'[f] = Cardinality(refs'[f]),
         FlagsAgree', UserAgrees',
         (bForceDisplay => AllOutput) =>
            /\ refs'[f] = {} => bAlreadyDisplayed'[f] /\ bToBeDisplayed'[f]
            /\ pFrame[f] \in user' \/ refs'[f] # {}
  PROVE  PoolInv'
  <1> USE DEF Bound
  <1>1. Available' = Available /\ \A x \in Available : x \in FrameID \ {f}
    BY DEF Available, Range, PoolInv, TypeOK
  <1>2. \A x \in FrameID \ {f} : pFrame[x] # pFrame[f]
    BY DEF PoolInv, BoundOnce
  <1>3. \A x \in FrameID : pFrame[x] # NoBuf => pFrame[x] \in Buffers
    BY DEF PoolInv, TypeOK
  <1>4. CountMatchesHolders'
    BY DEF PoolInv, CountMatchesHolders
  <1>5. AvailableIsFree'
    BY <1>1, <1>2, <1>3 DEF PoolInv, AvailableIsFree
  <1>6. SemaphoreCounts' /\ DestroyReleasesAll'
    BY DEF PoolInv, SemaphoreCounts, DestroyReleasesAll, Running
  <1>7. BoundOnce'
    BY DEF PoolInv, BoundOnce, SlotsOf
  <1>8. (bForceDisplay => AllOutput) => IdleSlots'
    BY <1>1 DEF PoolInv, IdleSlots
  <1>9. StagesAgree'
    BY DEF PoolInv, StagesAgree, Running
  <1>10. (bForceDisplay => AllOutput) => NoBufferLost'
    <2> SUFFICES ASSUME bForceDisplay => AllOutput, NEW c \in Buffers, c \notin user'
                 PROVE  \E x \in SlotsOf(c)' :
                            refs'[x] # {} \/ x \in Available' \/ x = flushed'
      BY DEF NoBufferLost
    <2>1. CASE c = pFrame[f]
      BY <2>1 DEF SlotsOf
    <2>2. CASE c # pFrame[f]
      <3>1. PICK x \in SlotsOf(c) : refs[x] # {} \/ x \in Available \/ x = flushed
        BY <2>2 DEF PoolInv, NoBufferLost, Alive, Running
      <3> QED BY <1>1, <2>2, <3>1 DEF SlotsOf
    <2> QED BY <2>1, <2>2
  <1> QED BY <1>4, <1>5, <1>6, <1>7, <1>8, <1>9, <1>10 DEF PoolInv

\* A slot somebody holds is bound and not available, and the threads run.
LEMMA HeldSlot ==
  ASSUME PoolInv, NEW f \in FrameID, refs[f] # {}
  PROVE  /\ Bound(f) /\ f \notin Available /\ Running /\ Alive /\ flushed # f
         /\ pFrame[f] \in Buffers
         /\ IsFiniteSet(refs[f]) /\ iAccessCnt[f] = Cardinality(refs[f])
         /\ iAccessCnt[f] \in Nat /\ iAccessCnt[f] # 0
  <1>1. Bound(f) /\ IsFiniteSet(refs[f]) /\ iAccessCnt[f] = Cardinality(refs[f])
    BY DEF PoolInv, CountMatchesHolders
  <1>2. iAccessCnt[f] \in Nat /\ iAccessCnt[f] # 0
    BY <1>1, HoldersCount
  <1>3. f \notin Available
    BY <1>2 DEF PoolInv, AvailableIsFree
  <1>4. Running /\ Alive /\ flushed # f
    BY FrameIDType DEF PoolInv, StagesAgree, Running, Alive
  <1>5. pFrame[f] \in Buffers
    BY <1>1 DEF PoolInv, TypeOK, Bound
  <1> QED BY <1>1, <1>2, <1>3, <1>4, <1>5

\* sFrmBufPool_IncrementBufID for a client that does not hold the slot yet.
LEMMA IncrementPreserves ==
  ASSUME PoolInv, TypeOK', NEW h \in Holder, NEW f \in FrameID, Increment(h, f)
  PROVE  PoolInv'
  <1>1. /\ refs[f] # {} /\ h \notin refs[f]
        /\ iAccessCnt' = [iAccessCnt EXCEPT ![f] = @ + 1]
        /\ refs' = [refs EXCEPT ![f] = @ \cup {h}]
        /\ UNCHANGED <<pFrame, bToBeDisplayed, bAlreadyDisplayed, avail, Semaphore,
                       isDecommited, popping, stage, flushed, poolRef, queued, shown, user>>
    BY DEF Increment
  <1>2. /\ iAccessCnt'[f] = iAccessCnt[f] + 1 /\ refs'[f] = refs[f] \cup {h}
        /\ \A x \in FrameID \ {f} : iAccessCnt'[x] = iAccessCnt[x] /\ refs'[x] = refs[x]
    BY <1>1 DEF PoolInv, TypeOK
  <1>3. IsFiniteSet(refs'[f]) /\ iAccessCnt'[f] = Cardinality(refs'[f]) /\ refs'[f] # {}
    BY <1>1, <1>2, HeldSlot, HoldersCount
  <1>4. FlagsAgree' /\ UserAgrees'
    BY <1>1, <1>2 DEF PoolInv, FlagsAgree, UserAgrees, Bound, Alive
  <1> QED BY <1>1, <1>2, <1>3, <1>4, HeldSlot, SlotStepPreserves

\* sFrmBufPool_DecrementBufID when clients remain, or when the application
\* still has a picture shown early.
LEMMA DecrementKeepPreserves ==
  ASSUME PoolInv, TypeOK', NEW h \in Holder, NEW f \in FrameID, DecrementKeep(h, f)
  PROVE  PoolInv'
  <1>1. /\ h \in refs[f]
        /\ refs[f] = {h} => LastRefIsSafe(f)
        /\ iAccessCnt[f] # 1 \/ bAlreadyDisplayed[f]
        /\ iAccessCnt' = [iAccessCnt EXCEPT ![f] = @ - 1]
        /\ refs' = [refs EXCEPT ![f] = @ \ {h}]
        /\ UNCHANGED <<pFrame, bToBeDisplayed, bAlreadyDisplayed, avail, Semaphore,
                       isDecommited, popping, stage, flushed, poolRef, queued, shown, user>>
    BY DEF DecrementKeep
  <1>2. /\ iAccessCnt'[f] = iAccessCnt[f] - 1 /\ refs'[f] = refs[f] \ {h}
        /\ \A x \in FrameID \ {f} : iAccessCnt'[x] = iAccessCnt[x] /\ refs'[x] = refs[x]
    BY <1>1 DEF PoolInv, TypeOK
  <1>3. IsFiniteSet(refs'[f]) /\ iAccessCnt'[f] = Cardinality(refs'[f])
    BY <1>1, <1>2, HeldSlot, HoldersCount
  <1>4. FlagsAgree' /\ UserAgrees'
    BY <1>1, <1>2 DEF PoolInv, FlagsAgree, UserAgrees, Bound, Alive
  <1>5. (bForceDisplay => AllOutput) /\ refs'[f] = {} =>
            bAlreadyDisplayed[f] /\ bToBeDisplayed[f] /\ pFrame[f] \in user
    <2> SUFFICES ASSUME bForceDisplay => AllOutput, refs'[f] = {}
                 PROVE  bAlreadyDisplayed[f] /\ bToBeDisplayed[f] /\ pFrame[f] \in user
      OBVIOUS
    <2>1. refs[f] = {h} /\ iAccessCnt[f] = 1
      <3>1. refs[f] = {h}
        BY <1>1, <1>2
      <3>2. Cardinality({h}) = 1
        BY FS_Singleton
      <3> QED BY <3>1, <3>2, HeldSlot
    <2>2. bAlreadyDisplayed[f] /\ LastRefIsSafe(f)
      BY <1>1, <2>1
    <2> QED BY <1>1, <2>2, HeldSlot DEF PoolInv, FlagsAgree, UserAgrees, LastRefIsSafe
  <1> QED BY <1>1, <1>2, <1>3, <1>4, <1>5, HeldSlot, SlotStepPreserves

\* sFrmBufPool_ReleaseDisplayBuffer without bPushBack: only flags change.
LEMMA PutBackKeepPreserves ==
  ASSUME PoolInv, TypeOK', NEW b \in Buffers, NEW f \in FrameID, PutBackKeep(b, f)
  PROVE  PoolInv'
  <1>1. /\ Running /\ b \in user /\ pFrame[f] = b /\ ~bPushBack(f)
        /\ bAlreadyDisplayed' = [bAlreadyDisplayed EXCEPT ![f] = FALSE]
        /\ bToBeDisplayed' = [bToBeDisplayed EXCEPT ![f] = @ /\ bAlreadyDisplayed[f]]
        /\ user' = user \ {b}
        /\ UNCHANGED <<pFrame, iAccessCnt, avail, Semaphore, isDecommited, popping,
                       stage, flushed, poolRef, refs, queued, shown>>
    BY DEF PutBackKeep, SlotsOf, pictVars
  <1>2. /\ ~bAlreadyDisplayed'[f]
        /\ bToBeDisplayed'[f] <=> (bToBeDisplayed[f] /\ bAlreadyDisplayed[f])
        /\ \A x \in FrameID \ {f} : /\ bAlreadyDisplayed'[x] = bAlreadyDisplayed[x]
                                    /\ bToBeDisplayed'[x] = bToBeDisplayed[x]
    BY <1>1 DEF PoolInv, TypeOK
  <1>3. Bound(f) /\ f \notin Available
    BY <1>1, PoolAssumption DEF PoolInv, AvailableIsFree, Bound
  <1>4. IsFiniteSet(refs[f]) /\ iAccessCnt[f] = Cardinality(refs[f])
    BY <1>3 DEF PoolInv, CountMatchesHolders
  <1>5. FlagsAgree'
    BY <1>1, <1>2, <1>3 DEF PoolInv, FlagsAgree, UserAgrees, Bound, Alive, Running
  <1>6. UserAgrees'
    BY <1>1, <1>2, <1>3 DEF PoolInv, FlagsAgree, UserAgrees, BoundOnce, Bound, Alive, Running
  <1>7. (bForceDisplay => AllOutput) => refs[f] # {}
    <2> SUFFICES ASSUME bForceDisplay => AllOutput, refs[f] = {} PROVE bPushBack(f)
      BY <1>1
    <2>1. iAccessCnt[f] = 0
      BY <1>4, FS_EmptySet
    <2>2. flushed # f
      BY <1>1, FrameIDType DEF PoolInv, StagesAgree, Running
    <2> QED BY <1>3, <2>1, <2>2 DEF PoolInv, IdleSlots, bPushBack
  <1> QED BY <1>1, <1>2, <1>3, <1>4, <1>5, <1>6, <1>7, SlotStepPreserves

\* sFrmBufPool_OutputBufID marks a picture queued for display.
LEMMA OutputPreserves ==
  ASSUME PoolInv, TypeOK', NEW f \in FrameID, OutputBufID(f)
  PROVE  PoolInv'
  <1>1. /\ refs[f] # {} /\ f \notin queued
        /\ bToBeDisplayed' = [bToBeDisplayed EXCEPT ![f] = TRUE]
        /\ queued' = queued \cup {f}
        /\ UNCHANGED <<pFrame, iAccessCnt, bAlreadyDisplayed, avail, Semaphore,
                       isDecommited, popping, stage, flushed, poolRef, refs, shown, user>>
    BY DEF OutputBufID
  <1>2. /\ bToBeDisplayed'[f]
        /\ \A x \in FrameID \ {f} : bToBeDisplayed'[x] = bToBeDisplayed[x]
    BY <1>1 DEF PoolInv, TypeOK
  <1>3. FlagsAgree'
    BY <1>1, <1>2, HeldSlot DEF PoolInv, FlagsAgree, Bound, Alive
  <1>4. UserAgrees'
    BY <1>1, <1>2, HeldSlot DEF PoolInv, FlagsAgree, UserAgrees, Bound, Alive
  <1> QED BY <1>1, <1>2, <1>3, <1>4, HeldSlot, SlotStepPreserves

\* The display callback hands a queued picture to the application.
LEMMA ShowPreserves ==
  ASSUME PoolInv, TypeOK', NEW f \in FrameID, Show(f)
  PROVE  PoolInv'
  <1>1. /\ ~bForceDisplay /\ refs[f] # {} /\ f \in queued /\ f \notin shown
        /\ shown' = shown \cup {f} /\ user' = user \cup {pFrame[f]}
        /\ UNCHANGED <<pFrame, iAccessCnt, bToBeDisplayed, bAlreadyDisplayed, avail,
                       Semaphore, isDecommited, popping, stage, flushed, poolRef,
                       refs, queued>>
    BY DEF Show, slotVars
  <1>2. FlagsAgree'
    BY <1>1, HeldSlot DEF PoolInv, FlagsAgree, Bound, Alive
  <1>3. UserAgrees'
    BY <1>1, HeldSlot DEF PoolInv, FlagsAgree, UserAgrees, BoundOnce, Bound, Alive
  <1> QED BY <1>1, <1>2, <1>3, HeldSlot, SlotStepPreserves

\* The early display callback hands over a picture still being written.
LEMMA ForceDisplayPreserves ==
  ASSUME PoolInv, TypeOK', NEW f \in FrameID, ForceDisplay(f)
  PROVE  PoolInv'
  <1>1. /\ bForceDisplay /\ refs[f] # {} /\ f \notin shown
        /\ bAlreadyDisplayed' = [bAlreadyDisplayed EXCEPT ![f] = TRUE]
        /\ shown' = shown \cup {f} /\ user' = user \cup {pFrame[f]}
        /\ UNCHANGED <<pFrame, iAccessCnt, bToBeDisplayed, avail, Semaphore,
                       isDecommited, popping, stage, flushed, poolRef, refs, queued>>
    BY DEF ForceDisplay
  <1>2. /\ bAlreadyDisplayed'[f]
        /\ \A x \in FrameID \ {f} : bAlreadyDisplayed'[x] = bAlreadyDisplayed[x]
    BY <1>1 DEF PoolInv, TypeOK
  <1>3. FlagsAgree'
    BY <1>1, <1>2, HeldSlot DEF PoolInv, FlagsAgree, Bound, Alive
  <1>4. UserAgrees'
    BY <1>1, <1>2, HeldSlot DEF PoolInv, FlagsAgree, UserAgrees, BoundOnce, Bound, Alive
  <1> QED BY <1>1, <1>2, <1>3, <1>4, HeldSlot, SlotStepPreserves

\* sFrmBufPool_Pop: the first available frame gets its first client.
LEMMA PopTakePreserves ==
  ASSUME PoolInv, TypeOK', NEW h \in Holder, PopTake(h)
  PROVE  PoolInv'
  <1> DEFINE f == Head(avail)
  <1> USE DEF Bound
  <1>1. /\ popping /\ ~isDecommited /\ avail # <<>> /\ avail' = Tail(avail)
        /\ iAccessCnt' = [iAccessCnt EXCEPT ![f] = 1]
        /\ refs' = [refs EXCEPT ![f] = {h}]
        /\ queued' = queued \ {f} /\ shown' = shown \ {f} /\ popping' = FALSE
        /\ UNCHANGED <<pFrame, bToBeDisplayed, bAlreadyDisplayed, Semaphore,
                       isDecommited, stage, flushed, poolRef, user>>
    BY DEF PopTake
  <1>2. /\ f \in FrameID /\ f \in Available /\ Available' \subseteq Available
        /\ Available \subseteq Available' \cup {f}
        /\ IsInjective(avail') /\ f \notin Available'
        /\ Len(avail') = Len(avail) - 1 /\ Len(avail) \in Nat
    BY <1>1, TailRange, LenProperties DEF PoolInv, TypeOK, AvailableIsFree, Available
  <1>3. /\ iAccessCnt'[f] = 1 /\ refs'[f] = {h}
        /\ \A x \in FrameID \ {f} : iAccessCnt'[x] = iAccessCnt[x] /\ refs'[x] = refs[x]
    BY <1>1, <1>2 DEF PoolInv, TypeOK
  <1>4. /\ Bound(f) /\ ~bToBeDisplayed[f] /\ ~bAlreadyDisplayed[f] /\ pFrame[f] \notin user
    BY <1>2 DEF PoolInv, AvailableIsFree
  <1>5. Running /\ Alive /\ flushed = NoFrame
    BY <1>1 DEF PoolInv, StagesAgree, Running, Alive
  <1> HIDE DEF f
  <1>6. CountMatchesHolders'
    <2>1. IsFiniteSet(refs'[f]) /\ iAccessCnt'[f] = Cardinality(refs'[f])
      BY <1>3, FS_Singleton
    <2> QED BY <1>1, <1>3, <1>4, <2>1 DEF PoolInv, CountMatchesHolders
  <1>7. AvailableIsFree'
    <2>0. Available \subseteq FrameID
      BY DEF PoolInv, TypeOK, Available, Range
    <2>1. \A x \in Available' : x \in Available /\ x \in FrameID \ {f}
      BY <1>2, <2>0
    <2> QED BY <1>1, <1>2, <1>3, <2>1 DEF PoolInv, AvailableIsFree
  <1>8. SemaphoreCounts'
    <2>1. Semaphore + 1 = Len(avail)
      BY <1>1, <1>5 DEF PoolInv, SemaphoreCounts
    <2>2. popping' = FALSE /\ isDecommited' = FALSE
      BY <1>1, Zenon DEF PoolInv, TypeOK
    <2>3. Semaphore \in Nat /\ Semaphore' = Semaphore
      BY <1>1 DEF PoolInv, TypeOK
    <2>4. Semaphore' + 0 = Len(avail') + 0
      BY <1>2, <2>1, <2>3
    <2> QED BY <2>2, <2>4 DEF SemaphoreCounts
  <1>9. BoundOnce'
    BY <1>1 DEF PoolInv, BoundOnce, SlotsOf
  <1>10. FlagsAgree' /\ UserAgrees'
    BY <1>1, <1>3, <1>4 DEF PoolInv, FlagsAgree, UserAgrees, Alive
  <1>11. (bForceDisplay => AllOutput) => IdleSlots'
    BY <1>1, <1>2, <1>3 DEF PoolInv, IdleSlots
  <1>12. StagesAgree'
    BY <1>1, <1>5 DEF PoolInv, StagesAgree, Running, Alive
  <1>13. (bForceDisplay => AllOutput) => NoBufferLost'
    <2> SUFFICES ASSUME bForceDisplay => AllOutput, NEW c \in Buffers, c \notin user
                 PROVE  \E x \in SlotsOf(c)' :
                            refs'[x] # {} \/ x \in Available' \/ x = flushed'
      BY <1>1 DEF NoBufferLost
    <2>1. PICK x \in SlotsOf(c) : refs[x] # {} \/ x \in Available \/ x = flushed
      BY <1>5 DEF PoolInv, NoBufferLost
    <2>2. x \in FrameID /\ x \in SlotsOf(c)'
      BY <1>1, <2>1 DEF SlotsOf
    <2> QED BY <1>1, <1>2, <1>3, <2>1, <2>2
  <1>14. DestroyReleasesAll'
    BY <1>1, <1>5 DEF Alive, DestroyReleasesAll
  <1> QED BY <1>6, <1>7, <1>8, <1>9, <1>10, <1>11, <1>12, <1>13, <1>14 DEF PoolInv

\* sFrmBufPool_FlushOneDisplayBuffer takes a frame without the semaphore.
LEMMA FlushOnePreserves ==
  ASSUME PoolInv, TypeOK', FlushOne
  PROVE  PoolInv'
  <1> DEFINE f == Head(avail)
  <1> USE DEF Bound
  <1>1. /\ stage = "flushing" /\ flushed = NoFrame /\ avail # <<>>
        /\ flushed' = f /\ avail' = Tail(avail)
        /\ bToBeDisplayed' = [bToBeDisplayed EXCEPT ![f] = @ \/ ~bAlreadyDisplayed[f]]
        /\ UNCHANGED <<pFrame, iAccessCnt, bAlreadyDisplayed, Semaphore,
                       isDecommited, popping, stage, poolRef, refs, queued, shown, user>>
    BY DEF FlushOne, pictVars
  <1>2. /\ f \in FrameID /\ f \in Available /\ Available' \subseteq Available
        /\ Available \subseteq Available' \cup {f}
        /\ IsInjective(avail') /\ f \notin Available'
    BY <1>1, TailRange DEF PoolInv, TypeOK, AvailableIsFree, Available
  <1>3. \A x \in FrameID \ {f} : bToBeDisplayed'[x] = bToBeDisplayed[x]
    BY <1>1 DEF PoolInv, TypeOK
  <1>4. /\ Bound(f) /\ ~bAlreadyDisplayed[f] /\ pFrame[f] \notin user
    BY <1>2 DEF PoolInv, AvailableIsFree
  <1>5. ~Running /\ Alive /\ \A x \in FrameID : refs[x] = {}
    BY <1>1 DEF PoolInv, StagesAgree, Running, Alive
  <1> HIDE DEF f
  <1>6. CountMatchesHolders' /\ BoundOnce'
    BY <1>1 DEF PoolInv, CountMatchesHolders, BoundOnce, SlotsOf
  <1>7. AvailableIsFree'
    <2>0. Available \subseteq FrameID
      BY DEF PoolInv, TypeOK, Available, Range
    <2>1. \A x \in Available' : x \in Available /\ x \in FrameID \ {f}
      BY <1>2, <2>0
    <2> QED BY <1>1, <1>2, <1>3, <2>1 DEF PoolInv, AvailableIsFree
  <1>8. SemaphoreCounts' /\ DestroyReleasesAll'
    BY <1>1, <1>5 DEF SemaphoreCounts, DestroyReleasesAll, Running
  <1>9. FlagsAgree'
    BY <1>1, <1>3, <1>4, <1>5 DEF PoolInv, FlagsAgree, Alive
  <1>10. UserAgrees'
    BY <1>1, <1>3, <1>4, <1>5 DEF PoolInv, UserAgrees, Alive
  <1>11. (bForceDisplay => AllOutput) => IdleSlots'
    BY <1>1, <1>2, <1>3, FrameIDType DEF PoolInv, IdleSlots
  <1>12. StagesAgree'
    BY <1>1, <1>2, <1>4, <1>5 DEF PoolInv, StagesAgree, Running, Alive
  <1>13. (bForceDisplay => AllOutput) => NoBufferLost'
    <2> SUFFICES ASSUME bForceDisplay => AllOutput, NEW c \in Buffers, c \notin user
                 PROVE  \E x \in SlotsOf(c)' :
                            refs'[x] # {} \/ x \in Available' \/ x = flushed'
      BY <1>1 DEF NoBufferLost
    <2>1. PICK x \in SlotsOf(c) : x \in Available \/ x = flushed
      BY <1>5 DEF PoolInv, NoBufferLost, SlotsOf
    <2>2. x \in FrameID /\ x \in SlotsOf(c)'
      BY <1>1, <2>1 DEF SlotsOf
    <2> QED BY <1>1, <1>2, <2>1, <2>2, FrameIDType
  <1> QED BY <1>6, <1>7, <1>8, <1>9, <1>10, <1>11, <1>12, <1>13 DEF PoolInv

\* sFrmBufPool_Deinit finds no slot that is still bound.
LEMMA DeinitPreserves ==
  ASSUME PoolInv, TypeOK', Deinit
  PROVE  PoolInv'
  <1> DEFINE S == {f \in FrameID : iAccessCnt[f] = 0}
  <1> USE DEF Bound
  <1>1. /\ stage = "flushing" /\ flushed = NoFrame /\ avail = <<>> /\ Unbind(S)
        /\ stage' = "destroyed"
        /\ UNCHANGED <<bAlreadyDisplayed, avail, Semaphore, isDecommited, popping,
                       flushed, refs, queued, shown, user>>
    BY DEF Deinit, pictVars
  <1>2. isDecommited /\ ~popping /\ \A f \in FrameID : refs[f] = {}
    BY <1>1 DEF PoolInv, StagesAgree, Running
  <1>3. \A f \in FrameID : Bound(f) <=> f \in S
    BY <1>2, FS_EmptySet DEF PoolInv, CountMatchesHolders
  <1>4. \A f \in FrameID : pFrame'[f] = NoBuf /\ iAccessCnt'[f] = -1
    BY <1>1, <1>3 DEF Unbind, PoolInv, CountMatchesHolders
  <1>5. \A f \in FrameID : ~bToBeDisplayed'[f]
    BY <1>1, <1>3 DEF Unbind, PoolInv, FlagsAgree
  <1>6. \A b \in Buffers : poolRef'[b] = 0
    <2> SUFFICES ASSUME NEW b \in Buffers PROVE poolRef'[b] = 0
      OBVIOUS
    <2>1. CASE SlotsOf(b) = {}
      <3>1. ~ \E f \in S : pFrame[f] = b
        BY <2>1 DEF SlotsOf
      <3> QED BY <1>1, <2>1, <3>1 DEF Unbind, PoolInv, BoundOnce
    <2>2. CASE SlotsOf(b) # {}
      <3>1. \E f \in S : pFrame[f] = b
        BY <1>3, <2>2, PoolAssumption DEF SlotsOf
      <3> QED BY <1>1, <2>2, <3>1 DEF Unbind, PoolInv, BoundOnce
    <2> QED BY <2>1, <2>2
  <1> HIDE DEF S
  <1>7. Available' = {} /\ IsInjective(avail')
    BY <1>1 DEF Available, Range, IsInjective
  <1>8. CountMatchesHolders' /\ AvailableIsFree' /\ SemaphoreCounts'
    BY <1>1, <1>2, <1>4, <1>7
    DEF CountMatchesHolders, AvailableIsFree, SemaphoreCounts, Running
  <1>9. BoundOnce'
    <2>1. \A b \in Buffers : SlotsOf(b)' = {}
      BY <1>4, PoolAssumption DEF SlotsOf
    <2> QED BY <1>4, <1>6, <2>1 DEF BoundOnce
  <1>10. FlagsAgree' /\ UserAgrees'
    BY <1>1, <1>2, <1>4, <1>5 DEF PoolInv, FlagsAgree, UserAgrees, Alive
  <1>11. IdleSlots' /\ StagesAgree' /\ NoBufferLost' /\ DestroyReleasesAll'
    BY <1>1, <1>2, <1>4, <1>6
    DEF IdleSlots, StagesAgree, NoBufferLost, DestroyReleasesAll, Alive, Running
  <1> QED BY <1>8, <1>9, <1>10, <1>11 DEF PoolInv

\* A step that changes no variable.
LEMMA StutterPreserves ==
  ASSUME PoolInv, TypeOK', UNCHANGED poolVars
  PROVE  PoolInv'
  BY DEF PoolInv, poolVars, slotVars, pictVars, CountMatchesHolders, AvailableIsFree,
         SemaphoreCounts, BoundOnce, FlagsAgree, UserAgrees, IdleSlots, StagesAgree,
         NoBufferLost, DestroyReleasesAll, Bound, Available, SlotsOf, Running, Alive

\* Every step of the pool and its clients preserves the inductive invariant.
LEMMA InvStep ==
  ASSUME PoolInv, [PoolNext]_poolVars
  PROVE  PoolInv'
  <1>1. TypeOK'
    BY TypeStep DEF PoolInv
  <1>2. CASE Application
    BY <1>1, <1>2, PutNewPreserves, PutBackRecyclePreserves, PutBackKeepPreserves
    DEF Application
  <1>3. CASE Decoder
    BY <1>1, <1>3, ControlPreserves, PopTakePreserves, IncrementPreserves,
       DecrementKeepPreserves, DecrementRecyclePreserves, DecrementReleasePreserves,
       OutputPreserves, ShowPreserves, ForceDisplayPreserves
    DEF Decoder, DecrementBufID
  <1>4. CASE Destroy
    BY <1>1, <1>4, ControlPreserves, FlushOnePreserves, ReleaseDonePreserves,
       DeinitPreserves DEF Destroy
  <1>5. CASE Destroyed \/ UNCHANGED poolVars
    BY <1>1, <1>5, StutterPreserves DEF Destroyed
  <1> QED BY <1>2, <1>3, <1>4, <1>5 DEF PoolNext

\* The pool starts empty, with every buffer in the application's hands.
LEMMA InvInit == PoolInit => PoolInv
  <1> SUFFICES ASSUME PoolInit PROVE PoolInv
    OBVIOUS
  <1> USE DEF PoolInit, Bound
  <1>1. TypeOK
    <2>1. /\ pFrame \in [FrameID -> Buffers \cup {NoBuf}] /\ iAccessCnt \in [FrameID -> Int]
          /\ bToBeDisplayed \in [FrameID -> BOOLEAN]
          /\ bAlreadyDisplayed \in [FrameID -> BOOLEAN]
          /\ refs \in [FrameID -> SUBSET Holder] /\ poolRef \in [Buffers -> Int]
      OBVIOUS
    <2>2. avail \in Seq(FrameID) /\ Semaphore \in Nat
      BY EmptySeq
    <2>3. /\ isDecommited \in BOOLEAN /\ popping \in BOOLEAN
          /\ stage \in {"running", "flushing", "destroyed"}
      OBVIOUS
    <2>4. /\ flushed \in FrameID \cup {NoFrame} /\ queued \in SUBSET FrameID
          /\ shown \in SUBSET FrameID /\ user \in SUBSET Buffers
      OBVIOUS
    <2> QED BY <2>1, <2>2, <2>3, <2>4 DEF TypeOK
  <1>2. Available = {} /\ IsInjective(avail) /\ Len(avail) = 0
    BY EmptySeq DEF Available, Range, IsInjective
  <1>3. \A b \in Buffers : SlotsOf(b) = {}
    BY PoolAssumption DEF SlotsOf
  <1>4. CountMatchesHolders /\ AvailableIsFree /\ SemaphoreCounts
    BY <1>2 DEF CountMatchesHolders, AvailableIsFree, SemaphoreCounts
  <1>5. BoundOnce /\ FlagsAgree /\ UserAgrees /\ IdleSlots
    BY <1>3 DEF BoundOnce, FlagsAgree, UserAgrees, IdleSlots
  <1>6. StagesAgree /\ NoBufferLost /\ DestroyReleasesAll
    BY DEF StagesAgree, NoBufferLost, DestroyReleasesAll, Running
  <1> QED BY <1>1, <1>4, <1>5, <1>6 DEF PoolInv

---------------------------------------------------------------------------
(* The theorems *)

\* The inductive invariant holds in every reachable state.
THEOREM PoolInvariant == PoolSpec => []PoolInv
  BY InvInit, InvStep, PTL DEF PoolSpec

\* Every variable of the pool keeps its type.
THEOREM TypeCorrect == PoolSpec => []TypeOK
  <1>1. PoolInv => TypeOK
    BY DEF PoolInv
  <1> QED BY <1>1, PoolInvariant, PTL

\* iAccessCnt counts the clients of the slot, in every state and both modes.
THEOREM CountIsExact == PoolSpec => []CountMatchesHolders
  <1>1. PoolInv => CountMatchesHolders
    BY DEF PoolInv
  <1> QED BY <1>1, PoolInvariant, PTL

\* The decoder never pops a frame that a client, the display or the
\* application still uses.
THEOREM PopIsSafe == PoolSpec => []AvailableIsFree
  <1>1. PoolInv => AvailableIsFree
    BY DEF PoolInv
  <1> QED BY <1>1, PoolInvariant, PTL

\* The semaphore of Pop counts the frames of the fifo and the token of
\* Decommit, so no wake-up of the decoder thread is lost.
THEOREM NoLostWakeup == PoolSpec => []SemaphoreCounts
  <1>1. PoolInv => SemaphoreCounts
    BY DEF PoolInv
  <1> QED BY <1>1, PoolInvariant, PTL

\* The references the pool takes on AL_TBuffers are balanced.
THEOREM RefsBalanced == PoolSpec => []BoundOnce
  <1>1. PoolInv => BoundOnce
    BY DEF PoolInv
  <1> QED BY <1>1, PoolInvariant, PTL

\* In normal mode, and in early-display mode when all pictures are for
\* output, no buffer is stranded.
THEOREM BuffersConserved ==
  ASSUME bForceDisplay => AllOutput
  PROVE  PoolSpec => []NoBufferLost
  <1>1. PoolInv => NoBufferLost
    BY DEF PoolInv
  <1> QED BY <1>1, PoolInvariant, PTL

\* Destroy leaves no slot bound and no buffer referenced.
THEOREM DestroyIsClean == PoolSpec => []DestroyReleasesAll
  <1>1. PoolInv => DestroyReleasesAll
    BY DEF PoolInv
  <1> QED BY <1>1, PoolInvariant, PTL

\* A step that recycles or empties slot f leaves the other referenced slots
\* alone, and slot f has no client before or after it.
LEMMA PinnedStep ==
  ASSUME PoolInv, [PoolNext]_poolVars,
         NEW x \in FrameID, refs[x] # {}, refs'[x] \cap refs[x] # {}
  PROVE  pFrame'[x] = pFrame[x]
  <1>1. ASSUME NEW b \in Buffers, PutNew(b) PROVE pFrame'[x] = pFrame[x]
    <2>1. PICK g \in EmptySlots : Rebind(g, g, b)
      BY <1>1 DEF PutNew
    <2>2. g # x /\ g \in FrameID
      BY HeldSlot DEF EmptySlots, Bound
    <2> QED BY <2>1, <2>2, RebindEffect DEF PoolInv
  <1>2. ASSUME NEW b \in Buffers, NEW f \in FrameID, PutBackRecycle(b, f)
        PROVE  pFrame'[x] = pFrame[x]
    <2>1. PICK g \in EmptySlots \cup {f} : Rebind(f, g, b)
      BY <1>2 DEF PutBackRecycle
    <2>2. f # x
      BY <1>2, HeldSlot DEF PutBackRecycle, bPushBack
    <2>3. g # x /\ g \in FrameID
      BY <2>2, HeldSlot DEF EmptySlots, Bound
    <2> QED BY <2>1, <2>2, <2>3, RebindEffect DEF PoolInv
  <1>3. ASSUME NEW h \in Holder, NEW f \in FrameID, DecrementRecycle(h, f)
        PROVE  pFrame'[x] = pFrame[x]
    <2>1. PICK g \in EmptySlots \cup {f} : Rebind(f, g, pFrame[f])
      BY <1>3 DEF DecrementRecycle
    <2>2. h \in refs[f] /\ iAccessCnt[f] = 1 /\ refs'[f] = refs[f] \ {h}
      BY <1>3 DEF DecrementRecycle, PoolInv, TypeOK
    <2>3. pFrame[f] \in Buffers /\ refs[f] \ {h} = {}
      <3>1. IsFiniteSet(refs[f]) /\ Cardinality(refs[f]) = 1 /\ pFrame[f] \in Buffers
        BY <2>2, HeldSlot
      <3>2. Cardinality(refs[f] \ {h}) = 0 /\ IsFiniteSet(refs[f] \ {h})
        BY <2>2, <3>1, HoldersCount
      <3> QED BY <3>1, <3>2, FS_EmptySet
    <2>4. f # x
      BY <2>2, <2>3
    <2>5. g # x /\ g \in FrameID
      BY <2>4, HeldSlot DEF EmptySlots, Bound
    <2> QED BY <2>1, <2>3, <2>4, <2>5, RebindEffect DEF PoolInv
  <1>4. ASSUME NEW h \in Holder, NEW f \in FrameID, DecrementRelease(h, f)
        PROVE  pFrame'[x] = pFrame[x]
    <2>1. h \in refs[f] /\ iAccessCnt[f] = 1 /\ refs'[f] = refs[f] \ {h} /\ Unbind({f})
      BY <1>4 DEF DecrementRelease, PoolInv, TypeOK
    <2>2. refs[f] \ {h} = {}
      <3>1. IsFiniteSet(refs[f]) /\ Cardinality(refs[f]) = 1
        BY <2>1, HeldSlot
      <3>2. Cardinality(refs[f] \ {h}) = 0 /\ IsFiniteSet(refs[f] \ {h})
        BY <2>1, <3>1, HoldersCount
      <3> QED BY <3>2, FS_EmptySet
    <2> QED BY <2>1, <2>2 DEF Unbind
  <1>5. CASE Destroy
    <2>1. Running
      BY HeldSlot
    <2>2. ~FlushOne /\ ~ReleaseDone /\ ~Deinit
      BY <2>1 DEF FlushOne, ReleaseDone, Deinit, Running, PoolInv, StagesAgree
    <2> QED BY <1>5, <2>2 DEF Destroy, Decommit, ThreadsJoined, slotVars
  <1>6. CASE \/ \E b \in Buffers, f \in FrameID : PutBackKeep(b, f)
             \/ PopWait \/ PopDecommited \/ \E h \in Holder : PopTake(h)
             \/ \E h \in Holder, f \in FrameID : Increment(h, f) \/ DecrementKeep(h, f)
             \/ \E f \in FrameID : OutputBufID(f) \/ Show(f) \/ ForceDisplay(f)
             \/ Destroyed \/ UNCHANGED poolVars
    BY <1>6 DEF PutBackKeep, PopWait, PopDecommited, PopTake, Increment, DecrementKeep,
                OutputBufID, Show, ForceDisplay, Destroyed, poolVars, slotVars
  <1> QED BY <1>1, <1>2, <1>3, <1>4, <1>5, <1>6
          DEF PoolNext, Application, Decoder, DecrementBufID

\* The buffer behind a frame id never changes while a client keeps the id.
THEOREM FramesArePinned == PoolSpec => PinnedWhileReferenced
  <1>1. PoolInv /\ [PoolNext]_poolVars =>
            [\A f \in FrameID : refs[f] # {} /\ refs'[f] \cap refs[f] # {}
                                  => pFrame'[f] = pFrame[f]]_poolVars
    BY PinnedStep
  <1> QED BY <1>1, PoolInvariant, PTL DEF PoolSpec, PinnedWhileReferenced

\* A buffer leaves the application's hands only in PutDisplayBuffer, which
\* makes it available again or finds it held; where pictures are shown early,
\* a buffer kept for display and held by nobody has been recycled.
LEMMA PutStep ==
  ASSUME bForceDisplay => AllOutput,
         PoolInv, [PoolNext]_poolVars, NEW b \in Buffers, b \in user \ user'
  PROVE  \E f \in FrameID : pFrame'[f] = b /\ (iAccessCnt'[f] > 0 \/ f \in Available')
  <1>1. CASE PutNew(b)
    <2>1. PICK g \in EmptySlots : Rebind(g, g, b)
      BY <1>1 DEF PutNew
    <2>2. g \in FrameID /\ TypeOK
      BY DEF EmptySlots, PoolInv
    <2> QED BY <2>1, <2>2, RebindEffect
  <1>2. ASSUME NEW f \in FrameID, PutBackRecycle(b, f)
        PROVE  \E x \in FrameID : pFrame'[x] = b /\ x \in Available'
    <2>1. PICK g \in EmptySlots \cup {f} : Rebind(f, g, b)
      BY <1>2 DEF PutBackRecycle
    <2>2. g \in FrameID /\ TypeOK
      BY DEF EmptySlots, PoolInv
    <2> QED BY <2>1, <2>2, RebindEffect
  <1>3. ASSUME NEW f \in FrameID, PutBackKeep(b, f)
        PROVE  pFrame'[f] = b /\ iAccessCnt'[f] > 0
    <2>1. /\ pFrame[f] = b /\ b # NoBuf /\ b \in user /\ Running /\ ~bPushBack(f)
          /\ pFrame' = pFrame /\ iAccessCnt' = iAccessCnt
      BY <1>3, PoolAssumption DEF PutBackKeep, SlotsOf
    <2>2. IsFiniteSet(refs[f]) /\ iAccessCnt[f] = Cardinality(refs[f])
      BY <2>1 DEF PoolInv, CountMatchesHolders, Bound
    <2>3. f \notin Available /\ f # flushed
      BY <2>1, FrameIDType DEF PoolInv, AvailableIsFree, StagesAgree, Running
    <2>4. refs[f] # {}
      BY <2>1, <2>2, <2>3, FS_EmptySet DEF PoolInv, IdleSlots, Bound, bPushBack
    <2> QED BY <2>1, <2>2, <2>4, HoldersCount
  <1>4. \/ PutNew(b) \/ \E f \in FrameID : PutBackRecycle(b, f) \/ PutBackKeep(b, f)
    <2>1. ~(Decoder \/ Destroy \/ Destroyed \/ UNCHANGED poolVars)
      BY DEF Decoder, Destroy, Destroyed, PopWait, PopTake, PopDecommited, Increment,
             DecrementBufID, DecrementKeep, DecrementRecycle, DecrementRelease,
             OutputBufID, Show, ForceDisplay, Decommit, ThreadsJoined, FlushOne,
             ReleaseDone, Deinit, poolVars
    <2>2. PICK c \in Buffers : \/ PutNew(c)
                               \/ \E f \in FrameID : PutBackRecycle(c, f) \/ PutBackKeep(c, f)
      BY <2>1 DEF PoolNext, Application
    <2>3. user' = user \ {c}
      BY <2>2 DEF PutNew, PutBackRecycle, PutBackKeep
    <2> QED BY <2>2, <2>3
  <1> QED BY <1>1, <1>2, <1>3, <1>4

\* In normal mode, and in early-display mode when all pictures are for
\* output, PutDisplayBuffer adds the buffer to the pool, as it says.
THEOREM PutReallyAdds ==
  ASSUME bForceDisplay => AllOutput
  PROVE  PoolSpec => PutAddsBuffer
  <1>1. PoolInv /\ [PoolNext]_poolVars =>
            [\A b \in Buffers : b \in user \ user' =>
                \E f \in FrameID : pFrame'[f] = b /\ (iAccessCnt'[f] > 0 \/ f \in Available')]_poolVars
    BY PutStep
  <1> QED BY <1>1, PoolInvariant, PTL DEF PoolSpec, PutAddsBuffer
=============================================================================
