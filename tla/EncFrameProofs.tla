--------------------------- MODULE EncFrameProofs ---------------------------
(***************************************************************************)
(* The source frames of the encoder, the frame-info ids and the tokens     *)
(* that go with them, the references on sources and QP tables, and the HDR *)
(* SEIs the frames hold (EncInvariant: EncFrames, EncHdr): for every       *)
(* program of the application, every order the firmware answers in, and    *)
(* whatever the driver refuses.                                            *)
(***************************************************************************)
EXTENDS EncTypeProofs

---------------------------------------------------------------------------
(* What the actions do to the frames *)

\* The frame-info ids keep their frames but when one is taken.
LEMMA PoolFrames ==
  ASSUME EncTypes, [EncNext]_encVars
  PROVE  /\ \/ GetFrameInfo
            \/ /\ pool'.iCurID = pool.iCurID
               /\ \A id \in InfoID : /\ pool'.info[id].frame = pool.info[id].frame
                                     /\ pool'.info[id].qp = pool.info[id].qp
         /\ GetFrameInfo \/ IdsGivenBack \/ pool'.free = pool.free
  <1>1. /\ pool \in PoolSet /\ pool.info \in [InfoID -> InfoSet]
    BY DEF EncTypes, EncVarTypes, PoolSet
  <1> DEFINE Kept == /\ pool'.iCurID = pool.iCurID
                     /\ \A id \in InfoID : /\ pool'.info[id].frame = pool.info[id].frame
                                           /\ pool'.info[id].qp = pool.info[id].qp
  <1>2. ASSUME UpdateEncoderInfos PROVE Kept /\ pool'.free = pool.free
    <2>1. PICK a, b, c : pool' = [pool EXCEPT !.info[pool.iCurID].uSpsId = a,
                                            !.info[pool.iCurID].uPpsId = b,
                                            !.info[pool.iCurID].offset = c]
      BY <1>2 DEF UpdateEncoderInfos
    <2> QED BY <1>1, <2>1 DEF PoolSet, InfoSet
  <1>3. ASSUME SetHLSInfos PROVE Kept /\ pool'.free = pool.free
    <2>1. pool' = [pool EXCEPT !.info[pool.iCurID].iHDRID = hdr.cur,
                               !.info[pool.iCurID].bHDRChanged = hdr.bHDRChanged]
      BY <1>3 DEF SetHLSInfos
    <2> QED BY <1>1, <2>1 DEF PoolSet, InfoSet
  <1>4. ASSUME IdsGivenBack PROVE Kept
    BY <1>1, <1>4 DEF IdsGivenBack, PoolSet
  <1>5. ASSUME pool' = pool PROVE Kept /\ pool'.free = pool.free
    BY <1>5
  <1> QED BY <1>2, <1>3, <1>4, <1>5, Writers

\* GetNextFrameInfo.
LEMMA FrameInfoTaken ==
  ASSUME EncTypes, GetFrameInfo
  PROVE  /\ pool.free # <<>> /\ pool'.iCurID = Head(pool.free) /\ pool'.free = Tail(pool.free)
         /\ Head(pool.free) \in InfoID /\ pool.free \in Seq(InfoID)
         /\ pool'.info[Head(pool.free)].frame = next
         /\ pool'.info[Head(pool.free)].qp = Now.qp
         /\ \A id \in InfoID \ {Head(pool.free)} : pool'.info[id] = pool.info[id]
  <1> DEFINE id == Head(pool.free)
  <1>1. /\ pool \in PoolSet /\ pool.info \in [InfoID -> InfoSet] /\ pool.free \in Seq(InfoID)
        /\ pool.free # <<>> /\ id \in InfoID
    BY HeadTailProperties DEF EncTypes, EncVarTypes, PoolSet, GetFrameInfo
  <1>2. pool' = [pool EXCEPT !.iCurID = id, !.free = Tail(pool.free),
                             !.info[id].frame = next, !.info[id].qp = Now.qp]
    BY <1>1 DEF GetFrameInfo, PoolSet
  <1> HIDE DEF id
  <1> QED BY <1>1, <1>2 DEF PoolSet, InfoSet, id

\* The id of a frame goes back to the pool.
LEMMA FrameInfoGiven ==
  ASSUME EncTypes, IdsGivenBack
  PROVE  pool'.free = Append(pool.free, st.info) /\ pool.free \in Seq(InfoID) /\ pool'.info = pool.info
  BY DEF EncTypes, EncVarTypes, PoolSet, IdsGivenBack

\* The slots of SourceSent.
LEMMA SlotTaken ==
  ASSUME EncTypes, AddSourceSent
  PROVE  \E s \in SourceSlot \ Sent :
            /\ SourceSent' = [SourceSent EXCEPT ![s] = <<next, pool.iCurID>>]
            /\ next \in Nat \ {0} /\ pool.iCurID \in InfoID
            /\ Sent' = Sent \cup {s}
  <1>1. SourceSent \in SourceSet /\ next \in Nat \ {0} /\ pool.iCurID \in InfoID
    BY DEF EncTypes, EncVarTypes, ThreadsAgree, AddSourceSent
  <1>2. FreeSlots \in SUBSET Nat /\ FreeSlots # {}
    BY DEF FreeSlots, SourceSlot, AddSourceSent
  <1> DEFINE s == CHOOSE x \in FreeSlots : \A t \in FreeSlots : x <= t
  <1>3. s \in FreeSlots
    BY <1>2, LeastExists
  <1>4. SourceSent' = [SourceSent EXCEPT ![s] = <<next, pool.iCurID>>]
    BY DEF AddSourceSent
  <1> HIDE DEF s
  <1>5. s \in SourceSlot \ Sent
    BY <1>3 DEF FreeSlots, Sent
  <1>6. Sent' = Sent \cup {s}
    BY <1>1, <1>4, <1>5 DEF Sent, SourceSet
  <1> QED BY <1>1, <1>4, <1>5, <1>6

\* releaseSource.
LEMMA SlotGiven ==
  ASSUME EncTypes, SlotsAgree, NEW s \in Sent, NEW id, ReleaseSource(FrameOf(s), id)
  PROVE  /\ SourceSent' = [SourceSent EXCEPT ![s] = <<0, 0>>]
         /\ Sent' = Sent \ {s}
  <1>1. SourceSent \in SourceSet
    BY DEF EncTypes, EncVarTypes
  <1>2. FrameOf(s) # 0 /\ s \in SourceSlot
    BY <1>1 DEF Sent, FrameOf, SourceSet
  <1>3. SlotOf(FrameOf(s)) = {s}
    <2>1. ASSUME NEW t \in SourceSlot, SourceSent[t][1] = FrameOf(s) PROVE t = s
      <3>1. t \in Sent
        BY <1>2, <2>1 DEF Sent
      <3> QED BY <2>1, <3>1 DEF SlotsAgree, FrameOf
    <2> QED BY <1>2, <2>1 DEF SlotOf, FrameOf
  <1>4. FirstSlotOf(FrameOf(s)) = s
    BY <1>2, <1>3 DEF FirstSlotOf, SourceSlot
  <1>5. SourceSent' = [SourceSent EXCEPT ![s] = <<0, 0>>]
    BY <1>4 DEF ReleaseSource
  <1>6. Sent' = Sent \ {s}
    BY <1>1, <1>2, <1>5 DEF Sent, SourceSet
  <1> QED BY <1>5, <1>6

\* Which actions change the slots, and how.
LEMMA SlotMoves ==
  ASSUME EncTypes, FramesAgree, [EncNext]_encVars
  PROVE  \/ SourceSent' = SourceSent /\ Sent' = Sent /\ ~AddSourceSent /\ ~FrameRefused
            /\ ~SourceReleased
         \/ AddSourceSent
         \/ /\ FrameRefused
            /\ \E s \in Sent : /\ SourceSent[s] = <<next, pool.iCurID>>
                               /\ SourceSent' = [SourceSent EXCEPT ![s] = <<0, 0>>]
                               /\ Sent' = Sent \ {s}
         \/ /\ SourceReleased
            /\ \E s \in Sent : /\ SourceSent[s] = <<st.frame, st.info>>
                               /\ SourceSent' = [SourceSent EXCEPT ![s] = <<0, 0>>]
                               /\ Sent' = Sent \ {s}
         \/ ReleaseAll /\ Sent' = {}
  <1>1. CASE FrameRefused
    <2>1. PICK s \in Sent : SourceSent[s] = <<next, pool.iCurID>>
      BY <1>1 DEF FramesAgree, CurrentAgrees, InSource, FrameRefused
    <2>2. ReleaseSource(FrameOf(s), pool.iCurID)
      BY <1>1, <2>1 DEF FrameRefused, FrameOf
    <2> QED BY <1>1, <2>1, <2>2, SlotGiven DEF FramesAgree
  <1>2. CASE SourceReleased
    <2>1. apc # "destroyed"
      BY <1>2 DEF SourceReleased, EncTypes, ThreadsAgree
    <2>2. PICK s \in Sent : SourceSent[s] = <<st.frame, st.info>>
      BY <1>2, <2>1 DEF FramesAgree, PartsHeld, HasSlot, HeldBy, Active, SourceReleased
    <2>3. ReleaseSource(FrameOf(s), st.info)
      BY <1>2, <2>2 DEF SourceReleased, FrameOf
    <2> QED BY <1>2, <2>2, <2>3, SlotGiven DEF FramesAgree
  <1>3. CASE ReleaseAll
    BY <1>3 DEF ReleaseAll, Sent
  <1>4. CASE SourceSent' = SourceSent
    <2>1. Sent' = Sent
      BY <1>4 DEF Sent
    <2> QED BY <1>1, <1>2, <1>4, <2>1
  <1> QED BY <1>1, <1>2, <1>3, <1>4, Writers

\* The last frame is in the hands of the application's thread, or pushed.
LEMMA NextMoves ==
  ASSUME EncTypes, [EncNext]_encVars
  PROVE  /\ next' = next \/ next' = next + 1
         /\ next' = next /\ InSource => InSource'
         /\ next' = next /\ InSource' => InSource \/ AddSourceSent
         /\ next' # next => ~InSource' /\ apc' # "source"
         /\ apc' = "source" => GetFrameInfo \/ apc = "source"
         /\ apc = "source" => AddSourceSent \/ apc' = "source"
         /\ GetFrameInfo => apc' = "source" /\ next' = next /\ apc = "info"
         /\ AddSourceSent => apc' = "infos" /\ next' = next /\ apc = "source"
  <1> USE AppMoves
  <1>1. /\ PutTakesSlot \/ TakeHdrID \/ ProcessEnters \/ DestroyChannel => apc = "idle"
        /\ ReleaseAll => apc = "join"
    BY DEF PutTakesSlot, TakeHdrID, ProcessEnters, DestroyChannel, ReleaseAll, Call
  <1>2. /\ GetFrameInfo => apc' = "source" /\ next' = next /\ apc = "info"
        /\ AddSourceSent => apc' = "infos" /\ next' = next /\ apc = "source"
    BY DEF GetFrameInfo, AddSourceSent, Goes
  <1>3. next' = next \/ next' = next + 1
    OBVIOUS
  <1>4. next \in Nat
    BY DEF EncTypes, ThreadsAgree
  <1>5. next' = next /\ InSource => InSource'
    BY <1>1, <1>4 DEF InSource
  <1>6. next' = next /\ InSource' => InSource \/ AddSourceSent
    BY <1>1, <1>4 DEF InSource
  <1>7. next' # next => ~InSource' /\ apc' # "source"
    BY <1>1, <1>4 DEF InSource
  <1>8. apc' = "source" => GetFrameInfo \/ apc = "source"
    BY <1>1
  <1>9. apc = "source" => AddSourceSent \/ apc' = "source"
    BY <1>1
  <1> QED BY <1>2, <1>3, <1>5, <1>6, <1>7, <1>8, <1>9

\* After AL_Common_Encoder_Destroy nothing happens.
LEMMA NothingAfterDestroy ==
  ASSUME EncTypes, [EncNext]_encVars, apc = "destroyed"
  PROVE  UNCHANGED encVars
  <1>1. cpc = "ended" /\ ~hw.alive /\ hw.bufs = <<>> /\ ~hw.eos
    BY DEF EncTypes, ThreadsAgree
  <1>2. ~CallbackThread \/ CallbackThreadEnds
    BY <1>1 DEF CallbackThread, EndEncodingEos, EndEncodingBegins, WriteSections,
                CallbackTakesSlot, CallbackHandsOver, SourceReleased, IdsGivenBack,
                TokenReleased, StreamReleased
  <1>3. ~CallbackThreadEnds
    BY <1>1 DEF CallbackThreadEnds
  <1>4. ~Firmware
    BY <1>1 DEF Firmware, EncodePart, Encoded, ReportEos
  <1>5. ~Application /\ ~DestroyChannel
    BY DEF Application, Process, DestroyChannel, ReleaseAll, PutTakesSlot, PutHandsOver,
           TakeHdrID, CopyHdr, SetParameters, ProcessRejects, ProcessEos, ProcessEnters,
           WaitReadiness, GetFrameInfo, AddSourceSent, UpdateEncoderInfos, SetHLSInfos,
           FrameSent, FrameRefused, Call
  <1> QED BY <1>2, <1>3, <1>4, <1>5 DEF EncNext, Destroyed

---------------------------------------------------------------------------
(* The slots of SourceSent *)

LEMMA SlotTypes ==
  ASSUME EncTypes, NEW s \in Sent
  PROVE  /\ s \in SourceSlot /\ FrameOf(s) \in Nat \ {0} /\ InfoOf(s) \in InfoID
         /\ SourceSent[s] = <<FrameOf(s), InfoOf(s)>>
  BY DEF EncTypes, EncVarTypes, SourceSet, Sent, FrameOf, InfoOf

LEMMA SlotsStep ==
  ASSUME EncTypes, FramesAgree, [EncNext]_encVars
  PROVE  SlotsAgree'
  <1>1. /\ program' = program /\ next \in Nat \ {0} /\ SlotsAgree /\ CurrentAgrees /\ GivingAgrees
        /\ pool.free \in Seq(InfoID)
    BY AppMoves DEF EncTypes, EncVarTypes, ThreadsAgree, PoolSet, FramesAgree
  <1> DEFINE Good(s) ==
         /\ FrameOf(s) \in DOMAIN program /\ FrameOf(s) <= next
         /\ program[FrameOf(s)].op = "frame"
         /\ InfoOf(s) \notin Free
         /\ pool.info[InfoOf(s)].frame = FrameOf(s)
         /\ pool.info[InfoOf(s)].qp = program[FrameOf(s)].qp
         /\ FrameOf(s) = next => InSource /\ InfoOf(s) = pool.iCurID
  <1>2. \A s \in Sent : Good(s)
    BY <1>1 DEF SlotsAgree
  <1>3. ASSUME SourceSent' = SourceSent, Sent' = Sent
        PROVE  \A s \in Sent : FrameOf(s)' = FrameOf(s) /\ InfoOf(s)' = InfoOf(s)
    BY <1>3 DEF FrameOf, InfoOf
  \* The pool keeps its ids and their frames.
  <1>4. CASE /\ SourceSent' = SourceSent /\ Sent' = Sent
             /\ ~AddSourceSent /\ ~GetFrameInfo /\ ~IdsGivenBack
    <2>1. pool'.free = pool.free /\ pool'.iCurID = pool.iCurID
          /\ \A id \in InfoID : /\ pool'.info[id].frame = pool.info[id].frame
                                /\ pool'.info[id].qp = pool.info[id].qp
      BY <1>4, PoolFrames
    <2>2. ASSUME NEW s \in Sent PROVE Good(s)'
      <3>1. FrameOf(s)' = FrameOf(s) /\ InfoOf(s)' = InfoOf(s) /\ InfoOf(s) \in InfoID
            /\ FrameOf(s) \in Nat
        BY <1>3, <1>4, <2>2, SlotTypes
      <3>2. Good(s)
        BY <1>2
      <3> QED BY <1>1, <2>1, <3>1, <3>2, NextMoves DEF Free
    <2> QED BY <1>1, <1>3, <1>4, <2>1, <2>2 DEF SlotsAgree
  <1>5. CASE GetFrameInfo
    <2> DEFINE id == Head(pool.free)
    <2>1. /\ pool'.free = Tail(pool.free) /\ id \in Free /\ Free' \subseteq Free
          /\ IsInjective(pool'.free)
          /\ \A i \in InfoID \ {id} : pool'.info[i] = pool.info[i]
      BY <1>1, <1>5, FrameInfoTaken, TailRange DEF SlotsAgree, Free
    <2> HIDE DEF id
    <2>2. SourceSent' = SourceSent /\ Sent' = Sent /\ next' = next /\ ~InSource
      BY <1>5 DEF GetFrameInfo, Goes, Sent, InSource
    <2>3. ASSUME NEW s \in Sent PROVE Good(s)'
      <3>1. FrameOf(s)' = FrameOf(s) /\ InfoOf(s)' = InfoOf(s) /\ InfoOf(s) \in InfoID
        BY <1>3, <2>2, <2>3, SlotTypes
      <3>2. Good(s)
        BY <1>2
      <3>3. pool'.info[InfoOf(s)] = pool.info[InfoOf(s)]
        BY <2>1, <3>1, <3>2
      <3> QED BY <1>1, <2>1, <2>2, <3>1, <3>2, <3>3
    <2> QED BY <1>1, <1>3, <2>1, <2>2, <2>3 DEF SlotsAgree
  <1>6. CASE IdsGivenBack
    <2>1. /\ st.info \in InfoID /\ st.info \notin Free /\ \A s \in Sent : InfoOf(s) # st.info
      BY <1>1, <1>6 DEF GivingAgrees, IdsGivenBack, EncTypes, ThreadsAgree, Busy
    <2>2. /\ Free' = Free \cup {st.info} /\ IsInjective(pool'.free) /\ pool'.info = pool.info
      <3>1. /\ pool'.free = Append(pool.free, st.info) /\ pool'.info = pool.info
            /\ IsInjective(pool.free)
        BY <1>1, <1>6, FrameInfoGiven DEF SlotsAgree
      <3>2. /\ Range(Append(pool.free, st.info)) = Range(pool.free) \cup {st.info}
            /\ IsInjective(Append(pool.free, st.info))
        BY <1>1, <2>1, <3>1, AppendRange DEF Free
      <3> QED BY <3>1, <3>2 DEF Free
    <2>3. /\ SourceSent' = SourceSent /\ Sent' = Sent /\ next' = next /\ apc' = apc
          /\ pool'.iCurID = pool.iCurID
      BY <1>6 DEF IdsGivenBack, Sent, appVars, EncTypes, EncVarTypes, PoolSet
    <2>4. ASSUME NEW s \in Sent PROVE Good(s)'
      <3>1. FrameOf(s)' = FrameOf(s) /\ InfoOf(s)' = InfoOf(s)
        BY <1>3, <2>3
      <3>2. Good(s)
        BY <1>2
      <3> QED BY <1>1, <2>1, <2>2, <2>3, <3>1, <3>2 DEF InSource
    <2> QED BY <1>1, <1>3, <2>2, <2>3, <2>4 DEF SlotsAgree
  <1>7. CASE AddSourceSent
    <2>1. PICK t \in SourceSlot \ Sent :
             /\ SourceSent' = [SourceSent EXCEPT ![t] = <<next, pool.iCurID>>]
             /\ next \in Nat \ {0} /\ pool.iCurID \in InfoID
             /\ Sent' = Sent \cup {t}
      BY <1>7, SlotTaken
    <2>2. apc = "source" /\ pool' = pool /\ next' = next /\ apc' = "infos"
      BY <1>7 DEF AddSourceSent, Goes
    <2>3. /\ pool.iCurID \notin Free /\ \A s \in Sent : InfoOf(s) # pool.iCurID
          /\ pool.info[pool.iCurID].frame = next /\ pool.info[pool.iCurID].qp = Now.qp
          /\ next \in DOMAIN program /\ program[next].op = "frame"
      BY <1>1, <2>2 DEF CurrentAgrees, EncTypes, ThreadsAgree, Now, Framing
    <2>4. /\ FrameOf(t)' = next /\ InfoOf(t)' = pool.iCurID
          /\ \A s \in Sent : FrameOf(s)' = FrameOf(s) /\ InfoOf(s)' = InfoOf(s)
      BY <2>1 DEF FrameOf, InfoOf, EncTypes, EncVarTypes, SourceSet, Sent
    <2>5. \A s \in Sent : FrameOf(s) # next
      BY <1>2, <2>2 DEF InSource
    <2>6. Good(t)'
      BY <1>1, <2>2, <2>3, <2>4 DEF Now, InSource, Free
    <2>7. ASSUME NEW s \in Sent PROVE Good(s)'
      <3>1. Good(s)
        BY <1>2
      <3> QED BY <1>1, <2>2, <2>4, <2>5, <3>1 DEF Free
    <2>8. \A s \in Sent' : Good(s)'
      BY <2>1, <2>6, <2>7
    <2>9. ASSUME NEW a \in Sent', NEW b \in Sent',
                 FrameOf(a)' = FrameOf(b)' \/ InfoOf(a)' = InfoOf(b)'
          PROVE  a = b
      <3>1. CASE a \in Sent /\ b \in Sent
        BY <1>1, <2>4, <2>9, <3>1 DEF SlotsAgree
      <3>2. CASE a = t /\ b \in Sent
        BY <2>3, <2>4, <2>5, <2>9, <3>2
      <3>3. CASE b = t /\ a \in Sent
        BY <2>3, <2>4, <2>5, <2>9, <3>3
      <3> QED BY <2>1, <3>1, <3>2, <3>3
    <2>10. IsInjective(pool.free)'
      BY <1>1, <2>2 DEF SlotsAgree
    <2> QED BY <2>8, <2>9, <2>10 DEF SlotsAgree
  <1>8. ASSUME NEW t \in Sent, SourceSent' = [SourceSent EXCEPT ![t] = <<0, 0>>],
               Sent' = Sent \ {t}, FrameRefused \/ SourceReleased
        PROVE  SlotsAgree'
    <2>1. pool' = pool /\ (next' = next + 1 \/ (next' = next /\ apc' = apc))
      BY <1>8 DEF FrameRefused, SourceReleased, Returns, CallbackGoes, appVars
    <2>2. \A s \in Sent' : FrameOf(s)' = FrameOf(s) /\ InfoOf(s)' = InfoOf(s)
      BY <1>8 DEF FrameOf, InfoOf, EncTypes, EncVarTypes, SourceSet, Sent
    <2>3. ASSUME NEW s \in Sent' PROVE Good(s)'
      <3>1. Good(s) /\ FrameOf(s) \in Nat
        BY <1>2, <1>8, SlotTypes
      <3> QED BY <1>1, <2>1, <2>2, <3>1 DEF Free, InSource
    <2> QED BY <1>1, <1>8, <2>1, <2>2, <2>3 DEF SlotsAgree
  <1>9. CASE Sent' = {} /\ ReleaseAll
    BY <1>1, <1>9 DEF ReleaseAll, SlotsAgree
  <1> QED BY <1>4, <1>5, <1>6, <1>7, <1>8, <1>9, SlotMoves

LEMMA CurrentStep ==
  ASSUME EncTypes, FramesAgree, [EncNext]_encVars
  PROVE  CurrentAgrees'
  <1>1. /\ program' = program /\ next \in Nat \ {0} /\ SlotsAgree /\ CurrentAgrees /\ GivingAgrees
        /\ pool.free \in Seq(InfoID)
    BY AppMoves DEF EncTypes, EncVarTypes, ThreadsAgree, PoolSet, FramesAgree
  <1>2. ASSUME apc' = "source"
        PROVE  /\ pool'.iCurID \notin Free' /\ \A s \in Sent' : InfoOf(s)' # pool'.iCurID
               /\ pool'.info[pool'.iCurID].frame = next'
               /\ pool'.info[pool'.iCurID].qp = Now.qp
    <2>1. CASE GetFrameInfo
      <3> DEFINE id == Head(pool.free)
      <3>1. /\ pool'.free = Tail(pool.free) /\ id \in Free /\ id \notin Free' /\ pool'.iCurID = id
            /\ pool'.info[id].frame = next /\ pool'.info[id].qp = Now.qp
        BY <1>1, <2>1, FrameInfoTaken, TailRange DEF SlotsAgree, Free
      <3> HIDE DEF id
      <3>2. SourceSent' = SourceSent /\ Sent' = Sent /\ next' = next
        BY <2>1 DEF GetFrameInfo, Goes, Sent
      <3>3. \A s \in Sent : InfoOf(s)' = InfoOf(s) /\ InfoOf(s) \notin Free
        BY <1>1, <3>2 DEF InfoOf, SlotsAgree
      <3> QED BY <1>1, <3>1, <3>2, <3>3
    <2>2. CASE ~GetFrameInfo
      <3>1. apc = "source" /\ next' = next /\ ~AddSourceSent /\ ~FrameRefused /\ ~ReleaseAll
        BY <1>2, <2>2, NextMoves DEF FrameRefused, ReleaseAll
      <3>2. /\ pool'.iCurID = pool.iCurID /\ pool.iCurID \in InfoID
            /\ pool'.info[pool.iCurID].frame = pool.info[pool.iCurID].frame
            /\ pool'.info[pool.iCurID].qp = pool.info[pool.iCurID].qp
        BY <2>2, <3>1, PoolFrames DEF EncTypes, ThreadsAgree
      <3>3. /\ pool.iCurID \notin Free /\ \A s \in Sent : InfoOf(s) # pool.iCurID
            /\ pool.info[pool.iCurID].frame = next
            /\ pool.info[pool.iCurID].qp = Now.qp
        BY <1>1, <3>1 DEF CurrentAgrees
      <3>4. pool.iCurID \notin Free'
        <4>1. CASE IdsGivenBack
          <5>1. st.info # pool.iCurID /\ st.info \in InfoID
            BY <1>1, <3>1, <4>1 DEF GivingAgrees, IdsGivenBack, EncTypes, ThreadsAgree, Busy
          <5>2. Range(Append(pool.free, st.info)) = Range(pool.free) \cup {st.info}
            BY <1>1, <5>1, AppendRange
          <5> QED BY <3>3, <4>1, <5>1, <5>2, FrameInfoGiven DEF Free
        <4>2. CASE ~IdsGivenBack
          BY <2>2, <3>3, <4>2, PoolFrames DEF Free
        <4> QED BY <4>1, <4>2
      <3>5. \A s \in Sent' : s \in Sent /\ InfoOf(s)' = InfoOf(s)
        BY <3>1, SlotMoves DEF InfoOf, EncTypes, EncVarTypes, SourceSet, Sent
      <3> QED BY <1>1, <3>1, <3>2, <3>3, <3>4, <3>5 DEF Now
    <2> QED BY <2>1, <2>2
  <1>3. ASSUME InSource' PROVE \E s \in Sent' : SourceSent'[s] = <<next', pool'.iCurID>>
    <2>1. CASE AddSourceSent
      <3>1. PICK t \in SourceSlot \ Sent :
             /\ SourceSent' = [SourceSent EXCEPT ![t] = <<next, pool.iCurID>>]
             /\ Sent' = Sent \cup {t}
        BY <2>1, SlotTaken
      <3>2. pool' = pool /\ next' = next
        BY <2>1 DEF AddSourceSent, Goes
      <3>3. SourceSent'[t] = <<next, pool.iCurID>>
        BY <3>1 DEF EncTypes, EncVarTypes, SourceSet
      <3> QED BY <3>1, <3>2, <3>3
    <2>2. CASE ~AddSourceSent
      <3>1. InSource /\ next' = next
        BY <1>3, <2>2, NextMoves
      <3>2. PICK s \in Sent : SourceSent[s] = <<next, pool.iCurID>>
        BY <1>1, <3>1 DEF CurrentAgrees
      <3>3. ~GetFrameInfo /\ ~FrameRefused /\ ~ReleaseAll
        BY <1>1, <3>1 DEF InSource, GetFrameInfo, FrameRefused, ReleaseAll, Returns
      <3>4. pool'.iCurID = pool.iCurID
        BY <3>3, PoolFrames
      <3>5. s \in Sent' /\ SourceSent'[s] = SourceSent[s]
        <4>1. CASE SourceReleased
          <5>1. PICK t \in Sent : /\ SourceSent[t] = <<st.frame, st.info>>
                                  /\ SourceSent' = [SourceSent EXCEPT ![t] = <<0, 0>>]
                                  /\ Sent' = Sent \ {t}
            BY <2>2, <3>3, <4>1, SlotMoves
          <5>2. st.frame < next
            BY <1>1, <4>1 DEF GivingAgrees, Busy, SourceReleased
          <5>3. s # t
            BY <1>1, <3>2, <5>1, <5>2
          <5> QED BY <5>1, <5>3 DEF EncTypes, EncVarTypes, SourceSet, Sent
        <4>2. CASE ~SourceReleased
          BY <2>2, <3>3, <4>2, SlotMoves
        <4> QED BY <4>1, <4>2
      <3> QED BY <3>1, <3>2, <3>4, <3>5
    <2> QED BY <2>1, <2>2
  <1> QED BY <1>1, <1>2, <1>3, NextMoves DEF CurrentAgrees, Now

\* The status the callback thread takes from the queue.
LEMMA StatusTaken ==
  ASSUME EncTypes, EndEncodingBegins
  PROVE  /\ hw.status \in Seq(PartSet \cup {EndOfStreamStatus}) /\ hw.status # <<>>
         /\ 1 \in DOMAIN hw.status /\ hw.status[1] \in PartSet /\ hw.status[1] # EndOfStreamStatus
         /\ st'.frame = hw.status[1].frame /\ st'.info = hw.status[1].info
         /\ st'.first = hw.status[1].first /\ st'.last = hw.status[1].last
         /\ st'.idr = hw.status[1].idr /\ st'.error = hw.status[1].error
         /\ st'.buf = ring.StreamSent[hw.status[1].streamId]
         /\ st'.streamId = hw.status[1].streamId
         /\ hw'.status = Tail(hw.status) /\ hw'.jobs = hw.jobs /\ hw'.busy = hw.busy
         /\ hw'.bufs = hw.bufs /\ hw'.eos = hw.eos
  <1>1. hw \in HwSet /\ hw.status \in Seq(PartSet \cup {EndOfStreamStatus}) /\ hw.status # <<>>
    BY DEF EncTypes, EncVarTypes, HwSet, EndEncodingBegins
  <1>2. Head(hw.status) = hw.status[1] /\ 1 \in DOMAIN hw.status
    BY <1>1, HeadTailProperties, LenProperties, EmptySeq
  <1>3. hw.status[1] # EndOfStreamStatus /\ hw.status[1] \in PartSet
    BY <1>1, <1>2 DEF EndEncodingBegins
  <1> DEFINE s == hw.status[1]
  <1>4. st' = [s EXCEPT !.buf = ring.StreamSent[s.streamId]] /\ hw' = [hw EXCEPT !.status = Tail(@)]
    BY <1>2 DEF EndEncodingBegins
  <1>5. s \in PartSet
    BY <1>3
  <1> HIDE DEF s
  <1>6. /\ st'.frame = s.frame /\ st'.info = s.info /\ st'.first = s.first /\ st'.last = s.last
        /\ st'.idr = s.idr /\ st'.error = s.error
        /\ st'.buf = ring.StreamSent[s.streamId] /\ st'.streamId = s.streamId
    BY <1>4, <1>5 DEF PartSet
  <1>7. /\ hw'.status = Tail(hw.status) /\ hw'.jobs = hw.jobs /\ hw'.busy = hw.busy
        /\ hw'.bufs = hw.bufs /\ hw'.eos = hw.eos
    BY <1>1, <1>4 DEF HwSet
  <1> QED BY <1>1, <1>2, <1>3, <1>6, <1>7 DEF s

LEMMA GivingStep ==
  ASSUME EncTypes, FramesAgree, [EncNext]_encVars
  PROVE  GivingAgrees'
  <1>1. /\ program' = program /\ next \in Nat \ {0} /\ SlotsAgree /\ CurrentAgrees /\ GivingAgrees
        /\ pool.free \in Seq(InfoID) /\ PartsHeld
    BY AppMoves DEF EncTypes, EncVarTypes, ThreadsAgree, PoolSet, FramesAgree
  <1>2. ASSUME cpc' \in {"source", "give", "post"} PROVE st'.last
    <2>1. ~EndEncodingBegins
      BY <1>2 DEF EndEncodingBegins
    <2>2. st' = st
      BY <2>1, Writers
    <2>3. CASE CallbackHandsOver
      BY <1>2, <2>2, <2>3 DEF CallbackHandsOver, CallbackGoes
    <2>4. CASE ~CallbackHandsOver
      BY <1>1, <1>2, <2>2, <2>4, CallbackMoves DEF GivingAgrees
    <2> QED BY <2>3, <2>4
  <1>3. ASSUME Busy' PROVE /\ st'.frame \in DOMAIN program /\ st'.frame < next'
                           /\ program[st'.frame].op = "frame"
    <2>1. CASE EndEncodingBegins
      <3>1. apc # "destroyed"
        BY <2>1 DEF EndEncodingBegins, EncTypes, ThreadsAgree
      <3>2. HasSlot(hw.status[1]) /\ st'.frame = hw.status[1].frame
        BY <1>1, <2>1, <3>1, StatusTaken DEF PartsHeld
      <3>3. PICK s \in Sent : FrameOf(s) = st'.frame /\ st'.frame < next
        BY <3>2 DEF HasSlot, HeldBy, FrameOf
      <3>4. next' = next
        BY <2>1 DEF EndEncodingBegins, appVars
      <3> QED BY <1>1, <3>3, <3>4 DEF SlotsAgree
    <2>2. CASE ~EndEncodingBegins
      <3>1. st' = st
        BY <2>2, Writers
      <3>2. Busy
        BY <1>3, <2>2, CallbackMoves DEF Busy
      <3>3. st.frame \in DOMAIN program /\ st.frame < next /\ program[st.frame].op = "frame"
            /\ st.frame \in Nat
        BY <1>1, <3>2 DEF GivingAgrees, EncTypes, EncVarTypes, StSet
      <3> QED BY <1>1, <3>1, <3>3, NextMoves
    <2> QED BY <2>1, <2>2
  <1>4. ASSUME cpc' = "give"
        PROVE  /\ st'.info \notin Free' /\ \A s \in Sent' : InfoOf(s)' # st'.info
               /\ apc' = "source" => st'.info # pool'.iCurID
               /\ pool'.info[st'.info].frame = st'.frame
    <2>1. CASE SourceReleased
      <3>1. PICK t \in Sent : /\ SourceSent[t] = <<st.frame, st.info>>
                              /\ SourceSent' = [SourceSent EXCEPT ![t] = <<0, 0>>]
                              /\ Sent' = Sent \ {t}
        <4>1. cpc = "source" /\ apc' = apc
          BY <2>1 DEF SourceReleased, appVars
        <4>2. ~AddSourceSent /\ ~FrameRefused /\ ~ReleaseAll
          BY <4>1 DEF AddSourceSent, FrameRefused, ReleaseAll, Goes, Returns
        <4> QED BY <2>1, <4>2, SlotMoves
      <3>2. pool' = pool /\ st' = st /\ apc' = apc
        BY <2>1 DEF SourceReleased, CallbackGoes, appVars
      <3>3. FrameOf(t) = st.frame /\ InfoOf(t) = st.info
        BY <3>1 DEF FrameOf, InfoOf
      <3>4. /\ st.info \notin Free /\ pool.info[st.info].frame = st.frame
            /\ \A s \in Sent \ {t} : InfoOf(s) # st.info
        BY <1>1, <3>3 DEF SlotsAgree
      <3>5. apc = "source" => st.info # pool.iCurID
        BY <1>1, <3>3 DEF CurrentAgrees
      <3>6. \A s \in Sent' : InfoOf(s)' = InfoOf(s)
        BY <3>1 DEF InfoOf, EncTypes, EncVarTypes, SourceSet, Sent
      <3> QED BY <3>1, <3>2, <3>4, <3>5, <3>6 DEF Free
    <2>2. CASE ~SourceReleased
      <3>1. cpc = "give" /\ st' = st /\ ~IdsGivenBack /\ st.info \in InfoID
        BY <1>4, <2>2, CallbackMoves, Writers
           DEF EndEncodingBegins, IdsGivenBack, CallbackGoes, EncTypes, ThreadsAgree, Busy
      <3>2. /\ st.info \notin Free /\ \A s \in Sent : InfoOf(s) # st.info
            /\ apc = "source" => st.info # pool.iCurID
            /\ pool.info[st.info].frame = st.frame
        BY <1>1, <3>1 DEF GivingAgrees
      <3>3. /\ st.info \notin Free' /\ pool'.info[st.info].frame = st.frame
            /\ apc' = "source" => st.info # pool'.iCurID
        <4>1. CASE GetFrameInfo
          <5>1. Head(pool.free) \in Free /\ Free' \subseteq Free
            BY <1>1, <4>1, FrameInfoTaken, TailRange DEF Free
          <5> QED BY <3>1, <3>2, <4>1, <5>1, FrameInfoTaken
        <4>2. CASE ~GetFrameInfo
          BY <3>1, <3>2, <4>2, PoolFrames, NextMoves DEF Free
        <4> QED BY <4>1, <4>2
      <3>4. \A s \in Sent' : InfoOf(s)' # st.info
        <4>1. CASE AddSourceSent
          <5>1. PICK t \in SourceSlot \ Sent :
                  /\ SourceSent' = [SourceSent EXCEPT ![t] = <<next, pool.iCurID>>]
                  /\ Sent' = Sent \cup {t}
            BY <4>1, SlotTaken
          <5>2. pool.iCurID # st.info
            BY <3>2, <4>1 DEF AddSourceSent
          <5>3. InfoOf(t)' = pool.iCurID /\ \A s \in Sent : InfoOf(s)' = InfoOf(s)
            BY <5>1 DEF InfoOf, EncTypes, EncVarTypes, SourceSet, Sent
          <5> QED BY <3>2, <5>1, <5>2, <5>3
        <4>2. CASE ~AddSourceSent
          <5>1. \A s \in Sent' : s \in Sent /\ InfoOf(s)' = InfoOf(s)
            BY <2>2, <4>2, SlotMoves DEF InfoOf, EncTypes, EncVarTypes, SourceSet, Sent
          <5> QED BY <3>2, <5>1
        <4> QED BY <4>1, <4>2
      <3> QED BY <3>1, <3>3, <3>4
    <2> QED BY <2>1, <2>2
  <1> QED BY <1>1, <1>2, <1>3, <1>4 DEF GivingAgrees

---------------------------------------------------------------------------
(* The queues of the driver *)

\* The frames that were overtaken keep their order, and what they are.
LEMMA JobsAfterIs ==
  ASSUME hw \in HwSet, NEW i \in DOMAIN hw.jobs
  PROVE  /\ JobsAfter(i) \in Seq(JobSet) /\ Len(JobsAfter(i)) = Len(hw.jobs) - 1
         /\ \A j \in DOMAIN JobsAfter(i) :
               LET k == IF j < i THEN j ELSE j + 1
               IN  /\ k \in DOMAIN hw.jobs /\ k # i
                   /\ JobsAfter(i)[j].frame = hw.jobs[k].frame
                   /\ JobsAfter(i)[j].info = hw.jobs[k].info
                   /\ JobsAfter(i)[j].parts = hw.jobs[k].parts
                   /\ JobsAfter(i)[j].restart = hw.jobs[k].restart
                   /\ JobsAfter(i)[j].overtaken
                         = IF j < i THEN hw.jobs[k].overtaken + 1 ELSE hw.jobs[k].overtaken
  <1>1. /\ hw.jobs \in Seq(JobSet) /\ Len(hw.jobs) \in Nat /\ DOMAIN hw.jobs = 1 .. Len(hw.jobs)
        /\ \A j \in 1 .. Len(hw.jobs) : hw.jobs[j] \in JobSet
    BY LenProperties, ElementOfSeq DEF HwSet
  <1>2. \A c \in JobSet : LET d == [c EXCEPT !.overtaken = @ + 1]
                         IN  /\ d \in JobSet /\ d.frame = c.frame /\ d.info = c.info
                             /\ d.parts = c.parts /\ d.restart = c.restart
                             /\ d.overtaken = c.overtaken + 1
    BY DEF JobSet
  <1> DEFINE J(j) == IF j < i THEN [hw.jobs[j] EXCEPT !.overtaken = @ + 1] ELSE hw.jobs[j + 1]
             n == Len(hw.jobs) - 1
  <1>3. n \in Nat /\ i \in 1 .. n + 1
    BY <1>1
  <1>4. \A j \in 1 .. n : J(j) \in JobSet
    BY <1>1, <1>2, <1>3
  <1>5. JobsAfter(i) = [j \in 1 .. n |-> J(j)]
    BY DEF JobsAfter
  <1>6. \A j \in 1 .. n :
           LET k == IF j < i THEN j ELSE j + 1
           IN  /\ k \in DOMAIN hw.jobs /\ k # i
               /\ J(j).frame = hw.jobs[k].frame /\ J(j).info = hw.jobs[k].info
               /\ J(j).parts = hw.jobs[k].parts /\ J(j).restart = hw.jobs[k].restart
               /\ J(j).overtaken = IF j < i THEN hw.jobs[k].overtaken + 1
                                  ELSE hw.jobs[k].overtaken
    BY <1>1, <1>2, <1>3
  <1> HIDE DEF J, n
  <1>7. JobsAfter(i) \in [1 .. n -> JobSet]
    BY <1>4, <1>5
  <1>8. JobsAfter(i) \in Seq(JobSet)
    BY <1>3, <1>7, FunctionIsSeq
  <1>9. Len(JobsAfter(i)) = n /\ DOMAIN JobsAfter(i) = 1 .. n
    BY <1>3, <1>5, <1>8, LenProperties
  <1>10. \A j \in 1 .. n : JobsAfter(i)[j] = J(j)
    BY <1>5
  <1> QED BY <1>6, <1>8, <1>9, <1>10 DEF n

\* The firmware encodes a part of a frame.
LEMMA PartEncoded ==
  ASSUME EncTypes, EncodePart
  PROVE  \E job \in JobSet, first \in BOOLEAN, e \in BOOLEAN :
            /\ hw.bufs # <<>> /\ hw.alive
            /\ hw'.bufs = Tail(hw.bufs) /\ hw'.eos = hw.eos
            /\ hw'.status = Append(hw.status, Status(job, first, e))
            /\ Status(job, first, e) \in PartSet
            /\ hw'.busy = IF job.parts = 1 THEN <<>> ELSE <<NextPart(job)>>
            /\ NextPart(job).frame = job.frame /\ NextPart(job).info = job.info
            /\ (e = FALSE \/ e = Errors)
            /\ \/ hw.busy = <<job>> /\ first = FALSE /\ hw'.jobs = hw.jobs
               \/ /\ hw.busy = <<>> /\ first = TRUE
                  /\ \E i \in DOMAIN hw.jobs :
                        MayEncode(i) /\ job = hw.jobs[i] /\ hw'.jobs = JobsAfter(i)
  <1>1. /\ hw \in HwSet /\ Len(hw.busy) <= 1 /\ (~hw.alive => hw.bufs = <<>>)
        /\ hw.bufs \in Seq((0 .. NumStream) \X Slot)
    BY DEF EncTypes, EncVarTypes, ThreadsAgree, HwSet
  <1>2. PICK job \in JobSet, rest \in Seq(JobSet), first \in BOOLEAN, e \in BOOLEAN :
            /\ hw.bufs # <<>>
            /\ hw' = [hw EXCEPT !.jobs = rest, !.bufs = Tail(hw.bufs),
                                !.status = Append(hw.status, Status(job, first, e)),
                                !.busy = IF job.parts = 1 THEN <<>> ELSE <<NextPart(job)>>]
            /\ (e = FALSE \/ e = Errors)
            /\ \/ hw.busy = <<job>> /\ first = FALSE /\ rest = hw.jobs
               \/ /\ hw.busy = <<>> /\ first = TRUE
                  /\ \E i \in DOMAIN hw.jobs :
                        MayEncode(i) /\ job = hw.jobs[i] /\ rest = JobsAfter(i)
    BY <1>1, EncodePartIs
  <1> DEFINE b == IF job.parts = 1 THEN <<>> ELSE <<NextPart(job)>>
             s == Append(hw.status, Status(job, first, e))
  <1>3. Status(job, first, e) \in PartSet
    <2>1. Head(hw.bufs) \in (0 .. NumStream) \X Slot
      BY <1>1, <1>2, HeadTailProperties
    <2> QED BY <2>1 DEF Status, PartSet, JobSet
  <1>4. hw' = [hw EXCEPT !.jobs = rest, !.bufs = Tail(hw.bufs), !.status = s, !.busy = b]
    BY <1>2
  <1> HIDE DEF b, s
  <1>5. /\ hw'.jobs = rest /\ hw'.bufs = Tail(hw.bufs) /\ hw'.status = s /\ hw'.busy = b
        /\ hw'.eos = hw.eos
    BY <1>1, <1>4 DEF HwSet
  <1>6. NextPart(job).frame = job.frame /\ NextPart(job).info = job.info
    BY DEF NextPart, JobSet
  <1> QED BY <1>1, <1>2, <1>3, <1>5, <1>6 DEF b, s

\* Who changes the queues of the driver.
LEMMA QueueMoves ==
  ASSUME EncTypes, [EncNext]_encVars
  PROVE  \/ /\ FrameSent /\ hw'.jobs = Append(hw.jobs, Job) /\ Job \in JobSet
            /\ hw'.busy = hw.busy /\ hw'.status = hw.status
         \/ EncodePart
         \/ /\ ReportEos /\ hw'.status = Append(hw.status, EndOfStreamStatus)
            /\ hw'.jobs = hw.jobs /\ hw'.busy = hw.busy
         \/ /\ EndEncodingEos \/ EndEncodingBegins
            /\ hw.status # <<>> /\ hw'.status = Tail(hw.status)
            /\ hw'.jobs = hw.jobs /\ hw'.busy = hw.busy
         \/ /\ DestroyChannel
            /\ hw'.jobs = <<>> /\ hw'.busy = <<>> /\ hw'.status = hw.status
         \/ hw'.jobs = hw.jobs /\ hw'.busy = hw.busy /\ hw'.status = hw.status
            /\ ~EndEncodingEos /\ ~EndEncodingBegins

  <1>1. hw \in HwSet /\ ThreadsAgree
    BY DEF EncTypes, EncVarTypes
  <1>2. ASSUME FrameSent
        PROVE  /\ hw'.jobs = Append(hw.jobs, Job) /\ Job \in JobSet
               /\ hw'.busy = hw.busy /\ hw'.status = hw.status
    <2>1. hw' = [hw EXCEPT !.jobs = Append(hw.jobs, Job), !.fresh = FALSE]
      BY <1>1, <1>2 DEF FrameSent, HwSet
    <2>2. Job \in JobSet
      <3>1. hw' \in HwSet /\ hw'.jobs = Append(hw.jobs, Job)
        BY <1>1, <2>1, <1>2, HwType DEF HwSet
      <3>2. hw'.jobs \in Seq(JobSet) /\ hw.jobs \in Seq(JobSet)
        BY <1>1, <3>1 DEF HwSet
      <3>3. hw'.jobs[Len(hw.jobs) + 1] = Job /\ Len(hw.jobs) + 1 \in 1 .. Len(hw'.jobs)
        BY <3>1, <3>2
      <3> QED BY <3>2, <3>3, ElementOfSeq
    <2> QED BY <1>1, <2>1, <2>2 DEF HwSet
  <1>3. ASSUME ReportEos
        PROVE  /\ hw'.status = Append(hw.status, EndOfStreamStatus)
               /\ hw'.jobs = hw.jobs /\ hw'.busy = hw.busy
    BY <1>1, <1>3 DEF ReportEos, HwSet
  <1>4. ASSUME EndEncodingEos \/ EndEncodingBegins
        PROVE  /\ hw.status # <<>> /\ hw'.status = Tail(hw.status)
               /\ hw'.jobs = hw.jobs /\ hw'.busy = hw.busy
    BY <1>1, <1>4 DEF EndEncodingEos, EndEncodingBegins, HwSet
  <1>5. ASSUME DestroyChannel
        PROVE  hw'.jobs = <<>> /\ hw'.busy = <<>> /\ hw'.status = hw.status
    BY <1>1, <1>5 DEF DestroyChannel, HwSet
  <1>6. ASSUME PutHandsOver \/ CallbackHandsOver \/ ProcessEos
        PROVE  hw'.jobs = hw.jobs /\ hw'.busy = hw.busy /\ hw'.status = hw.status
    BY <1>1, <1>6 DEF PutHandsOver, CallbackHandsOver, HandOver, ProcessEos, HwSet
  <1> QED BY <1>2, <1>3, <1>4, <1>5, <1>6, Writers

---------------------------------------------------------------------------
(* The parts of the frames *)

\* A frame keeps its slot until its last part has been given back.
LEMMA SlotKept ==
  ASSUME EncTypes, FramesAgree, [EncNext]_encVars, apc' # "destroyed",
         NEW n \in Nat, NEW id, HeldBy(n, id), SourceReleased => n # st.frame
  PROVE  HeldBy(n, id)'
  <1>1. next \in Nat /\ n < next /\ SourceSent \in SourceSet
    BY DEF HeldBy, EncTypes, EncVarTypes, ThreadsAgree
  <1>2. PICK s \in Sent : SourceSent[s] = <<n, id>>
    BY DEF HeldBy
  <1>3. s \in Sent' /\ SourceSent'[s] = <<n, id>>
    <2>1. CASE AddSourceSent
      <3>1. PICK t \in SourceSlot \ Sent :
              /\ SourceSent' = [SourceSent EXCEPT ![t] = <<next, pool.iCurID>>]
              /\ Sent' = Sent \cup {t}
        BY <2>1, SlotTaken
      <3> QED BY <1>1, <1>2, <3>1 DEF SourceSet, Sent
    <2>2. CASE ~AddSourceSent
      <3>1. ~ReleaseAll
        BY DEF ReleaseAll, Goes
      <3>2. \/ SourceSent' = SourceSent /\ Sent' = Sent
            \/ \E t \in Sent : /\ SourceSent[t][1] # n
                               /\ SourceSent' = [SourceSent EXCEPT ![t] = <<0, 0>>]
                               /\ Sent' = Sent \ {t}
        BY <1>1, <2>2, <3>1, SlotMoves
      <3>3. CASE SourceSent' = SourceSent /\ Sent' = Sent
        BY <1>2, <3>3
      <3>4. ASSUME NEW t \in Sent, SourceSent[t][1] # n,
                   SourceSent' = [SourceSent EXCEPT ![t] = <<0, 0>>], Sent' = Sent \ {t}
            PROVE  s \in Sent' /\ SourceSent'[s] = <<n, id>>
        <4>1. s # t
          BY <1>2, <3>4
        <4> QED BY <1>1, <1>2, <3>4, <4>1 DEF SourceSet, Sent
      <3> QED BY <3>2, <3>3, <3>4
    <2> QED BY <2>1, <2>2
  <1>4. n < next'
    BY <1>1, NextMoves
  <1> QED BY <1>3, <1>4 DEF HeldBy

\* Appending and taking, by place.
LEMMA AppendPlaces ==
  ASSUME NEW S, NEW q \in Seq(S), NEW e
  PROVE  /\ DOMAIN q = 1 .. Len(q) /\ Len(q) \in Nat /\ Len(Append(q, e)) = Len(q) + 1
         /\ DOMAIN Append(q, e) = 1 .. Len(q) + 1
         /\ \A i \in 1 .. Len(q) : Append(q, e)[i] = q[i] /\ q[i] \in S
         /\ Append(q, e)[Len(q) + 1] = e
  <1>1. q \in Seq(S \cup {e}) /\ \A i \in 1 .. Len(q) : q[i] \in S
    BY SeqMonotonic, ElementOfSeq
  <1> QED BY <1>1, AppendProperties, LenProperties

LEMMA TailPlaces ==
  ASSUME NEW S, NEW q \in Seq(S), q # <<>>
  PROVE  /\ DOMAIN q = 1 .. Len(q) /\ Len(q) \in Nat \ {0} /\ Len(Tail(q)) = Len(q) - 1
         /\ DOMAIN Tail(q) = 1 .. Len(q) - 1
         /\ \A i \in 1 .. Len(q) - 1 : Tail(q)[i] = q[i + 1]
         /\ \A i \in 1 .. Len(q) : q[i] \in S
  BY HeadTailProperties, LenProperties, EmptySeq, ElementOfSeq

LEMMA HeldStep ==
  ASSUME EncTypes, FramesAgree, [EncNext]_encVars
  PROVE  PartsHeld'
  <1> SUFFICES ASSUME apc' # "destroyed"
               PROVE  /\ \A i \in DOMAIN hw'.jobs : HasSlot(hw.jobs[i])'
                      /\ \A i \in DOMAIN hw'.busy : HasSlot(hw.busy[i])'
                      /\ \A i \in DOMAIN hw'.status :
                            hw'.status[i] # EndOfStreamStatus => HasSlot(hw.status[i])'
                      /\ Active' => HasSlot(st)'
    BY DEF PartsHeld
  <1>1. apc # "destroyed"
    BY NothingAfterDestroy DEF encVars, appVars
  <1>2. /\ hw \in HwSet /\ st \in StSet /\ next \in Nat /\ hw.jobs \in Seq(JobSet) /\ hw.busy \in Seq(JobSet)
        /\ hw.status \in Seq(PartSet \cup {EndOfStreamStatus}) /\ Len(hw.busy) <= 1
        /\ hw' \in HwSet /\ Len(hw'.busy) <= 1
    BY HwType DEF EncTypes, EncVarTypes, ThreadsAgree, HwSet
  <1>3. /\ \A i \in DOMAIN hw.jobs : HasSlot(hw.jobs[i]) /\ hw.jobs[i].frame \in Nat
        /\ \A i \in DOMAIN hw.busy : HasSlot(hw.busy[i]) /\ hw.busy[i].frame \in Nat
        /\ \A i \in DOMAIN hw.status :
              hw.status[i] # EndOfStreamStatus => HasSlot(hw.status[i]) /\ hw.status[i].frame \in Nat
        /\ Active => HasSlot(st) /\ st.frame \in Nat
    <2>1. \A c \in JobSet : c.frame \in Nat
      BY DEF JobSet
    <2>2. \A c \in PartSet : c.frame \in Nat
      BY DEF PartSet
    <2>3. st.frame \in Nat
      BY <1>2 DEF StSet
    <2>4. PartsHeld
      BY DEF FramesAgree
    <2> QED BY <1>1, <1>2, <2>1, <2>2, <2>3, <2>4 DEF PartsHeld
  <1> DEFINE Kept(p) == p.frame < next' /\ \E s \in Sent' : SourceSent'[s] = <<p.frame, p.info>>
  <1>4. ASSUME NEW n \in Nat, NEW id, HeldBy(n, id), SourceReleased => n # st.frame
        PROVE  n < next' /\ \E s \in Sent' : SourceSent'[s] = <<n, id>>
    BY <1>4, SlotKept DEF HeldBy
  <1>5. SourceReleased => Active /\ ~Active' /\ st.last
    BY DEF SourceReleased, CallbackGoes, Active, FramesAgree, GivingAgrees
  <1>6. ASSUME NEW i \in DOMAIN hw.jobs PROVE Kept(hw.jobs[i])
    <2>1. SourceReleased => hw.jobs[i].frame # st.frame
      BY <1>5 DEF FramesAgree, PartsInOrder, JobsDiffer
    <2> QED BY <1>3, <1>4, <2>1 DEF HasSlot
  <1>7. ASSUME NEW i \in DOMAIN hw.busy PROVE Kept(hw.busy[i])
    <2>1. SourceReleased => hw.busy[i].frame # st.frame
      BY <1>5 DEF FramesAgree, PartsInOrder
    <2> QED BY <1>3, <1>4, <2>1 DEF HasSlot
  <1>8. ASSUME NEW i \in DOMAIN hw.status, hw.status[i] # EndOfStreamStatus
        PROVE  Kept(hw.status[i])
    <2>1. SourceReleased => hw.status[i].frame # st.frame
      BY <1>5 DEF FramesAgree, PartsInOrder
    <2> QED BY <1>3, <1>4, <1>8, <2>1 DEF HasSlot
  <1>9. ASSUME Active, ~SourceReleased PROVE Kept(st)
    BY <1>3, <1>4, <1>9 DEF HasSlot
  <1>10. ASSUME Active' PROVE Kept(st')
    <2>1. CASE EndEncodingBegins
      <3>1. Kept(hw.status[1]) /\ st'.frame = hw.status[1].frame /\ st'.info = hw.status[1].info
        BY <1>8, <2>1, StatusTaken
      <3> QED BY <3>1
    <2>2. CASE ~EndEncodingBegins
      <3>1. st' = st
        BY <2>2, Writers
      <3>2. Active /\ ~SourceReleased
        BY <1>5, <1>10, <2>2, CallbackMoves DEF Active
      <3> QED BY <1>9, <3>1, <3>2
    <2> QED BY <2>1, <2>2
  <1> SUFFICES /\ \A i \in DOMAIN hw'.jobs : Kept(hw'.jobs[i])
               /\ \A i \in DOMAIN hw'.busy : Kept(hw'.busy[i])
               /\ \A i \in DOMAIN hw'.status :
                     hw'.status[i] # EndOfStreamStatus => Kept(hw'.status[i])
    BY <1>10 DEF HasSlot, HeldBy
  <1>11. CASE FrameSent
    <2>1. hw'.jobs = Append(hw.jobs, Job) /\ hw'.busy = hw.busy /\ hw'.status = hw.status
      BY <1>11, QueueMoves DEF FrameSent, EncodePart, ReportEos, EndEncodingEos,
            EndEncodingBegins, DestroyChannel, Goes, Returns
    <2>2. Kept(Job)
      <3>1. \E s \in Sent : SourceSent[s] = <<next, pool.iCurID>>
        BY <1>11 DEF FramesAgree, CurrentAgrees, InSource, FrameSent
      <3>2. SourceSent' = SourceSent /\ Sent' = Sent /\ next' = next + 1
        BY <1>11 DEF FrameSent, Sent, Returns
      <3>3. Job.frame = next /\ Job.info = pool.iCurID
        BY DEF Job
      <3>4. next < next'
        BY <1>2, <3>2
      <3> QED BY <3>1, <3>2, <3>3, <3>4
    <2> HIDE DEF Kept
    <2>3. \A i \in DOMAIN hw'.jobs : Kept(hw'.jobs[i])
      BY <1>2, <1>6, <2>1, <2>2, AppendPlaces
    <2> QED BY <1>7, <1>8, <2>1, <2>3
  <1>12. CASE EncodePart
    <2>1. PICK job \in JobSet, first \in BOOLEAN, e \in BOOLEAN :
            /\ hw'.status = Append(hw.status, Status(job, first, e))
            /\ hw'.busy = IF job.parts = 1 THEN <<>> ELSE <<NextPart(job)>>
            /\ NextPart(job).frame = job.frame /\ NextPart(job).info = job.info
            /\ \/ hw.busy = <<job>> /\ hw'.jobs = hw.jobs
               \/ \E i \in DOMAIN hw.jobs : job = hw.jobs[i] /\ hw'.jobs = JobsAfter(i)
      BY <1>12, PartEncoded
    <2>2. Kept(job) /\ \A i \in DOMAIN hw'.jobs : Kept(hw'.jobs[i])
      <3>1. CASE hw.busy = <<job>> /\ hw'.jobs = hw.jobs
        <4>1. 1 \in DOMAIN hw.busy /\ hw.busy[1] = job
          BY <3>1
        <4> HIDE DEF Kept
        <4> QED BY <1>6, <1>7, <3>1, <4>1
      <3>2. ASSUME NEW i \in DOMAIN hw.jobs, job = hw.jobs[i], hw'.jobs = JobsAfter(i)
            PROVE  Kept(job) /\ \A j \in DOMAIN hw'.jobs : Kept(hw'.jobs[j])
        <4>1. Kept(job)
          BY <1>6, <3>2
        <4>2. ASSUME NEW j \in DOMAIN hw'.jobs PROVE Kept(hw'.jobs[j])
          <5>1. PICK k \in DOMAIN hw.jobs : /\ hw'.jobs[j].frame = hw.jobs[k].frame
                                            /\ hw'.jobs[j].info = hw.jobs[k].info
            <6> DEFINE k == IF j < i THEN j ELSE j + 1
            <6>1. /\ k \in DOMAIN hw.jobs
                  /\ JobsAfter(i)[j].frame = hw.jobs[k].frame
                  /\ JobsAfter(i)[j].info = hw.jobs[k].info
              BY <1>2, <3>2, <4>2, JobsAfterIs
            <6> HIDE DEF k
            <6> QED BY <3>2, <6>1
          <5> QED BY <1>6, <5>1
        <4> QED BY <4>1, <4>2
      <3> QED BY <2>1, <3>1, <3>2
    <2>3. Kept(NextPart(job)) /\ Kept(Status(job, first, e))
      BY <2>1, <2>2 DEF Status
    <2> HIDE DEF Kept
    <2>4. \A i \in DOMAIN hw'.busy : Kept(hw'.busy[i])
      BY <2>1, <2>3
    <2>5. \A i \in DOMAIN hw'.status : hw'.status[i] # EndOfStreamStatus => Kept(hw'.status[i])
      BY <1>2, <1>8, <2>1, <2>3, AppendPlaces
    <2> QED BY <2>2, <2>4, <2>5
  <1>13. CASE ReportEos
    <2>1. hw'.status = Append(hw.status, EndOfStreamStatus) /\ hw'.jobs = hw.jobs /\ hw'.busy = hw.busy
      BY <1>2, <1>13 DEF ReportEos, HwSet
    <2> HIDE DEF Kept
    <2>2. \A i \in DOMAIN hw'.status : hw'.status[i] # EndOfStreamStatus => Kept(hw'.status[i])
      BY <1>2, <1>8, <2>1, AppendPlaces
    <2> QED BY <1>6, <1>7, <2>1, <2>2
  <1>14. CASE /\ hw.status # <<>> /\ hw'.status = Tail(hw.status)
              /\ hw'.jobs = hw.jobs /\ hw'.busy = hw.busy
    <2> HIDE DEF Kept
    <2>1. \A i \in DOMAIN hw'.status : hw'.status[i] # EndOfStreamStatus => Kept(hw'.status[i])
      BY <1>2, <1>8, <1>14, TailPlaces
    <2> QED BY <1>6, <1>7, <1>14, <2>1
  <1>15. CASE hw'.jobs = <<>> /\ hw'.busy = <<>> /\ hw'.status = hw.status
    <2> HIDE DEF Kept
    <2> QED BY <1>8, <1>15
  <1>16. CASE hw'.jobs = hw.jobs /\ hw'.busy = hw.busy /\ hw'.status = hw.status
    <2> HIDE DEF Kept
    <2> QED BY <1>6, <1>7, <1>8, <1>16
  <1> QED BY <1>11, <1>12, <1>13, <1>14, <1>15, <1>16, QueueMoves

---------------------------------------------------------------------------
(* The order of the parts *)

\* PartsInOrder of the jobs J, the job B that is being encoded, the statuses
\* S, and the status c of the callback thread if it has one (a).
Differ(J, B, S, a, c) ==
    \A i \in DOMAIN J :
        /\ \A j \in DOMAIN J : J[j].frame = J[i].frame => i = j
        /\ \A j \in DOMAIN B : B[j].frame # J[i].frame
        /\ \A j \in DOMAIN S : S[j].frame # J[i].frame
        /\ a => c.frame # J[i].frame
LastIsLast(B, S, a, c) ==
    /\ \A i \in DOMAIN B :
          /\ \A j \in DOMAIN S : S[j].frame = B[i].frame => ~S[j].last
          /\ a /\ c.frame = B[i].frame => ~c.last
    /\ \A i \in DOMAIN S :
          /\ \A j \in DOMAIN S :
                j < i /\ S[j].frame = S[i].frame => ~S[j].last /\ ~S[i].first
          /\ a /\ c.frame = S[i].frame => ~c.last /\ ~S[i].first
InOrder(J, B, S, a, c) == Differ(J, B, S, a, c) /\ LastIsLast(B, S, a, c)

LEMMA InOrderIs ==
  PartsInOrder <=> InOrder(hw.jobs, hw.busy, hw.status, Active, st)
  BY DEF PartsInOrder, JobsDiffer, InOrder, Differ, LastIsLast

\* A new frame is pushed.
LEMMA OrderSent ==
  ASSUME NEW J \in Seq(JobSet), NEW B, NEW S, NEW a, NEW c, InOrder(J, B, S, a, c), NEW job,
         \A i \in DOMAIN J : J[i].frame # job.frame,
         \A i \in DOMAIN B : B[i].frame # job.frame,
         \A i \in DOMAIN S : S[i].frame # job.frame,
         a => c.frame # job.frame
  PROVE  InOrder(Append(J, job), B, S, a, c)
  <1> DEFINE K == Append(J, job)
             n == Len(J)
  <1>1. /\ DOMAIN J = 1 .. n /\ n \in Nat /\ DOMAIN K = 1 .. n + 1
        /\ \A i \in 1 .. n : K[i] = J[i]
        /\ K[n + 1] = job
    BY AppendPlaces
  <1> HIDE DEF K, n
  <1>2. \A i \in DOMAIN K : i \in DOMAIN J \/ i = n + 1
    BY <1>1
  <1>3. \A i, j \in DOMAIN K : K[j].frame = K[i].frame => i = j
    BY <1>1, <1>2 DEF InOrder, Differ, LastIsLast
  <1>4. \A i \in DOMAIN K : /\ \A j \in DOMAIN B : B[j].frame # K[i].frame
                            /\ \A j \in DOMAIN S : S[j].frame # K[i].frame
                            /\ a => c.frame # K[i].frame
    BY <1>1, <1>2 DEF InOrder, Differ, LastIsLast
  <1>5. Differ(K, B, S, a, c)
    <2>1. ASSUME NEW i \in DOMAIN K
          PROVE  /\ \A j \in DOMAIN K : K[j].frame = K[i].frame => i = j
                 /\ \A j \in DOMAIN B : B[j].frame # K[i].frame
                 /\ \A j \in DOMAIN S : S[j].frame # K[i].frame
                 /\ a => c.frame # K[i].frame
      BY <1>3, <1>4
    <2> QED BY <2>1, Zenon DEF Differ
  <1>6. InOrder(K, B, S, a, c)
    BY <1>5 DEF InOrder
  <1> QED BY <1>6 DEF K

\* A part p of a frame is encoded: its status is queued, and the frame stays
\* with the firmware (C) but for the last part.  The frames K that are left
\* are those of J at the places k.
Remain(J, K, p, k) ==
    /\ \A i \in DOMAIN K : k[i] \in DOMAIN J /\ K[i].frame = J[k[i]].frame
    /\ \A i, j \in DOMAIN K : k[i] = k[j] => i = j
    /\ \A i \in DOMAIN K : K[i].frame # p.frame
Follows(p, S, C, a, c) ==
    /\ \A i \in DOMAIN S : S[i].frame = p.frame => ~S[i].last /\ ~p.first
    /\ a /\ c.frame = p.frame => ~c.last /\ ~p.first
    /\ \A i \in DOMAIN C : C[i].frame = p.frame /\ ~p.last
LEMMA OrderEncoded ==
  ASSUME NEW T, NEW J, NEW B, NEW S \in Seq(T), NEW a, NEW c, InOrder(J, B, S, a, c),
         NEW K, NEW C, NEW p, NEW k, Remain(J, K, p, k), Follows(p, S, C, a, c)
  PROVE  InOrder(K, C, Append(S, p), a, c)
  <1> DEFINE U == Append(S, p)
             n == Len(S)
  <1>1. /\ DOMAIN S = 1 .. n /\ n \in Nat /\ DOMAIN U = 1 .. n + 1
        /\ \A i \in 1 .. n : U[i] = S[i]
        /\ U[n + 1] = p
    BY AppendPlaces
  <1> HIDE DEF U, n
  <1>2. \A i \in DOMAIN U : i \in DOMAIN S \/ i = n + 1
    BY <1>1
  <1>3. \A i \in DOMAIN K :
          /\ \A j \in DOMAIN K : K[j].frame = K[i].frame => i = j
          /\ \A j \in DOMAIN C : C[j].frame # K[i].frame
          /\ \A j \in DOMAIN U : U[j].frame # K[i].frame
          /\ a => c.frame # K[i].frame
    <2>0. \A i \in DOMAIN K : K[i].frame # p.frame
      BY DEF Remain
    <2>1. ASSUME NEW i \in DOMAIN K
          PROVE  /\ \A j \in DOMAIN K : K[j].frame = K[i].frame => i = j
                 /\ \A j \in DOMAIN S : S[j].frame # K[i].frame
                 /\ a => c.frame # K[i].frame
      BY <2>1 DEF InOrder, Differ, LastIsLast, Remain, Follows
    <2>2. ASSUME NEW i \in DOMAIN K, NEW j \in DOMAIN U PROVE U[j].frame # K[i].frame
      <3>1. CASE j \in DOMAIN S
        BY <1>1, <2>1, <3>1
      <3>2. CASE j = n + 1
        BY <1>1, <2>0, <3>2
      <3> QED BY <1>2, <3>1, <3>2
    <2>3. ASSUME NEW i \in DOMAIN K, NEW j \in DOMAIN C PROVE C[j].frame # K[i].frame
      BY <2>0 DEF Follows
    <2> QED BY <2>1, <2>2, <2>3
  <1>4. \A i \in DOMAIN C :
          /\ \A j \in DOMAIN U : U[j].frame = C[i].frame => ~U[j].last
          /\ a /\ c.frame = C[i].frame => ~c.last
    BY <1>1, <1>2 DEF Follows
  <1>5. \A i \in DOMAIN U :
          /\ \A j \in DOMAIN U :
                j < i /\ U[j].frame = U[i].frame => ~U[j].last /\ ~U[i].first
          /\ a /\ c.frame = U[i].frame => ~c.last /\ ~U[i].first
    BY <1>1, <1>2 DEF InOrder, Differ, LastIsLast, Remain, Follows
  <1>6. InOrder(K, C, U, a, c)
    BY <1>3, <1>4, <1>5 DEF InOrder, Differ, LastIsLast, Remain, Follows
  <1> QED BY <1>6 DEF U

\* A status leaves the queue; it is the callback thread's from then on, or
\* is nobody's.
LEMMA OrderTaken ==
  ASSUME NEW T, NEW J, NEW B, NEW S \in Seq(T), S # <<>>, NEW a, NEW c, InOrder(J, B, S, a, c),
         NEW b, NEW d,
         \/ b => a /\ d = c
         \/ d.frame = S[1].frame /\ d.last = S[1].last
  PROVE  InOrder(J, B, Tail(S), b, d)
  <1> DEFINE U == Tail(S)
             n == Len(S)
  <1>1. /\ DOMAIN S = 1 .. n /\ n \in Nat \ {0} /\ DOMAIN U = 1 .. n - 1
        /\ \A i \in 1 .. n - 1 : U[i] = S[i + 1]
    BY TailPlaces
  <1> HIDE DEF U, n
  <1>2. \A i \in DOMAIN U : i + 1 \in DOMAIN S /\ i + 1 > 1 /\ U[i] = S[i + 1]
    BY <1>1
  <1>3. 1 \in DOMAIN S /\ \A i, j \in DOMAIN U : j < i => j + 1 < i + 1
    BY <1>1
  <1>4. InOrder(J, B, U, b, d)
    <2>1. CASE b => a /\ d = c
      BY <1>2, <1>3, <2>1 DEF InOrder, Differ, LastIsLast
    <2>2. CASE d.frame = S[1].frame /\ d.last = S[1].last
      BY <1>2, <1>3, <2>2 DEF InOrder, Differ, LastIsLast
    <2> QED BY <2>1, <2>2
  <1> QED BY <1>4 DEF U

\* The callback thread is done with its part.
LEMMA OrderLeft ==
  ASSUME NEW J, NEW B, NEW S, NEW a, NEW c, InOrder(J, B, S, a, c), NEW b, b => a
  PROVE  InOrder(J, B, S, b, c) /\ InOrder(<<>>, <<>>, S, b, c)
  BY DEF InOrder, Differ, LastIsLast

LEMMA OrderStep ==
  ASSUME EncTypes, FramesAgree, [EncNext]_encVars
  PROVE  PartsInOrder'
  <1>1. /\ hw \in HwSet /\ st \in StSet /\ next \in Nat \ {0} /\ hw.jobs \in Seq(JobSet)
        /\ hw.busy \in Seq(JobSet) /\ hw.status \in Seq(PartSet \cup {EndOfStreamStatus})
        /\ PartsHeld
    BY DEF EncTypes, EncVarTypes, ThreadsAgree, HwSet, FramesAgree
  <1>2. InOrder(hw.jobs, hw.busy, hw.status, Active, st)
    BY InOrderIs DEF FramesAgree
  <1> SUFFICES InOrder(hw'.jobs, hw'.busy, hw'.status, Active', st')
    BY DEF PartsInOrder, JobsDiffer, InOrder, Differ, LastIsLast
  <1>3. CASE EndEncodingBegins
    <2>1. /\ hw.status # <<>> /\ hw'.status = Tail(hw.status) /\ hw'.jobs = hw.jobs
          /\ hw'.busy = hw.busy /\ st'.frame = hw.status[1].frame /\ st'.last = hw.status[1].last
      BY <1>3, StatusTaken
    <2> QED BY <1>1, <1>2, <2>1, OrderTaken
  <1>4. CASE ~EndEncodingBegins
    <2>1. st' = st /\ (Active' => Active)
      BY <1>4, Writers, CallbackMoves DEF Active
    <2>2. CASE FrameSent
      <3>1. hw'.jobs = Append(hw.jobs, Job) /\ hw'.busy = hw.busy /\ hw'.status = hw.status
        BY <2>2, QueueMoves DEF FrameSent, EncodePart, ReportEos, EndEncodingEos,
              EndEncodingBegins, DestroyChannel, Goes, Returns
      <3>2. Job.frame = next /\ apc # "destroyed"
        BY <2>2 DEF Job, FrameSent
      <3>3. /\ \A i \in DOMAIN hw.jobs : hw.jobs[i].frame # Job.frame
            /\ \A i \in DOMAIN hw.busy : hw.busy[i].frame # Job.frame
            /\ Active => st.frame # Job.frame
        <4>1. \A n \in Nat : n < next => n # Job.frame
          BY <3>2, <1>1
        <4>2. /\ \A i \in DOMAIN hw.jobs : hw.jobs[i].frame \in Nat
              /\ \A i \in DOMAIN hw.busy : hw.busy[i].frame \in Nat
              /\ st.frame \in Nat
          <5>1. (\A c \in JobSet : c.frame \in Nat) /\ st.frame \in Nat
            BY <1>1 DEF JobSet, StSet
          <5> QED BY <1>1, <5>1
        <4> QED BY <1>1, <3>2, <4>1, <4>2 DEF PartsHeld, HasSlot, HeldBy
      <3>4. ASSUME NEW i \in DOMAIN hw.status PROVE hw.status[i].frame # Job.frame
        <4>1. CASE hw.status[i] = EndOfStreamStatus
          BY <1>1, <3>2, <4>1 DEF EndOfStreamStatus
        <4>2. CASE hw.status[i] # EndOfStreamStatus
          <5>1. hw.status[i].frame < next
            BY <1>1, <3>2, <4>2 DEF PartsHeld, HasSlot, HeldBy
          <5>2. hw.status[i] \in PartSet
            BY <1>1, <4>2
          <5>3. hw.status[i].frame \in Nat
            BY <5>2 DEF PartSet
          <5> QED BY <1>1, <3>2, <5>1, <5>3
        <4> QED BY <4>1, <4>2
      <3>5. InOrder(Append(hw.jobs, Job), hw.busy, hw.status, Active, st)
        BY <1>1, <1>2, <3>3, <3>4, OrderSent
      <3> QED BY <2>1, <3>1, <3>5, OrderLeft
    <2>3. CASE EncodePart
      <3> DEFINE T == PartSet \cup {EndOfStreamStatus}
                 J == hw.jobs
                 B == hw.busy
                 S == hw.status
                 K == hw'.jobs
                 C == hw'.busy
      <3>1. PICK job \in JobSet, first \in BOOLEAN, e \in BOOLEAN :
              /\ hw'.status = Append(hw.status, Status(job, first, e))
              /\ hw'.busy = IF job.parts = 1 THEN <<>> ELSE <<NextPart(job)>>
              /\ NextPart(job).frame = job.frame
              /\ \/ hw.busy = <<job>> /\ first = FALSE /\ hw'.jobs = hw.jobs
                 \/ /\ hw.busy = <<>> /\ first = TRUE
                    /\ \E i \in DOMAIN hw.jobs : job = hw.jobs[i] /\ hw'.jobs = JobsAfter(i)
        BY <2>3, PartEncoded
      <3> DEFINE p == Status(job, first, e)
      <3>2. p.frame = job.frame /\ p.first = first /\ p.last = (job.parts = 1)
        BY DEF Status
      <3>3. \A i \in DOMAIN C : C[i].frame = p.frame /\ ~p.last
        <4>1. CASE job.parts = 1
          BY <3>1, <4>1
        <4>2. CASE job.parts # 1
          <5> DEFINE x == NextPart(job)
          <5>1. C = <<x>> /\ x.frame = p.frame /\ p.last = FALSE
            BY <3>1, <3>2, <4>2
          <5> HIDE DEF C, p, x
          <5>2. \A i \in DOMAIN C : C[i].frame = p.frame
            BY <5>1
          <5>3. ~p.last
            BY <5>1
          <5> QED BY <5>2, <5>3
        <4> QED BY <4>1, <4>2
      <3> HIDE DEF p
      <3>4. Differ(J, B, S, Active, st) /\ LastIsLast(B, S, Active, st)
        BY <1>2 DEF InOrder
      <3>5. CASE hw.busy = <<job>> /\ first = FALSE /\ hw'.jobs = hw.jobs
        <4> DEFINE k == [j \in DOMAIN J |-> j]
        <4>1. \A i \in DOMAIN K : k[i] \in DOMAIN J /\ K[i].frame = J[k[i]].frame
          BY <3>5
        <4>2. \A i, j \in DOMAIN K : k[i] = k[j] => i = j
          BY <3>5
        <4> HIDE DEF k
        <4>3. 1 \in DOMAIN B /\ B[1].frame = p.frame
          BY <3>2, <3>5
        <4>4. \A i \in DOMAIN K : K[i].frame # p.frame
          BY <3>4, <3>5, <4>3 DEF Differ
        <4>5. \A i \in DOMAIN S : S[i].frame = p.frame => ~S[i].last /\ ~p.first
          BY <3>2, <3>4, <3>5, <4>3 DEF LastIsLast
        <4>6. Active /\ st.frame = p.frame => ~st.last /\ ~p.first
          BY <3>2, <3>4, <3>5, <4>3 DEF LastIsLast
        <4>7. InOrder(K, C, Append(S, p), Active, st)
          <5>1. Remain(J, K, p, k) /\ Follows(p, S, C, Active, st)
            BY <3>3, <4>1, <4>2, <4>4, <4>5, <4>6 DEF Remain, Follows
          <5> QED BY <1>1, <1>2, <5>1, OrderEncoded
        <4> QED BY <2>1, <3>1, <4>7, OrderLeft DEF p
      <3>6. ASSUME NEW n \in DOMAIN hw.jobs, job = hw.jobs[n], hw'.jobs = JobsAfter(n)
            PROVE  InOrder(hw'.jobs, hw'.busy, hw'.status, Active', st')
        <4> DEFINE k == [j \in DOMAIN K |-> IF j < n THEN j ELSE j + 1]
        <4>1. \A i \in DOMAIN K : k[i] \in DOMAIN J /\ k[i] # n /\ K[i].frame = J[k[i]].frame
          BY <1>1, <3>6, JobsAfterIs
        <4>2. \A i, j \in DOMAIN K : k[i] = k[j] => i = j
          <5>1. DOMAIN K \subseteq Nat /\ n \in Nat
            BY <1>1, <3>6, JobsAfterIs, LenProperties
          <5> QED BY <5>1
        <4> HIDE DEF k
        <4>3. J[n].frame = p.frame
          BY <3>2, <3>6
        <4>4. \A i \in DOMAIN K : K[i].frame # p.frame
          BY <3>4, <3>6, <4>1, <4>3 DEF Differ
        <4>5. \A i \in DOMAIN S : S[i].frame # p.frame
          BY <3>4, <4>3 DEF Differ
        <4>6. Active => st.frame # p.frame
          BY <3>4, <4>3 DEF Differ
        <4>7. InOrder(K, C, Append(S, p), Active, st)
          <5>1. Remain(J, K, p, k) /\ Follows(p, S, C, Active, st)
            BY <3>3, <4>1, <4>2, <4>4, <4>5, <4>6 DEF Remain, Follows
          <5> QED BY <1>1, <1>2, <5>1, OrderEncoded
        <4> QED BY <2>1, <3>1, <4>7, OrderLeft DEF p
      <3> QED BY <3>1, <3>5, <3>6
    <2>4. CASE ReportEos
      <3>1. hw'.status = Append(hw.status, EndOfStreamStatus) /\ hw'.jobs = hw.jobs
            /\ hw'.busy = hw.busy /\ hw.jobs = <<>> /\ hw.busy = <<>>
        BY <1>1, <2>4 DEF ReportEos, HwSet
      <3> DEFINE k == <<>>
                 p == EndOfStreamStatus
      <3>2. p.frame = 0 /\ p.last = FALSE /\ p.first = FALSE
        BY DEF EndOfStreamStatus
      <3>3. \A i \in DOMAIN hw.status : hw.status[i].frame = p.frame => ~hw.status[i].last
        <4>1. \A c \in PartSet : c.frame # 0
          BY DEF PartSet
        <4> QED BY <1>1, <3>2, <4>1
      <3>4. Active => st.frame # p.frame
        <4>1. Active => apc # "destroyed"
          BY DEF Active, EncTypes, ThreadsAgree
        <4>2. \A s \in Sent : FrameOf(s) # 0
          BY SlotTypes
        <4> QED BY <1>1, <3>2, <4>1, <4>2 DEF PartsHeld, HasSlot, HeldBy, FrameOf
      <3> HIDE DEF p
      <3>5. InOrder(hw.jobs, hw.busy, Append(hw.status, p), Active, st)
        <4>1. Remain(hw.jobs, hw.jobs, p, k) /\ Follows(p, hw.status, hw.busy, Active, st)
          BY <3>1, <3>2, <3>3, <3>4 DEF Remain, Follows
        <4> QED BY <1>1, <1>2, <4>1, OrderEncoded
      <3> QED BY <2>1, <3>1, <3>5, OrderLeft DEF p
    <2>5. CASE EndEncodingEos
      <3>1. hw.status # <<>> /\ hw'.status = Tail(hw.status) /\ hw'.jobs = hw.jobs
            /\ hw'.busy = hw.busy
        BY <1>1, <2>5 DEF EndEncodingEos, HwSet
      <3> QED BY <1>1, <1>2, <2>1, <3>1, OrderTaken
    <2>6. CASE hw'.jobs = <<>> /\ hw'.busy = <<>> /\ hw'.status = hw.status
      BY <1>2, <2>1, <2>6, OrderLeft
    <2>7. CASE hw'.jobs = hw.jobs /\ hw'.busy = hw.busy /\ hw'.status = hw.status
      BY <1>2, <2>1, <2>7, OrderLeft
    <2> QED BY <1>4, <2>2, <2>3, <2>4, <2>5, <2>6, <2>7, QueueMoves
  <1> QED BY <1>3, <1>4

---------------------------------------------------------------------------
(* The slots, the frames and their parts, all together *)

LEMMA FramesStep ==
  ASSUME EncTypes, FramesAgree, [EncNext]_encVars
  PROVE  FramesAgree'
  BY SlotsStep, CurrentStep, GivingStep, HeldStep, OrderStep DEF FramesAgree

LEMMA FramesInit == EncInit => FramesAgree /\ Sent = {}
  <1> SUFFICES ASSUME EncInit PROVE FramesAgree /\ Sent = {}
    OBVIOUS
  <1>1. /\ Sent = {} /\ hw.jobs = <<>> /\ hw.busy = <<>> /\ hw.status = <<>>
        /\ cpc = "wait" /\ apc = "idle"
    BY DEF EncInit, Sent
  <1>2. IsInjective(pool.free)
    BY DEF EncInit, IsInjective
  <1>3. SlotsAgree
    BY <1>1, <1>2 DEF SlotsAgree
  <1>4. CurrentAgrees /\ GivingAgrees
    BY <1>1 DEF CurrentAgrees, GivingAgrees, InSource, Busy
  <1>5. PartsHeld /\ PartsInOrder
    BY <1>1 DEF PartsHeld, PartsInOrder, JobsDiffer, Active
  <1> QED BY <1>1, <1>3, <1>4, <1>5 DEF FramesAgree

---------------------------------------------------------------------------
(* Tokens *)

LEMMA SentFinite ==
  /\ IsFiniteSet(Sent) /\ Cardinality(Sent) \in Nat /\ Cardinality(Sent') \in Nat
  /\ \A s : /\ s \notin Sent => Cardinality(Sent \cup {s}) = Cardinality(Sent) + 1
            /\ s \in Sent => Cardinality(Sent \ {s}) = Cardinality(Sent) - 1
  <1>1. Sent \in SUBSET SourceSlot /\ Sent' \in SUBSET SourceSlot
    BY DEF Sent
  <1> QED BY <1>1, FiniteSlots, FS_AddElement, FS_RemoveElement

\* How many slots of SourceSent are held.
LEMMA SentMoves ==
  ASSUME EncTypes, FramesAgree, [EncNext]_encVars
  PROVE  \/ Cardinality(Sent') = Cardinality(Sent) /\ ~AddSourceSent /\ ~FrameRefused
            /\ ~SourceReleased
         \/ AddSourceSent /\ Cardinality(Sent') = Cardinality(Sent) + 1
         \/ FrameRefused /\ Cardinality(Sent') = Cardinality(Sent) - 1
         \/ SourceReleased /\ Cardinality(Sent') = Cardinality(Sent) - 1
         \/ ReleaseAll
  <1>1. CASE AddSourceSent
    <2>1. PICK s \in SourceSlot \ Sent : Sent' = Sent \cup {s}
      BY <1>1, SlotTaken
    <2> QED BY <1>1, <2>1, SentFinite
  <1>2. ASSUME NEW s \in Sent, Sent' = Sent \ {s}
        PROVE  Cardinality(Sent') = Cardinality(Sent) - 1
    BY <1>2, SentFinite
  <1> QED BY <1>1, <1>2, SlotMoves

\* The frames whose token is not in SourceSent: in the hands of the
\* application's thread, or of the callback thread.
Pushing == IF apc \in {"info", "source"} THEN 1 ELSE 0
Giving == IF cpc \in {"give", "post"} THEN 1 ELSE 0

LEMMA TakenIs ==
  /\ Taken = Cardinality(Sent) + Pushing + Giving
  /\ Taken' = Cardinality(Sent') + Pushing' + Giving'
  /\ Cardinality(Sent) \in Nat /\ Pushing \in Nat /\ Giving \in Nat
  /\ Cardinality(Sent') \in Nat /\ Pushing' \in Nat /\ Giving' \in Nat
  BY SentFinite DEF Taken, Pushing, Giving

LEMMA TokensStep ==
  ASSUME EncTypes, FramesAgree, TokensAgree, [EncNext]_encVars
  PROVE  TokensAgree'
  <1>1. /\ PendingEncodings \in 0 .. ENC_MAX_CMD - 1 /\ program' = program
        /\ ENC_MAX_CMD \in Nat
    BY AppMoves, Ranges DEF TokensAgree
  <1>2. CASE apc = "destroyed"
    <2>1. apc' = apc /\ PendingEncodings' = PendingEncodings
      BY <1>2, NothingAfterDestroy DEF encVars, appVars
    <2> QED BY <1>1, <1>2, <2>1 DEF TokensAgree
  <1>3. CASE ReleaseAll
    <2>1. apc' = "destroyed" /\ PendingEncodings' = PendingEncodings
      BY <1>3 DEF ReleaseAll, Goes
    <2> QED BY <1>1, <2>1 DEF TokensAgree
  <1>4. CASE apc # "destroyed" /\ ~ReleaseAll
    <2> DEFINE sum == PendingEncodings + Cardinality(Sent) + Pushing + Giving
    <2>1. /\ sum <= ENC_MAX_CMD - 1
          /\ ~Refusals => sum = ENC_MAX_CMD - 1
      BY <1>1, <1>4, TakenIs DEF TokensAgree
    <2>2. /\ PendingEncodings' \in Nat
          /\ sum' = sum \/ (FrameRefused /\ sum' = sum - 1)
      <3>1. WaitReadiness => /\ PendingEncodings' = PendingEncodings - 1 /\ PendingEncodings > 0
                             /\ apc = "ready" /\ apc' = "info" /\ cpc' = cpc
                             /\ SourceSent' = SourceSent
        BY DEF WaitReadiness, Goes, cbVars
      <3>2. TokenReleased => /\ PendingEncodings' = PendingEncodings + 1
                             /\ apc' = apc /\ cpc = "post" /\ cpc' = "unref"
                             /\ SourceSent' = SourceSent
        BY DEF TokenReleased, CallbackGoes, appVars
      <3>3. CASE WaitReadiness
        <4>1. Sent' = Sent
          BY <3>1, <3>3 DEF Sent
        <4>2. Pushing = 0 /\ Pushing' = 1 /\ Giving' = Giving
          BY <3>1, <3>3 DEF Pushing, Giving
        <4> QED BY <1>1, <3>1, <3>3, <4>1, <4>2, TakenIs
      <3>4. CASE TokenReleased
        <4>1. Sent' = Sent
          BY <3>2, <3>4 DEF Sent
        <4>2. Giving = 1 /\ Giving' = 0 /\ Pushing' = Pushing
          BY <3>2, <3>4 DEF Pushing, Giving
        <4> QED BY <1>1, <3>2, <3>4, <4>1, <4>2, TakenIs
      <3>5. CASE ~WaitReadiness /\ ~TokenReleased
        <4>1. PendingEncodings' = PendingEncodings
          BY <3>5, Writers
        <4>2. \/ AddSourceSent /\ apc = "source" /\ apc' = "infos"
              \/ ~AddSourceSent /\ Pushing' = Pushing
          <5>1. AddSourceSent => apc = "source" /\ apc' = "infos"
            BY DEF AddSourceSent, Goes
          <5>2. /\ PutTakesSlot \/ TakeHdrID \/ ProcessEnters \/ DestroyChannel => apc = "idle"
                /\ ReleaseAll => apc = "join"
            BY DEF PutTakesSlot, TakeHdrID, ProcessEnters, DestroyChannel, ReleaseAll, Call
          <5>3. ~AddSourceSent => (apc \in {"info", "source"} <=> apc' \in {"info", "source"})
            BY <3>5, <5>2, AppMoves
          <5> QED BY <5>1, <5>3 DEF Pushing
        <4>3. \/ SourceReleased /\ cpc = "source" /\ cpc' = "give"
              \/ ~SourceReleased /\ Giving' = Giving
          <5>1. SourceReleased => cpc = "source" /\ cpc' = "give"
            BY DEF SourceReleased, CallbackGoes
          <5>2. ~SourceReleased => (cpc \in {"give", "post"} <=> cpc' \in {"give", "post"})
            BY <3>5, CallbackMoves
          <5> QED BY <5>1, <5>2 DEF Giving
        <4>4. /\ AddSourceSent => cpc' = cpc
              /\ FrameRefused => apc' = "idle" /\ apc = "send" /\ cpc' = cpc
              /\ SourceReleased => apc' = apc
          BY DEF AddSourceSent, FrameRefused, SourceReleased, Returns, cbVars, appVars
        <4>5. CASE AddSourceSent
          <5>1. Pushing = 1 /\ Pushing' = 0 /\ Giving' = Giving /\ apc = "source"
            BY <4>2, <4>4, <4>5 DEF Pushing, Giving, AddSourceSent, Goes
          <5>2. ~FrameRefused
            BY <5>1 DEF FrameRefused
          <5>3. ~SourceReleased
            BY <4>4, <4>5, <4>3 DEF SourceReleased, CallbackGoes
          <5> QED BY <1>1, <1>4, <4>1, <4>5, <5>1, <5>2, <5>3, SentMoves, TakenIs
        <4>6. CASE FrameRefused
          <5>1. Pushing = 0 /\ Pushing' = 0 /\ Giving' = Giving /\ ~SourceReleased
            BY <4>4, <4>6 DEF Pushing, Giving, SourceReleased, CallbackGoes
          <5>2. ~AddSourceSent
            BY <4>4, <4>6 DEF AddSourceSent
          <5> QED BY <1>1, <1>4, <4>1, <4>6, <5>1, <5>2, SentMoves, TakenIs
        <4>7. CASE SourceReleased
          <5>1. Giving = 0 /\ Giving' = 1 /\ Pushing' = Pushing
            BY <4>3, <4>4, <4>7 DEF Pushing, Giving
          <5>2. ~AddSourceSent /\ ~FrameRefused
            BY <4>3, <4>4, <4>7
          <5> QED BY <1>1, <1>4, <4>1, <4>7, <5>1, <5>2, SentMoves, TakenIs
        <4>8. CASE ~AddSourceSent /\ ~FrameRefused /\ ~SourceReleased
          BY <1>1, <1>4, <4>1, <4>2, <4>3, <4>8, SentMoves, TakenIs
        <4> QED BY <4>5, <4>6, <4>7, <4>8
      <3> QED BY <3>3, <3>4, <3>5
    <2>3. FrameRefused => Refusals
      BY DEF FrameRefused
    <2>4. sum' <= ENC_MAX_CMD - 1 /\ (~Refusals => sum' = ENC_MAX_CMD - 1)
      BY <1>1, <2>1, <2>2, <2>3, TakenIs
    <2>5. Refusals' = Refusals
      BY <1>1 DEF Refusals
    <2> QED BY <1>1, <2>2, <2>4, <2>5, TakenIs DEF TokensAgree
  <1> QED BY <1>2, <1>3, <1>4

---------------------------------------------------------------------------
(* References on the sources and on the QP tables *)

LEMMA HeldFinite ==
  ASSUME NEW n
  PROVE  /\ IsFiniteSet(HeldSlots(n)) /\ Cardinality(HeldSlots(n)) \in Nat
         /\ \A s : /\ s \notin HeldSlots(n) =>
                          Cardinality(HeldSlots(n) \cup {s}) = Cardinality(HeldSlots(n)) + 1
                   /\ s \in HeldSlots(n) =>
                          Cardinality(HeldSlots(n) \ {s}) = Cardinality(HeldSlots(n)) - 1
  <1>1. HeldSlots(n) \in SUBSET SourceSlot
    BY DEF HeldSlots, Sent
  <1> QED BY <1>1, FiniteSlots, FS_AddElement, FS_RemoveElement

One(c) == IF c THEN 1 ELSE 0

\* The slots and the references of frame n, as its source comes and goes.
LEMMA SlotOfFrameGoes ==
  ASSUME EncTypes, NEW n, NEW m, NEW s \in Sent, FrameOf(s) = m,
         SourceSent' = [SourceSent EXCEPT ![s] = <<0, 0>>], Sent' = Sent \ {s}
  PROVE  Cardinality(HeldSlots(n)') = Cardinality(HeldSlots(n)) - One(n = m)
  <1>1. SourceSent \in SourceSet /\ s \in SourceSlot
    BY DEF EncTypes, EncVarTypes, Sent
  <1>2. \A t \in Sent' : FrameOf(t)' = FrameOf(t)
    BY <1>1 DEF FrameOf, SourceSet, Sent
  <1>3. HeldSlots(n)' = HeldSlots(n) \ {s}
    BY <1>2 DEF HeldSlots
  <1>4. n # m => HeldSlots(n)' = HeldSlots(n)
    BY <1>3 DEF HeldSlots
  <1>5. n = m => s \in HeldSlots(n)
    BY DEF HeldSlots
  <1> QED BY <1>3, <1>4, <1>5, HeldFinite DEF One

LEMMA HeldMoves ==
  ASSUME EncTypes, FramesAgree, [EncNext]_encVars, NEW n \in DOMAIN program
  PROVE  /\ Held(n) \in Nat
         /\ GetFrameInfo => Held(n)' = Held(n) + One(n = next)
         /\ FrameRefused => Held(n)' = Held(n) - One(n = next)
         /\ SourceReleased => Held(n)' = Held(n) - One(n = st.frame)
         /\ ReleaseAll => Held(n)' = 0 /\ Held(n) = Cardinality(HeldSlots(n))
         /\ ~GetFrameInfo /\ ~FrameRefused /\ ~SourceReleased /\ ~ReleaseAll => Held(n)' = Held(n)
  <1> DEFINE Slots == Cardinality(HeldSlots(n))
             Own == One(apc = "source" /\ next = n)
  <1>1. /\ Slots \in Nat /\ Own \in Nat /\ Own' \in Nat
        /\ Held(n) = Slots + Own /\ Held(n)' = Slots' + Own'
        /\ SourceSent \in SourceSet
    BY HeldFinite DEF One, Held, EncTypes, EncVarTypes
  <1>2. /\ AddSourceSent => apc = "source" /\ apc' = "infos" /\ next' = next
        /\ FrameRefused => apc = "send" /\ apc' = "idle"
        /\ GetFrameInfo => apc = "info" /\ apc' = "source" /\ next' = next
                           /\ SourceSent' = SourceSent
        /\ SourceReleased => apc' = apc /\ next' = next
        /\ ReleaseAll => apc = "join" /\ apc' = "destroyed"
    BY DEF AddSourceSent, FrameRefused, GetFrameInfo, SourceReleased, ReleaseAll, Goes, Returns,
       appVars
  <1> HIDE DEF Slots, Own
  <1>3. CASE AddSourceSent
    <2>1. PICK s \in SourceSlot \ Sent :
            SourceSent' = [SourceSent EXCEPT ![s] = <<next, pool.iCurID>>] /\ Sent' = Sent \cup {s}
      BY <1>3, SlotTaken
    <2>2. FrameOf(s)' = next /\ \A t \in Sent : FrameOf(t)' = FrameOf(t)
      BY <1>1, <2>1 DEF FrameOf, SourceSet, Sent
    <2>3. HeldSlots(n)' = IF n = next THEN HeldSlots(n) \cup {s} ELSE HeldSlots(n)
      BY <2>1, <2>2 DEF HeldSlots
    <2>4. s \notin HeldSlots(n)
      BY <2>1 DEF HeldSlots
    <2>5. Slots' = Slots + One(n = next)
      BY <2>3, <2>4, HeldFinite DEF One, Slots
    <2>6. Own = One(n = next) /\ Own' = 0
      BY <1>2, <1>3 DEF Own, One
    <2>7. One(n = next) \in Nat
      BY DEF One
    <2>8. ~FrameRefused /\ ~GetFrameInfo /\ ~ReleaseAll
      BY <1>2, <1>3
    <2>9. ~SourceReleased
      BY <1>2, <1>3
    <2> QED BY <1>1, <2>5, <2>6, <2>7, <2>8, <2>9
  <1>4. ASSUME FrameRefused \/ SourceReleased
        PROVE  /\ FrameRefused => Slots' = Slots - One(n = next)
               /\ SourceReleased => Slots' = Slots - One(n = st.frame)
               /\ Own' = Own
    <2>1. Own' = Own
      BY <1>2, <1>4 DEF Own, One
    <2>2. FrameRefused => Slots' = Slots - One(n = next)
      <3>1. SUFFICES ASSUME FrameRefused PROVE Slots' = Slots - One(n = next)
        OBVIOUS
      <3>2. ~AddSourceSent /\ ~SourceReleased /\ ~ReleaseAll
        BY <1>2, <3>1
      <3>3. PICK s \in Sent : /\ SourceSent[s] = <<next, pool.iCurID>>
                              /\ SourceSent' = [SourceSent EXCEPT ![s] = <<0, 0>>]
                              /\ Sent' = Sent \ {s}
        BY <3>1, <3>2, SlotMoves
      <3>4. FrameOf(s) = next
        BY <3>3 DEF FrameOf
      <3> QED BY <3>3, <3>4, SlotOfFrameGoes DEF Slots
    <2>3. SourceReleased => Slots' = Slots - One(n = st.frame)
      <3>1. SUFFICES ASSUME SourceReleased PROVE Slots' = Slots - One(n = st.frame)
        OBVIOUS
      <3>2. ~AddSourceSent /\ ~FrameRefused /\ ~ReleaseAll
        BY <1>2, <3>1
      <3>3. PICK s \in Sent : /\ SourceSent[s] = <<st.frame, st.info>>
                              /\ SourceSent' = [SourceSent EXCEPT ![s] = <<0, 0>>]
                              /\ Sent' = Sent \ {s}
        BY <3>1, <3>2, SlotMoves
      <3>4. FrameOf(s) = st.frame
        BY <3>3 DEF FrameOf
      <3> QED BY <3>3, <3>4, SlotOfFrameGoes DEF Slots
    <2> QED BY <2>1, <2>2, <2>3
  <1>5. CASE FrameRefused
    <2>1. ~AddSourceSent /\ ~SourceReleased /\ ~ReleaseAll /\ ~GetFrameInfo
      BY <1>2, <1>5
    <2>2. One(n = next) \in Nat
      BY DEF One
    <2> QED BY <1>1, <1>4, <1>5, <2>1, <2>2
  <1>6. CASE SourceReleased
    <2>1. ~FrameRefused /\ ~ReleaseAll /\ ~GetFrameInfo
      BY <1>2, <1>6
    <2>2. One(n = st.frame) \in Nat
      BY DEF One
    <2> QED BY <1>1, <1>4, <1>6, <2>1, <2>2
  <1>7. CASE ReleaseAll
    <2>1. Sent' = {} /\ Own = 0 /\ Own' = 0 /\ ~GetFrameInfo /\ ~FrameRefused /\ ~SourceReleased
      <3>1. Own = 0 /\ Own' = 0 /\ ~GetFrameInfo /\ ~FrameRefused /\ ~SourceReleased
        BY <1>2, <1>7 DEF Own, One
      <3>2. Sent' = {}
        BY <1>2, <1>7, <3>1, SlotMoves DEF ReleaseAll, Sent
      <3> QED BY <3>1, <3>2
    <2>2. HeldSlots(n)' = {}
      BY <2>1 DEF HeldSlots
    <2>3. Slots' = 0
      BY <2>2, FS_EmptySet DEF Slots
    <2>4. Held(n) = Slots
      BY <1>1, <2>1
    <2>5. Held(n) = Cardinality(HeldSlots(n))
      BY <2>4 DEF Slots
    <2> QED BY <1>1, <1>7, <2>1, <2>3, <2>5
  <1>8. CASE ~AddSourceSent /\ ~FrameRefused /\ ~SourceReleased /\ ~ReleaseAll
    <2>1. Slots' = Slots
      <3>1. SourceSent' = SourceSent /\ Sent' = Sent
        BY <1>8, SlotMoves
      <3> QED BY <3>1 DEF Slots, HeldSlots, FrameOf
    <2>2. GetFrameInfo => Own = 0 /\ Own' = One(n = next)
      BY <1>2 DEF Own, One
    <2>3. ~GetFrameInfo => Own' = Own
      BY <1>8, NextMoves DEF Own, One
    <2>4. One(n = next) \in Nat
      BY DEF One
    <2> HIDE DEF Own
    <2>5. CASE GetFrameInfo
      BY <1>1, <1>8, <2>1, <2>2, <2>4, <2>5
    <2>6. CASE ~GetFrameInfo
      BY <1>1, <1>8, <2>1, <2>3, <2>6
    <2> QED BY <2>5, <2>6
  <1> QED BY <1>3, <1>5, <1>6, <1>7, <1>8

\* What the references on the sources and on the tables become.
LEMMA SourceRefs ==
  ASSUME EncTypes, [EncNext]_encVars
  PROVE  /\ GetFrameInfo => /\ refs'.source = [refs.source EXCEPT ![next] = @ + 1]
                            /\ refs'.table = [refs.table EXCEPT ![next] = IF Now.qp THEN @ + 1 ELSE @]
         /\ FrameRefused => refs' = Unref(refs, next, pool.iCurID)
         /\ SourceReleased => refs' = Unref(refs, st.frame, st.info)
         /\ ~GetFrameInfo /\ ~FrameRefused /\ ~SourceReleased /\ ~ReleaseAll
                => refs'.source = refs.source /\ refs'.table = refs.table
  <1>1. refs \in RefsSet
    BY DEF EncTypes, EncVarTypes
  <1>2. ASSUME GetFrameInfo
        PROVE  /\ refs'.source = [refs.source EXCEPT ![next] = @ + 1]
               /\ refs'.table = [refs.table EXCEPT ![next] = IF Now.qp THEN @ + 1 ELSE @]
    BY <1>1, <1>2 DEF GetFrameInfo, RefsSet
  <1>3. FrameRefused => refs' = Unref(refs, next, pool.iCurID)
    BY DEF FrameRefused, ReleaseSource
  <1>4. SourceReleased => refs' = Unref(refs, st.frame, st.info)
    BY DEF SourceReleased, ReleaseSource
  <1>5. ASSUME PutHandsOver \/ CallbackHandsOver \/ StreamReleased
        PROVE  refs'.source = refs.source /\ refs'.table = refs.table
    <2>1. PICK f : refs' = [refs EXCEPT !.stream = f]
      <3>1. CASE StreamReleased
        <4>1. refs' = [refs EXCEPT !.stream = [refs.stream EXCEPT ![st.buf] = @ - 1]]
          BY <1>1, <3>1 DEF StreamReleased, RefsSet
        <4> QED BY <4>1
      <3>2. CASE PutHandsOver \/ CallbackHandsOver
        <4>1. PICK b : refs' = [refs EXCEPT !.stream = [refs.stream EXCEPT ![b] = @ + 1]]
          BY <1>1, <3>2 DEF PutHandsOver, CallbackHandsOver, HandOver, RefsSet
        <4> QED BY <4>1
      <3> QED BY <1>5, <3>1, <3>2
    <2> QED BY <1>1, <2>1 DEF RefsSet
  <1> QED BY <1>2, <1>3, <1>4, <1>5, Writers

LEMMA FrameRefsStep ==
  ASSUME EncTypes, FramesAgree, FrameRefs, [EncNext]_encVars
  PROVE  FrameRefs'
  <1>1. /\ program' = program /\ program \in Programs
        /\ refs.source \in [DOMAIN program -> Int] /\ refs.table \in [DOMAIN program -> Int]
        /\ refs \in RefsSet
    BY AppMoves DEF EncTypes, EncVarTypes, ThreadsAgree, RefsSet
  <1> SUFFICES ASSUME NEW n \in DOMAIN program
               PROVE  /\ refs'.source[n] = Held(n)'
                      /\ refs'.table[n] = IF HasTable(n) THEN Held(n)' ELSE 0
    BY <1>1 DEF FrameRefs, HasTable
  <1>2. /\ refs.source[n] = Held(n) /\ refs.table[n] = IF HasTable(n) THEN Held(n) ELSE 0
        /\ Held(n) \in Nat
    BY HeldMoves DEF FrameRefs
  <1> DEFINE h == Held(n)
             k == Held(n)'
             has == HasTable(n)
  <1>3. CASE GetFrameInfo
    <2>1. /\ next \in DOMAIN program /\ program[next].op = "frame" /\ Now = program[next]
          /\ program[next].qp \in BOOLEAN
      BY <1>1, <1>3, CallTypes DEF GetFrameInfo, EncTypes, ThreadsAgree, Framing, Now
    <2>2. k = h + One(n = next)
      BY <1>3, HeldMoves
    <2>3. HasTable(next) <=> Now.qp
      BY <2>1 DEF HasTable
    <2> HIDE DEF h, k, has
    <2>4. n = next => refs'.source[n] = refs.source[n] + 1
                      /\ refs'.table[n] = IF Now.qp THEN refs.table[n] + 1 ELSE refs.table[n]
      BY <1>1, <1>3, <2>1, SourceRefs
    <2>5. n # next => refs'.source[n] = refs.source[n] /\ refs'.table[n] = refs.table[n]
      BY <1>1, <1>3, <2>1, SourceRefs
    <2> QED BY <1>2, <2>2, <2>3, <2>4, <2>5 DEF One, h, k, has
  <1>4. ASSUME NEW m, NEW id, refs' = Unref(refs, m, id), NEW s \in Sent,
               SourceSent[s] = <<m, id>>, k = h - One(n = m)
        PROVE  /\ refs'.source[n] = k
               /\ refs'.table[n] = IF has THEN k ELSE 0
    <2>1. /\ m \in DOMAIN program /\ program[m].op = "frame"
          /\ pool.info[id].frame = m /\ pool.info[id].qp = program[m].qp
          /\ program[m].qp \in BOOLEAN
      <3>1. FrameOf(s) = m /\ InfoOf(s) = id
        BY <1>4 DEF FrameOf, InfoOf
      <3>2. /\ m \in DOMAIN program /\ program[m].op = "frame"
            /\ pool.info[id].frame = m /\ pool.info[id].qp = program[m].qp
        BY <3>1 DEF FramesAgree, SlotsAgree
      <3> QED BY <1>1, <3>2, CallTypes
    <2>2. /\ refs'.source = OneLess(refs.source, m)
          /\ refs'.table = IF program[m].qp THEN OneLess(refs.table, m) ELSE refs.table
      BY <1>1, <1>4, <2>1, UnrefIs
    <2>3. /\ refs'.source[n] = refs.source[n] - One(n = m)
          /\ refs'.table[n] = IF program[m].qp THEN refs.table[n] - One(n = m) ELSE refs.table[n]
      BY <1>1, <2>2 DEF OneLess, One
    <2>4. n = m => (has <=> program[m].qp)
      BY <2>1 DEF HasTable
    <2> HIDE DEF h, k, has
    <2> QED BY <1>2, <1>4, <2>1, <2>3, <2>4 DEF One, h, k, has
  <1>5. CASE FrameRefused
    <2>1. ~AddSourceSent /\ ~SourceReleased /\ ~ReleaseAll
      BY <1>5 DEF FrameRefused, AddSourceSent, SourceReleased, ReleaseAll, Goes, Returns, appVars
    <2>2. PICK s \in Sent : SourceSent[s] = <<next, pool.iCurID>>
      BY <1>5, <2>1, SlotMoves
    <2> QED BY <1>4, <1>5, <2>2, HeldMoves, SourceRefs
  <1>6. CASE SourceReleased
    <2>1. ~AddSourceSent /\ ~FrameRefused /\ ~ReleaseAll
      BY <1>6 DEF FrameRefused, AddSourceSent, SourceReleased, ReleaseAll, Goes, Returns, appVars
    <2>2. PICK s \in Sent : SourceSent[s] = <<st.frame, st.info>>
      BY <1>6, <2>1, SlotMoves
    <2> QED BY <1>4, <1>6, <2>2, HeldMoves, SourceRefs
  <1>7. CASE ReleaseAll
    <2> DEFINE held == {s \in SourceSlot : SourceSent[s] # <<0, 0>>}
               Here == {s \in held : SourceSent[s][1] = n}
               Tabled == {s \in held : LET i == pool.info[SourceSent[s][2]]
                                       IN  i.qp /\ i.frame = n}
    <2>1. /\ refs'.source[n] = refs.source[n] - Cardinality(Here)
          /\ refs'.table[n] = refs.table[n] - Cardinality(Tabled)
      BY <1>7 DEF ReleaseAll
    <2>2. Here = HeldSlots(n)
      BY DEF HeldSlots, FrameOf, Sent
    <2>3. Tabled = IF has THEN HeldSlots(n) ELSE {}
      <3>1. \A s \in Sent : /\ pool.info[SourceSent[s][2]].frame = SourceSent[s][1]
                            /\ pool.info[SourceSent[s][2]].qp = program[SourceSent[s][1]].qp
                            /\ program[SourceSent[s][1]].op = "frame"
        BY DEF FramesAgree, SlotsAgree, FrameOf, InfoOf
      <3> QED BY <3>1 DEF HeldSlots, FrameOf, Sent, HasTable
    <2> HIDE DEF Here, Tabled
    <2>4. Held(n)' = 0 /\ Held(n) = Cardinality(HeldSlots(n))
      BY <1>7, HeldMoves
    <2> QED BY <1>2, <2>1, <2>2, <2>3, <2>4, FS_EmptySet
  <1>8. CASE ~GetFrameInfo /\ ~FrameRefused /\ ~SourceReleased /\ ~ReleaseAll
    BY <1>2, <1>8, HeldMoves, SourceRefs
  <1> QED BY <1>3, <1>5, <1>6, <1>7, <1>8

---------------------------------------------------------------------------
(* The invariant of the frames *)

LEMMA InfoOfPartsStep ==
  ASSUME EncTypes, FramesAgree, InfoOfParts, [EncNext]_encVars
  PROVE  InfoOfParts'
  <1>1. CASE apc' # "destroyed"
    <2>1. SlotsAgree' /\ PartsHeld'
      BY FramesStep DEF FramesAgree
    <2>2. ASSUME NEW i \in DOMAIN hw'.status, hw'.status[i] # EndOfStreamStatus
          PROVE  /\ hw'.status[i].info \notin Free'
                 /\ pool'.info[hw'.status[i].info].frame = hw'.status[i].frame
      <3>1. PICK s \in Sent' : SourceSent'[s] = <<hw'.status[i].frame, hw'.status[i].info>>
        BY <1>1, <2>1, <2>2 DEF PartsHeld, HasSlot, HeldBy
      <3>2. FrameOf(s)' = hw'.status[i].frame /\ InfoOf(s)' = hw'.status[i].info
        BY <3>1 DEF FrameOf, InfoOf
      <3>3. InfoOf(s)' \notin Free' /\ pool'.info[InfoOf(s)'].frame = FrameOf(s)'
        BY <2>1 DEF SlotsAgree
      <3> QED BY <3>2, <3>3
    <2> QED BY <2>2 DEF InfoOfParts
  <1>2. CASE apc' = "destroyed"
    <2>1. pool' = pool /\ hw' = hw
      <3>1. CASE apc = "destroyed"
        BY <3>1, NothingAfterDestroy DEF encVars
      <3>2. CASE apc # "destroyed"
        <4>1. ReleaseAll
          BY <1>2, <3>2, AppMoves
        <4> QED BY <4>1 DEF ReleaseAll
      <3> QED BY <3>1, <3>2
    <2> QED BY <2>1 DEF InfoOfParts, Free
  <1> QED BY <1>1, <1>2

LEMMA EncFramesInit == EncInit => EncFrames
  <1> SUFFICES ASSUME EncInit PROVE EncFrames
    OBVIOUS
  <1>1. FramesAgree /\ Sent = {}
    BY FramesInit
  <1>2. /\ apc = "idle" /\ cpc = "wait" /\ PendingEncodings = ENC_MAX_CMD - 1 /\ hw.status = <<>>
        /\ \A n \in DOMAIN program : refs.source[n] = 0 /\ refs.table[n] = 0
    BY DEF EncInit
  <1>3. Cardinality(Sent) = 0
    BY <1>1, FS_EmptySet
  <1>4. TokensAgree
    BY <1>2, <1>3, Ranges DEF TokensAgree, Taken
  <1>5. ASSUME NEW n \in DOMAIN program PROVE Held(n) = 0
    <2>1. HeldSlots(n) = {}
      BY <1>1 DEF HeldSlots
    <2> QED BY <1>2, <2>1, FS_EmptySet DEF Held
  <1>6. FrameRefs
    BY <1>2, <1>5 DEF FrameRefs
  <1>7. InfoOfParts
    BY <1>2 DEF InfoOfParts
  <1> QED BY <1>1, <1>4, <1>6, <1>7 DEF EncFrames

LEMMA EncFramesStep ==
  ASSUME EncTypes, EncFrames, [EncNext]_encVars PROVE EncFrames'
  BY FramesStep, TokensStep, FrameRefsStep, InfoOfPartsStep DEF EncFrames

\* Every source that is pushed keeps its slot, its frame-info id, its token
\* and its references until its last part has been through the callback: the
\* queues of the firmware hold the parts of no other frame.
THEOREM EncFramesAlways == EncSpec => [](EncTypes /\ EncFrames)
  <1>1. EncInit => EncTypes /\ EncFrames
    BY EncTypesInit, EncFramesInit
  <1>2. EncTypes /\ EncFrames /\ [EncNext]_encVars => (EncTypes /\ EncFrames)'
    BY EncTypesStep, EncFramesStep
  <1> QED BY <1>1, <1>2, PTL DEF EncSpec

\* What is missing of the tokens of PendingEncodings is one for each frame
\* between WaitReadiness and the end of its last part, where the driver
\* refuses no frame.
THEOREM TokensReturn == EncSpec => []TokensComeBack
  <1>1. EncTypes /\ EncFrames => TokensComeBack
    <2> SUFFICES ASSUME EncTypes, EncFrames, ~Refusals, apc # "destroyed"
                 PROVE  ENC_MAX_CMD - 1 - PendingEncodings = Taken
      BY DEF TokensComeBack, TokensAreExact, Taken
    <2>1. PendingEncodings + Taken = ENC_MAX_CMD - 1
      BY DEF EncFrames, TokensAgree
    <2> QED BY <2>1, TakenIs, Ranges DEF EncTypes, EncVarTypes
  <1> QED BY <1>1, EncFramesAlways, PTL

---------------------------------------------------------------------------
(* The frames that hold HDR SEIs *)

\* A slot of the frame being pushed is there only while it is pushed.
LEMMA NoEarlySlot ==
  ASSUME EncTypes, FramesAgree, ~InSource
  PROVE  \A s \in Sent : FrameOf(s) # next
  BY DEF FramesAgree, SlotsAgree

LEMMA SlotUnchanged ==
  ASSUME SourceSent' = SourceSent
  PROVE  Sent' = Sent /\ \A s : FrameOf(s)' = FrameOf(s) /\ InfoOf(s)' = InfoOf(s)
  BY DEF Sent, FrameOf, InfoOf

\* The slots that hold SEIs.
HoldsSeis(s) == FrameOf(s) = next => apc = "send"
LEMMA HoldingIs ==
  Holding = {id \in InfoID : \/ \E s \in Sent : InfoOf(s) = id /\ HoldsSeis(s)
                             \/ cpc = "give" /\ st.info = id}
  BY DEF Holding, HoldsSeis

\* Who holds SEIs changes with the frame only, not where the thread is.
LEMMA HoldingKept ==
  ASSUME EncTypes, FramesAgree, [EncNext]_encVars, SourceSent' = SourceSent, ~SetHLSInfos,
         NEW s \in Sent
  PROVE  HoldsSeis(s)' <=> HoldsSeis(s)
  <1>1. FrameOf(s)' = FrameOf(s) /\ FrameOf(s) \in Nat /\ FrameOf(s) <= next /\ next \in Nat
    BY SlotTypes DEF FrameOf, FramesAgree, SlotsAgree, EncTypes, ThreadsAgree
  <1>2. CASE next' = next + 1
    <2>1. HoldsSeis(s)'
      BY <1>1, <1>2 DEF HoldsSeis
    <2>2. apc = "send" \/ ~InSource
      BY <1>1, <1>2, AppMoves DEF InSource
    <2> QED BY <2>1, <2>2, NoEarlySlot DEF HoldsSeis
  <1>3. CASE next' = next
    <2>1. CASE apc' = "send"
      <3>1. apc = "send"
        BY <1>3, <2>1, AppMoves
      <3> QED BY <2>1, <3>1 DEF HoldsSeis
    <2>2. CASE apc' # "send" /\ apc = "send"
      BY <1>1, <1>3, <2>2, AppMoves
         DEF PutTakesSlot, TakeHdrID, ProcessEnters, DestroyChannel, ReleaseAll, Call
    <2>3. CASE apc' # "send" /\ apc # "send"
      BY <1>1, <1>3, <2>3 DEF HoldsSeis
    <2> QED BY <2>1, <2>2, <2>3
  <1> QED BY <1>2, <1>3, AppMoves

LEMMA HoldingMoves ==
  ASSUME EncTypes, FramesAgree, [EncNext]_encVars
  PROVE  /\ SetHLSInfos => /\ pool.iCurID \in InfoID \ Holding
                           /\ Holding' = Holding \cup {pool.iCurID}
         /\ FrameRefused \/ ReleaseAll => Holding' \subseteq Holding
         /\ IdsGivenBack => st.info \in Holding /\ Holding' = Holding \ {st.info}
         /\ ~SetHLSInfos /\ ~FrameRefused /\ ~ReleaseAll /\ ~IdsGivenBack => Holding' = Holding
  <1>1. /\ SlotsAgree /\ CurrentAgrees /\ GivingAgrees /\ next \in Nat
        /\ \A s \in Sent : /\ FrameOf(s) \in Nat /\ FrameOf(s) <= next /\ InfoOf(s) \in InfoID
                           /\ s \in SourceSlot
        /\ SourceSent \in SourceSet
    BY SlotTypes DEF FramesAgree, SlotsAgree, EncTypes, EncVarTypes, ThreadsAgree
  <1>2. CASE SetHLSInfos
    <2>1. apc = "hls" /\ apc' = "send" /\ next' = next /\ SourceSent' = SourceSent
          /\ cpc' = cpc /\ st' = st /\ pool.iCurID \in InfoID
      BY <1>2 DEF SetHLSInfos, Goes, cbVars, EncTypes, ThreadsAgree
    <2>2. PICK c \in Sent : SourceSent[c] = <<next, pool.iCurID>>
      BY <1>1, <2>1 DEF CurrentAgrees, InSource
    <2>3. FrameOf(c) = next /\ InfoOf(c) = pool.iCurID
      BY <2>2 DEF FrameOf, InfoOf
    <2>4. \A s \in Sent : /\ s # c => FrameOf(s) # next /\ InfoOf(s) # pool.iCurID
                          /\ HoldsSeis(s)' /\ (HoldsSeis(s) <=> s # c)
      <3>1. \A s \in Sent : s # c => FrameOf(s) # next /\ InfoOf(s) # pool.iCurID
        BY <1>1, <2>3 DEF SlotsAgree
      <3> QED BY <2>1, <2>3, <3>1 DEF HoldsSeis
    <2>5. ~(cpc = "give" /\ st.info = pool.iCurID)
      BY <1>1, <2>3 DEF GivingAgrees
    <2>6. Sent' = Sent /\ \A s : InfoOf(s)' = InfoOf(s)
      BY <2>1, SlotUnchanged
    <2>7. pool.iCurID \notin Holding
      BY <2>3, <2>4, <2>5, HoldingIs
    <2>8. Holding' = {id \in InfoID : \/ \E s \in Sent : InfoOf(s) = id /\ HoldsSeis(s)'
                                      \/ cpc = "give" /\ st.info = id}
      BY <2>1, <2>6 DEF Holding, HoldsSeis
    <2>9. Holding' = Holding \cup {pool.iCurID}
      BY <2>1, <2>3, <2>4, <2>8, HoldingIs
    <2> QED BY <1>2, <2>1, <2>7, <2>9
            DEF SetHLSInfos, FrameRefused, ReleaseAll, IdsGivenBack, CallbackGoes, Goes, Returns
  <1>3. CASE ReleaseAll
    <2>1. cpc = "ended" /\ cpc' = "ended" /\ Sent' = {} /\ apc = "join" /\ apc' = "destroyed"
      BY <1>3 DEF ReleaseAll, cbVars, Sent, Goes
    <2>2. Holding' = {}
      BY <2>1 DEF Holding
    <2> QED BY <1>3, <2>1, <2>2 DEF SetHLSInfos, IdsGivenBack
  <1>4. CASE FrameRefused
    <2>1. /\ apc = "send" /\ apc' = "idle" /\ next' = next + 1 /\ cpc' = cpc /\ st' = st
      BY <1>4 DEF FrameRefused, Returns, cbVars
    <2>2. ~AddSourceSent /\ ~SourceReleased /\ ~ReleaseAll /\ ~SetHLSInfos /\ ~IdsGivenBack
      BY <2>1 DEF AddSourceSent, SourceReleased, ReleaseAll, SetHLSInfos, IdsGivenBack, Goes, appVars
    <2>3. PICK c \in Sent : /\ SourceSent' = [SourceSent EXCEPT ![c] = <<0, 0>>]
                            /\ Sent' = Sent \ {c}
      BY <1>4, <2>2, SlotMoves
    <2>4. \A s \in Sent' : s \in Sent /\ InfoOf(s)' = InfoOf(s) /\ HoldsSeis(s)
      BY <1>1, <2>1, <2>3 DEF InfoOf, HoldsSeis, SourceSet
    <2>5. Holding' \subseteq {id \in InfoID : \/ \E s \in Sent' : InfoOf(s)' = id
                                              \/ cpc' = "give" /\ st'.info = id}
      BY DEF Holding
    <2>6. Holding' \subseteq Holding
      BY <2>1, <2>4, <2>5, HoldingIs
    <2> QED BY <1>4, <2>2, <2>6
  <1>5. CASE SourceReleased
    <2>1. /\ apc' = apc /\ next' = next /\ cpc = "source" /\ cpc' = "give" /\ st' = st
      BY <1>5 DEF SourceReleased, CallbackGoes, appVars
    <2>2. ~AddSourceSent /\ ~FrameRefused /\ ~ReleaseAll /\ ~SetHLSInfos /\ ~IdsGivenBack
      BY <2>1 DEF AddSourceSent, FrameRefused, ReleaseAll, SetHLSInfos, IdsGivenBack, Goes, Returns
    <2>3. PICK c \in Sent : /\ SourceSent[c] = <<st.frame, st.info>>
                            /\ SourceSent' = [SourceSent EXCEPT ![c] = <<0, 0>>]
                            /\ Sent' = Sent \ {c}
      BY <1>5, <2>2, SlotMoves
    <2>4. FrameOf(c) = st.frame /\ InfoOf(c) = st.info /\ st.frame < next /\ st.frame \in Nat
      BY <1>1, <2>1, <2>3 DEF FrameOf, InfoOf, GivingAgrees, Busy
    <2>5. HoldsSeis(c)
      BY <1>1, <2>4 DEF HoldsSeis
    <2>6. \A s \in Sent' : /\ InfoOf(s)' = InfoOf(s) /\ (HoldsSeis(s)' <=> HoldsSeis(s))
                           /\ s \in Sent /\ s # c
      BY <1>1, <2>1, <2>3 DEF InfoOf, FrameOf, HoldsSeis, SourceSet
    <2>7. Holding' = {id \in InfoID : \/ \E s \in Sent' : InfoOf(s)' = id /\ HoldsSeis(s)'
                                      \/ st.info = id}
      BY <2>1 DEF Holding, HoldsSeis
    <2>8. Holding' = Holding
      BY <2>1, <2>3, <2>4, <2>5, <2>6, <2>7, HoldingIs
    <2> QED BY <1>5, <2>2, <2>8
  <1>6. CASE AddSourceSent
    <2>1. /\ apc = "source" /\ apc' = "infos" /\ next' = next /\ cpc' = cpc /\ st' = st
      BY <1>6 DEF AddSourceSent, Goes, cbVars
    <2>2. ~FrameRefused /\ ~ReleaseAll /\ ~SetHLSInfos /\ ~IdsGivenBack
      BY <2>1 DEF FrameRefused, ReleaseAll, SetHLSInfos, IdsGivenBack, Goes, Returns, appVars
    <2>3. PICK c \in SourceSlot \ Sent :
            /\ SourceSent' = [SourceSent EXCEPT ![c] = <<next, pool.iCurID>>]
            /\ Sent' = Sent \cup {c}
      BY <1>6, SlotTaken
    <2>4. ~HoldsSeis(c)'
      BY <1>1, <2>1, <2>3 DEF HoldsSeis, FrameOf, SourceSet
    <2>5. \A s \in Sent : InfoOf(s)' = InfoOf(s) /\ FrameOf(s)' = FrameOf(s)
      BY <1>1, <2>3 DEF InfoOf, FrameOf, SourceSet
    <2>6. \A s \in Sent : HoldsSeis(s)' <=> HoldsSeis(s)
      BY <2>1, <2>5, NoEarlySlot DEF HoldsSeis, InSource
    <2>7. Holding' = {id \in InfoID : \/ \E s \in Sent' : InfoOf(s)' = id /\ HoldsSeis(s)'
                                      \/ cpc = "give" /\ st.info = id}
      BY <2>1 DEF Holding, HoldsSeis
    <2>8. Holding' = Holding
      BY <2>3, <2>4, <2>5, <2>6, <2>7, HoldingIs
    <2> QED BY <1>6, <2>2, <2>8
  <1>7. CASE ~SetHLSInfos /\ ~ReleaseAll /\ ~FrameRefused /\ ~SourceReleased /\ ~AddSourceSent
    <2>1. SourceSent' = SourceSent /\ Sent' = Sent
      BY <1>7, SlotMoves
    <2>2. \A s \in Sent : InfoOf(s)' = InfoOf(s) /\ (HoldsSeis(s)' <=> HoldsSeis(s))
      BY <1>7, <2>1, SlotUnchanged, HoldingKept
    <2>3. Holding' = {id \in InfoID : \/ \E s \in Sent : InfoOf(s) = id /\ HoldsSeis(s)
                                      \/ cpc' = "give" /\ st'.info = id}
      <3>1. Holding' = {id \in InfoID : \/ \E s \in Sent' : InfoOf(s)' = id /\ HoldsSeis(s)'
                                        \/ cpc' = "give" /\ st'.info = id}
        BY DEF Holding, HoldsSeis
      <3> QED BY <2>1, <2>2, <3>1
    <2>4. CASE IdsGivenBack
      <3>1. cpc = "give" /\ cpc' = "post" /\ st.info \in InfoID
        BY <2>4 DEF IdsGivenBack, CallbackGoes, EncTypes, ThreadsAgree, Busy
      <3>2. \A s \in Sent : InfoOf(s) # st.info
        BY <1>1, <3>1 DEF GivingAgrees
      <3> QED BY <1>7, <2>3, <2>4, <3>1, <3>2, HoldingIs
    <2>5. CASE ~IdsGivenBack
      <3>1. (cpc' = "give" <=> cpc = "give") /\ (cpc = "give" => st' = st)
        BY <1>7, <2>5, CallbackMoves, Writers DEF EndEncodingBegins
      <3> QED BY <1>7, <2>3, <2>5, <3>1, HoldingIs
    <2> QED BY <2>4, <2>5
  <1> QED BY <1>2, <1>3, <1>4, <1>5, <1>6, <1>7

---------------------------------------------------------------------------
(* Counts of HDR SEIs *)

\* The ids of the SEIs that nobody uses are those in the pool.
HdrFree(h) == /\ IsInjective(h.free)
              /\ \A x \in HdrID : x \in Range(h.free) <=> h.refs[x] = 0

LEMMA DecrIs ==
  ASSUME NEW h \in HdrSet, HdrFree(h), NEW id \in HdrID, h.refs[id] > 0
  PROVE  /\ HdrFree(DecrRefCount(h, id))
         /\ DecrRefCount(h, id).refs = [h.refs EXCEPT ![id] = @ - 1]
         /\ DecrRefCount(h, id).cur = h.cur /\ DecrRefCount(h, id).seis = h.seis
         /\ DecrRefCount(h, id) \in HdrSet
  <1> DEFINE r == [h.refs EXCEPT ![id] = @ - 1]
             f == IF h.refs[id] = 1 THEN Append(h.free, id) ELSE h.free
             g == DecrRefCount(h, id)
  <1>1. h.free \in Seq(HdrID) /\ h.refs \in [HdrID -> Int]
    BY DEF HdrSet
  <1>2. g.refs = r /\ g.free = f /\ g.cur = h.cur /\ g.seis = h.seis
    BY <1>1 DEF DecrRefCount, HdrSet
  <1>3. id \notin Range(h.free)
    BY DEF HdrFree
  <1>4. /\ IsInjective(f)
        /\ Range(f) = IF h.refs[id] = 1 THEN Range(h.free) \cup {id} ELSE Range(h.free)
    <2>1. CASE h.refs[id] = 1
      BY <1>1, <1>3, <2>1, AppendRange DEF HdrFree
    <2>2. CASE h.refs[id] # 1
      BY <2>2 DEF HdrFree
    <2> QED BY <2>1, <2>2
  <1>5. ASSUME NEW x \in HdrID PROVE x \in Range(f) <=> r[x] = 0
    <2>1. /\ x \in Range(h.free) <=> h.refs[x] = 0
          /\ h.refs[x] \in Int /\ h.refs[id] \in Int
      BY <1>1 DEF HdrFree
    <2>2. r[x] = IF x = id THEN h.refs[id] - 1 ELSE h.refs[x]
      BY <1>1
    <2> HIDE DEF f, r
    <2> QED BY <1>3, <1>4, <2>1, <2>2
  <1> HIDE DEF f, r
  <1>6. HdrFree(g)
    <2> HIDE DEF g
    <2> QED BY <1>2, <1>4, <1>5 DEF HdrFree
  <1> QED BY <1>2, <1>6, DecrType DEF r

\* The SEIs of the frames: SetHLSInfos stores them, and no other step
\* changes them, or the frame of an id that holds them.
LEMMA HoldersKeep ==
  ASSUME EncTypes, FramesAgree, [EncNext]_encVars, NEW id \in Holding'
  PROVE  /\ id \in InfoID
         /\ pool'.info[id].frame = pool.info[id].frame
         /\ SetHLSInfos /\ id = pool.iCurID =>
                pool'.info[id].iHDRID = hdr.cur /\ pool.info[id].frame = next
         /\ ~SetHLSInfos \/ id # pool.iCurID => pool'.info[id].iHDRID = pool.info[id].iHDRID
  <1>1. /\ pool \in PoolSet /\ pool.info \in [InfoID -> InfoSet] /\ id \in InfoID
        /\ hdr.cur \in HdrID \cup {INVALID_POOL_ID}
    BY DEF EncTypes, EncVarTypes, PoolSet, HdrSet, Holding
  <1>2. CASE GetFrameInfo
    <2>1. apc = "info" /\ apc' = "source" /\ next' = next /\ SourceSent' = SourceSent
          /\ cpc' = cpc /\ st' = st
      BY <1>2 DEF GetFrameInfo, Goes, cbVars
    <2>2. /\ ~SetHLSInfos /\ ~FrameRefused /\ ~ReleaseAll /\ ~IdsGivenBack
      BY <2>1 DEF SetHLSInfos, FrameRefused, ReleaseAll, IdsGivenBack, CallbackGoes, Goes, Returns
    <2>3. id \in Holding
      BY <2>2, HoldingMoves
    <2>4. id \notin Free
      BY <2>3 DEF Holding, FramesAgree, SlotsAgree, GivingAgrees
    <2>5. id # Head(pool.free)
      BY <1>2, <2>4, FrameInfoTaken, TailRange DEF Free
    <2>6. pool'.info[id] = pool.info[id]
      BY <1>1, <1>2, <2>5, FrameInfoTaken
    <2> QED BY <1>1, <2>2, <2>6
  <1>3. CASE SetHLSInfos
    <2>1. PICK a : pool' = [pool EXCEPT !.info[pool.iCurID].iHDRID = hdr.cur,
                                        !.info[pool.iCurID].bHDRChanged = a]
      BY <1>3 DEF SetHLSInfos
    <2>2. pool.iCurID \in InfoID /\ apc = "hls"
      BY <1>3 DEF SetHLSInfos, EncTypes, ThreadsAgree
    <2> DEFINE c == [pool.info[pool.iCurID] EXCEPT !.iHDRID = hdr.cur, !.bHDRChanged = a]
    <2>3. pool' = [pool EXCEPT !.info = [pool.info EXCEPT ![pool.iCurID] = c]]
      BY <1>1, <2>1, <2>2 DEF PoolSet, InfoSet
    <2>4. c.iHDRID = hdr.cur /\ c.frame = pool.info[pool.iCurID].frame
      BY <1>1, <2>2 DEF InfoSet
    <2> HIDE DEF c
    <2>5. pool'.info = [pool.info EXCEPT ![pool.iCurID] = c]
      BY <1>1, <2>3 DEF PoolSet
    <2>6. pool'.info[id] = IF id = pool.iCurID THEN c ELSE pool.info[id]
      BY <1>1, <2>5
    <2>7. pool.info[pool.iCurID].frame = next
      <3>1. PICK s \in Sent : SourceSent[s] = <<next, pool.iCurID>>
        BY <2>2 DEF FramesAgree, CurrentAgrees, InSource
      <3>2. FrameOf(s) = next /\ InfoOf(s) = pool.iCurID
        BY <3>1 DEF FrameOf, InfoOf
      <3> QED BY <3>2 DEF FramesAgree, SlotsAgree
    <2> QED BY <1>1, <1>3, <2>4, <2>6, <2>7
  <1>4. CASE UpdateEncoderInfos
    <2>1. PICK a, b, o : pool' = [pool EXCEPT !.info[pool.iCurID].uSpsId = a,
                                              !.info[pool.iCurID].uPpsId = b,
                                              !.info[pool.iCurID].offset = o]
      BY <1>4 DEF UpdateEncoderInfos
    <2>2. pool.iCurID \in InfoID /\ ~SetHLSInfos
      BY <1>4 DEF UpdateEncoderInfos, SetHLSInfos, EncTypes, ThreadsAgree
    <2> DEFINE c == [pool.info[pool.iCurID] EXCEPT !.uSpsId = a, !.uPpsId = b, !.offset = o]
    <2>3. pool' = [pool EXCEPT !.info = [pool.info EXCEPT ![pool.iCurID] = c]]
      BY <1>1, <2>1, <2>2 DEF PoolSet, InfoSet
    <2>4. /\ c.iHDRID = pool.info[pool.iCurID].iHDRID
          /\ c.frame = pool.info[pool.iCurID].frame
      BY <1>1, <2>2 DEF InfoSet
    <2> HIDE DEF c
    <2>5. pool'.info = [pool.info EXCEPT ![pool.iCurID] = c]
      BY <1>1, <2>3 DEF PoolSet
    <2>6. pool'.info[id] = IF id = pool.iCurID THEN c ELSE pool.info[id]
      BY <1>1, <2>5
    <2> QED BY <1>1, <2>2, <2>4, <2>6
  <1>5. CASE ~GetFrameInfo /\ ~SetHLSInfos /\ ~UpdateEncoderInfos
    <2>1. pool'.info = pool.info
      BY <1>5, Writers, FrameInfoGiven
    <2> QED BY <1>1, <1>5, <2>1
  <1> QED BY <1>2, <1>3, <1>4, <1>5

Same(x, y) == IF x = y THEN 1 ELSE 0

LEMMA HoldersFinite ==
  ASSUME NEW h
  PROVE  /\ IsFiniteSet(HoldingHdr(h)) /\ Cardinality(HoldingHdr(h)) \in Nat
         /\ Cardinality(HoldingHdr(h)') \in Nat
         /\ \A s : /\ s \notin HoldingHdr(h) =>
                          Cardinality(HoldingHdr(h) \cup {s}) = Cardinality(HoldingHdr(h)) + 1
                   /\ s \in HoldingHdr(h) =>
                          Cardinality(HoldingHdr(h) \ {s}) = Cardinality(HoldingHdr(h)) - 1
         /\ HoldingHdr(h)' \subseteq HoldingHdr(h)
                => Cardinality(HoldingHdr(h)') <= Cardinality(HoldingHdr(h))
  <1>1. HoldingHdr(h) \in SUBSET InfoID /\ HoldingHdr(h)' \in SUBSET InfoID
    BY DEF HoldingHdr, Holding
  <1> QED BY <1>1, FiniteSlots, FS_AddElement, FS_RemoveElement, FS_Subset

\* How many frames hold the SEIs h.
LEMMA HoldersMove ==
  ASSUME EncTypes, FramesAgree, [EncNext]_encVars, NEW h
  PROVE  LET n == Cardinality(HoldingHdr(h))
         IN  /\ SetHLSInfos => n' = n + Same(h, hdr.cur)
             /\ IdsGivenBack => n' = n - Same(h, pool.info[st.info].iHDRID)
             /\ FrameRefused \/ ReleaseAll => n' <= n
             /\ ~SetHLSInfos /\ ~FrameRefused /\ ~ReleaseAll /\ ~IdsGivenBack =>
                    n' = n /\ HoldingHdr(h)' = HoldingHdr(h)
  <1>1. CASE SetHLSInfos
    <2>1. pool.iCurID \in InfoID \ Holding /\ Holding' = Holding \cup {pool.iCurID}
      BY <1>1, HoldingMoves
    <2>2. HoldingHdr(h)' = IF h = hdr.cur THEN HoldingHdr(h) \cup {pool.iCurID} ELSE HoldingHdr(h)
      <3>1. \A id \in Holding' : /\ id = pool.iCurID => pool'.info[id].iHDRID = hdr.cur
                                 /\ id # pool.iCurID => pool'.info[id].iHDRID = pool.info[id].iHDRID
        BY <1>1, HoldersKeep
      <3> QED BY <2>1, <3>1 DEF HoldingHdr
    <2>3. pool.iCurID \notin HoldingHdr(h)
      BY <2>1 DEF HoldingHdr
    <2>4. ~FrameRefused /\ ~ReleaseAll /\ ~IdsGivenBack
      BY <1>1 DEF SetHLSInfos, FrameRefused, ReleaseAll, IdsGivenBack, CallbackGoes, Goes, cbVars
    <2>5. Cardinality(HoldingHdr(h)') = Cardinality(HoldingHdr(h)) + Same(h, hdr.cur)
      <3>1. CASE h = hdr.cur
        BY <2>2, <2>3, <3>1, HoldersFinite DEF Same
      <3>2. CASE h # hdr.cur
        BY <2>2, <3>2, HoldersFinite DEF Same
      <3> QED BY <3>1, <3>2
    <2> QED BY <1>1, <2>4, <2>5
  <1>2. CASE IdsGivenBack
    <2>1. st.info \in Holding /\ Holding' = Holding \ {st.info}
      BY <1>2, HoldingMoves
    <2>2. ~FrameRefused /\ ~ReleaseAll /\ ~SetHLSInfos
      BY <1>2 DEF SetHLSInfos, FrameRefused, ReleaseAll, IdsGivenBack, CallbackGoes, Goes, cbVars
    <2>3. \A id \in Holding' : pool'.info[id].iHDRID = pool.info[id].iHDRID
      BY <2>2, HoldersKeep
    <2>4. HoldingHdr(h)' = HoldingHdr(h) \ {st.info}
      BY <2>1, <2>3 DEF HoldingHdr
    <2>5. st.info \in HoldingHdr(h) <=> h = pool.info[st.info].iHDRID
      BY <2>1 DEF HoldingHdr
    <2>6. st.info \notin HoldingHdr(h) => HoldingHdr(h)' = HoldingHdr(h)
      BY <2>4
    <2>7. Cardinality(HoldingHdr(h)')
              = Cardinality(HoldingHdr(h)) - Same(h, pool.info[st.info].iHDRID)
      <3>1. CASE h = pool.info[st.info].iHDRID
        BY <2>4, <2>5, <3>1, HoldersFinite DEF Same
      <3>2. CASE h # pool.info[st.info].iHDRID
        BY <2>5, <2>6, <3>2, HoldersFinite DEF Same
      <3> QED BY <3>1, <3>2
    <2> QED BY <1>2, <2>2, <2>7
  <1>3. CASE FrameRefused \/ ReleaseAll
    <2>1. ~SetHLSInfos /\ ~IdsGivenBack
      BY <1>3 DEF SetHLSInfos, FrameRefused, ReleaseAll, IdsGivenBack, CallbackGoes, Goes, cbVars,
         Returns
    <2>2. \A id \in Holding' : id \in Holding /\ pool'.info[id].iHDRID = pool.info[id].iHDRID
      BY <1>3, <2>1, HoldersKeep, HoldingMoves
    <2>3. HoldingHdr(h)' \subseteq HoldingHdr(h)
      BY <2>2 DEF HoldingHdr
    <2> QED BY <1>3, <2>1, <2>3, HoldersFinite
  <1>4. CASE ~SetHLSInfos /\ ~FrameRefused /\ ~ReleaseAll /\ ~IdsGivenBack
    <2>1. \A id \in Holding' : pool'.info[id].iHDRID = pool.info[id].iHDRID
      BY <1>4, HoldersKeep
    <2>2. HoldingHdr(h)' = HoldingHdr(h)
      BY <1>4, <2>1, HoldingMoves DEF HoldingHdr
    <2> QED BY <1>4, <2>2
  <1> QED BY <1>1, <1>2, <1>3, <1>4

---------------------------------------------------------------------------
(* Every reference on HDR SEIs is one of a frame, or the current one *)

UsersOf(h) == Cardinality(HoldingHdr(h)) + Same(hdr.cur, h)
LEMMA UsersIs ==
  ASSUME NEW h
  PROVE  /\ HdrUsers(h) = UsersOf(h) /\ HdrUsers(h)' = UsersOf(h)'
         /\ UsersOf(h) \in Nat /\ UsersOf(h)' \in Nat
         /\ UsersOf(h)' = Cardinality(HoldingHdr(h)') + Same(hdr'.cur, h)
         /\ \A id \in HoldingHdr(h) : UsersOf(h) > 0
         /\ hdr.cur = h => UsersOf(h) > 0
  <1>1. \A id \in HoldingHdr(h) : Cardinality(HoldingHdr(h)) > 0
    BY HoldersFinite, FS_EmptySet
  <1> QED BY <1>1, HoldersFinite DEF HdrUsers, UsersOf, Same

\* What GetNextHDRSEIs has dropped, and the id it takes.
LEMMA Dropped ==
  ASSUME EncTypes, HdrCounts
  PROVE  /\ DropCurrent(hdr) \in HdrSet /\ HdrFree(DropCurrent(hdr))
         /\ DropCurrent(hdr).seis = hdr.seis
         /\ \A x \in HdrID : DropCurrent(hdr).refs[x] = hdr.refs[x] - Same(hdr.cur, x)
  <1>1. hdr \in HdrSet /\ hdr.refs \in [HdrID -> Int] /\ hdr.cur \in HdrID \cup {INVALID_POOL_ID}
    BY DEF EncTypes, EncVarTypes, HdrSet
  <1>2. HdrFree(hdr)
    BY DEF HdrCounts, HdrFree
  <1>3. CASE hdr.cur = INVALID_POOL_ID
    BY <1>1, <1>2, <1>3, Ranges DEF DropCurrent, Same
  <1>4. CASE hdr.cur # INVALID_POOL_ID
    <2>1. hdr.cur \in HdrID
      BY <1>1, <1>4
    <2>2. hdr.refs[hdr.cur] > 0
      <3>1. /\ hdr.refs[hdr.cur] >= UsersOf(hdr.cur) /\ UsersOf(hdr.cur) > 0
            /\ UsersOf(hdr.cur) \in Nat
        BY <2>1, UsersIs DEF HdrCounts
      <3> QED BY <1>1, <2>1, <3>1
    <2>3. DropCurrent(hdr) = DecrRefCount(hdr, hdr.cur)
      BY <1>4 DEF DropCurrent
    <2>4. /\ DropCurrent(hdr) \in HdrSet /\ HdrFree(DropCurrent(hdr))
          /\ DropCurrent(hdr).seis = hdr.seis
          /\ DropCurrent(hdr).refs = [hdr.refs EXCEPT ![hdr.cur] = @ - 1]
      BY <1>1, <1>2, <2>1, <2>2, <2>3, DecrIs
    <2> QED BY <1>1, <2>4 DEF Same
  <1> QED BY <1>3, <1>4

LEMMA HdrIdTaken ==
  ASSUME EncTypes, HdrCounts, TakeHdrID
  PROVE  /\ hdr'.cur \in HdrID /\ HdrFree(hdr') /\ hdr'.seis = hdr.seis
         /\ hdr.refs[hdr'.cur] = Same(hdr.cur, hdr'.cur)
         /\ \A x \in HdrID : hdr'.refs[x] = hdr.refs[x] - Same(hdr.cur, x) + Same(hdr'.cur, x)
  <1> DEFINE h == DropCurrent(hdr)
             x == Head(h.free)
  <1>1. /\ h \in HdrSet /\ HdrFree(h) /\ h.seis = hdr.seis
        /\ \A y \in HdrID : h.refs[y] = hdr.refs[y] - Same(hdr.cur, y)
        /\ hdr.refs \in [HdrID -> Int]
    BY Dropped DEF EncTypes, EncVarTypes, HdrSet
  <1>2. /\ h.free # <<>>
        /\ hdr' = [h EXCEPT !.cur = x, !.free = Tail(h.free), !.refs[x] = 1]
    BY DEF TakeHdrID
  <1> HIDE DEF h
  <1>3. /\ h.free \in Seq(HdrID) /\ h.refs \in [HdrID -> Int]
    BY <1>1 DEF HdrSet
  <1>4. /\ x \in HdrID /\ x \in Range(h.free) /\ IsInjective(Tail(h.free))
        /\ Range(Tail(h.free)) = Range(h.free) \ {x}
    BY <1>1, <1>2, <1>3, TailRange DEF HdrFree
  <1> HIDE DEF x
  <1>5. /\ hdr'.cur = x /\ hdr'.free = Tail(h.free) /\ hdr'.seis = hdr.seis
        /\ hdr'.refs = [h.refs EXCEPT ![x] = 1]
    BY <1>1, <1>2, <1>4 DEF HdrSet
  <1>6. h.refs[x] = 0
    BY <1>1, <1>4 DEF HdrFree
  <1>7. HdrFree(hdr')
    BY <1>1, <1>3, <1>4, <1>5 DEF HdrFree
  <1>8. \A y, z : Same(y, z) \in Nat
    BY DEF Same
  <1>9. hdr.refs[x] = Same(hdr.cur, x)
    BY <1>1, <1>4, <1>6, <1>8
  <1>10. \A y \in HdrID : hdr'.refs[y] = hdr.refs[y] - Same(hdr.cur, y) + Same(x, y)
    BY <1>1, <1>3, <1>4, <1>5, <1>6, <1>8 DEF Same
  <1> QED BY <1>4, <1>5, <1>7, <1>9, <1>10

LEMMA HdrCountsStep ==
  ASSUME EncTypes, FramesAgree, HdrCounts, [EncNext]_encVars
  PROVE  /\ HdrCounts'
         /\ TakeHdrID => HoldingHdr(hdr'.cur) = {}
  <1>1. /\ hdr \in HdrSet /\ hdr.refs \in [HdrID -> Int] /\ HdrFree(hdr)
        /\ hdr.cur \in HdrID \cup {INVALID_POOL_ID} /\ INVALID_POOL_ID \notin HdrID
        /\ program' = program
        /\ \A h \in HdrID : /\ hdr.refs[h] >= UsersOf(h)
                            /\ ~Refusals /\ apc # "destroyed" => hdr.refs[h] = UsersOf(h)
        /\ hdr' \in HdrSet /\ hdr'.refs \in [HdrID -> Int]
    <2>1. hdr \in HdrSet /\ hdr' \in HdrSet /\ program' = program
      BY AppMoves, HdrType DEF EncTypes, EncVarTypes
    <2>2. \A h \in HdrID : /\ hdr.refs[h] >= UsersOf(h)
                           /\ ~Refusals /\ apc # "destroyed" => hdr.refs[h] = UsersOf(h)
      BY UsersIs DEF HdrCounts
    <2>3. HdrFree(hdr)
      BY DEF HdrCounts, HdrFree
    <2> QED BY <2>1, <2>2, <2>3, Ranges DEF HdrSet
  <1>2. (Refusals' <=> Refusals) /\ (apc' # "destroyed" => apc # "destroyed")
    <2>1. apc = "destroyed" => apc' = "destroyed"
      BY NothingAfterDestroy DEF encVars, appVars
    <2> QED BY <1>1, <2>1 DEF Refusals
  <1> DEFINE Counted(h) == /\ hdr'.refs[h] >= UsersOf(h)'
                           /\ ~Refusals /\ apc' # "destroyed" => hdr'.refs[h] = UsersOf(h)'
             n(h) == Cardinality(HoldingHdr(h))
  <1>3. ASSUME HdrFree(hdr'), \A h \in HdrID : Counted(h) PROVE HdrCounts'
    BY <1>2, <1>3, UsersIs DEF HdrCounts, HdrFree
  <1>4. \A h : /\ n(h) \in Nat /\ n(h)' \in Nat
               /\ UsersOf(h) = n(h) + Same(hdr.cur, h)
               /\ UsersOf(h)' = n(h)' + Same(hdr'.cur, h)
    BY UsersIs, HoldersFinite DEF UsersOf
  <1>5. \A x, y : Same(x, y) = IF x = y THEN 1 ELSE 0
    BY DEF Same
  <1>6. \A h : /\ SetHLSInfos => n(h)' = n(h) + Same(h, hdr.cur)
               /\ IdsGivenBack => n(h)' = n(h) - Same(h, pool.info[st.info].iHDRID)
               /\ FrameRefused \/ ReleaseAll => n(h)' <= n(h)
               /\ ~SetHLSInfos /\ ~FrameRefused /\ ~ReleaseAll /\ ~IdsGivenBack =>
                      n(h)' = n(h) /\ HoldingHdr(h)' = HoldingHdr(h)
    BY HoldersMove
  <1> HIDE DEF n
  <1>7. CASE TakeHdrID
    <2>1. /\ hdr'.cur \in HdrID /\ HdrFree(hdr') /\ hdr.refs[hdr'.cur] = Same(hdr.cur, hdr'.cur)
          /\ \A x \in HdrID : hdr'.refs[x] = hdr.refs[x] - Same(hdr.cur, x) + Same(hdr'.cur, x)
      BY <1>7, HdrIdTaken
    <2>2. ~SetHLSInfos /\ ~FrameRefused /\ ~ReleaseAll /\ ~IdsGivenBack
      BY <1>7 DEF TakeHdrID, SetHLSInfos, FrameRefused, ReleaseAll, IdsGivenBack, Call,
                  CallbackGoes, appVars, Goes
    <2>3. \A h \in HdrID : Counted(h)
      BY <1>1, <1>2, <1>4, <1>5, <1>6, <2>1, <2>2
    <2>4. n(hdr'.cur) = 0
      BY <1>1, <1>4, <1>5, <2>1
    <2>5. HoldingHdr(hdr'.cur) = {}
      BY <2>4, HoldersFinite, FS_EmptySet DEF n
    <2> QED BY <1>3, <2>1, <2>3, <2>5
  <1> SUFFICES ASSUME ~TakeHdrID PROVE HdrCounts'
    BY <1>7
  <1>8. CASE SetHLSInfos
    <2>1. apc = "hls" /\ apc' = "send"
      BY <1>8 DEF SetHLSInfos, Goes
    <2>2. CASE hdr.cur = INVALID_POOL_ID
      <3>1. hdr' = hdr
        BY <1>8, <2>2 DEF SetHLSInfos
      <3>2. \A h \in HdrID : n(h)' = n(h)
        BY <1>1, <1>4, <1>5, <1>6, <1>8, <2>2
      <3>3. \A h \in HdrID : Counted(h)
        BY <1>1, <1>2, <1>4, <3>1, <3>2
      <3> QED BY <1>1, <1>3, <3>1, <3>3
    <2>3. CASE hdr.cur # INVALID_POOL_ID
      <3>1. hdr.cur \in HdrID
        BY <1>1, <2>3
      <3>2. hdr' = [hdr EXCEPT !.refs[hdr.cur] = @ + 1, !.bHDRChanged = FALSE]
        BY <1>8, <2>3 DEF SetHLSInfos
      <3>3. /\ hdr'.refs = [hdr.refs EXCEPT ![hdr.cur] = @ + 1]
            /\ hdr'.cur = hdr.cur /\ hdr'.free = hdr.free
        BY <1>1, <3>1, <3>2 DEF HdrSet
      <3>4. \A h \in HdrID : hdr'.refs[h] = hdr.refs[h] + Same(h, hdr.cur)
        BY <1>1, <3>1, <3>3 DEF Same
      <3>5. \A h \in HdrID : Counted(h)
        BY <1>1, <1>2, <1>4, <1>5, <1>6, <1>8, <3>3, <3>4
      <3>6. hdr.refs[hdr.cur] > 0
        BY <1>1, <1>4, <1>5, <3>1
      <3>7. HdrFree(hdr')
        <4>1. \A h \in HdrID : hdr'.refs[h] = 0 <=> hdr.refs[h] = 0
          BY <1>1, <1>5, <3>4, <3>6
        <4> QED BY <1>1, <3>3, <4>1 DEF HdrFree
      <3> QED BY <1>3, <3>5, <3>7
    <2> QED BY <2>2, <2>3
  <1>9. CASE IdsGivenBack
    <2> DEFINE x == pool.info[st.info].iHDRID
    <2>1. st.info \in Holding
      BY <1>9, HoldingMoves
    <2>2. x \in HdrID \cup {INVALID_POOL_ID}
      BY <2>1 DEF EncTypes, EncVarTypes, PoolSet, InfoSet, Holding
    <2>3. hdr' = IF x = INVALID_POOL_ID THEN hdr ELSE DecrRefCount(hdr, x)
      BY <1>9 DEF IdsGivenBack
    <2>4. \A h : n(h)' = n(h) - Same(h, x)
      BY <1>6, <1>9
    <2>5. x \in HdrID => n(x) > 0
      <3>1. st.info \in HoldingHdr(x)
        BY <2>1 DEF HoldingHdr
      <3> QED BY <3>1, HoldersFinite, FS_EmptySet DEF n
    <2> HIDE DEF x
    <2>6. CASE x = INVALID_POOL_ID
      <3>1. \A h \in HdrID : n(h)' = n(h)
        BY <1>1, <1>4, <1>5, <2>4, <2>6
      <3>2. \A h \in HdrID : Counted(h)
        BY <1>1, <1>2, <1>4, <2>3, <2>6, <3>1
      <3> QED BY <1>1, <1>3, <2>3, <2>6, <3>2
    <2>7. CASE x # INVALID_POOL_ID
      <3>1. x \in HdrID /\ hdr.refs[x] > 0
        BY <1>1, <1>4, <1>5, <2>2, <2>5, <2>7
      <3>2. /\ HdrFree(hdr') /\ hdr'.cur = hdr.cur
            /\ hdr'.refs = [hdr.refs EXCEPT ![x] = @ - 1]
        BY <1>1, <2>3, <2>7, <3>1, DecrIs
      <3>3. \A h \in HdrID : hdr'.refs[h] = hdr.refs[h] - Same(h, x)
        BY <1>1, <3>1, <3>2 DEF Same
      <3>4. \A h \in HdrID : Counted(h)
        BY <1>1, <1>2, <1>4, <1>5, <2>4, <3>2, <3>3
      <3> QED BY <1>3, <3>2, <3>4
    <2> QED BY <2>6, <2>7
  <1>10. CASE ~SetHLSInfos /\ ~IdsGivenBack
    <2>1. hdr'.refs = hdr.refs /\ hdr'.cur = hdr.cur /\ hdr'.free = hdr.free
      <3>1. CASE CopyHdr
        BY <1>1, <3>1 DEF CopyHdr, HdrSet
      <3> QED BY <1>10, <3>1, Writers
    <2>2. HdrFree(hdr')
      BY <1>1, <2>1 DEF HdrFree
    <2>3. /\ FrameRefused => Refusals
          /\ ReleaseAll => apc' = "destroyed"
      BY DEF FrameRefused, ReleaseAll, Goes
    <2>4. \A h : n(h)' <= n(h) /\ (n(h)' = n(h) \/ Refusals \/ apc' = "destroyed")
      BY <1>4, <1>6, <1>10, <2>3
    <2>5. \A h \in HdrID : Counted(h)
      BY <1>1, <1>2, <1>4, <1>5, <2>1, <2>4
    <2> QED BY <1>3, <2>2, <2>5
  <1> QED BY <1>8, <1>9, <1>10

---------------------------------------------------------------------------
(* The SEIs a frame holds are the last ones set before it *)

LEMMA LatestNext ==
  ASSUME NEW n \in Nat \ {0}
  PROVE  LatestHdr(n + 1) = IF program[n].op = "hdr" THEN n ELSE LatestHdr(n)
  <1> DEFINE S == LastOf("hdr", n)
             T == LastOf("hdr", n + 1)
  <1>1. /\ T = IF program[n].op = "hdr" THEN S \cup {n} ELSE S
        /\ \A k \in S : k \in Nat /\ k < n
    BY DEF LastOf
  <1>2. CASE program[n].op = "hdr"
    <2>1. n \in T /\ \A k \in T : k \in Nat /\ n >= k
      BY <1>1, <1>2
    <2> HIDE DEF T
    <2>2. Max(T) = n
      <3>1. \A x \in T : (\A y \in T : x >= y) => x = n
        BY <2>1
      <3> QED BY <2>1, <3>1 DEF Max
    <2> QED BY <1>2, <2>1, <2>2 DEF LatestHdr, T
  <1>3. CASE program[n].op # "hdr"
    <2>1. T = S
      BY <1>1, <1>3
    <2> QED BY <1>3, <2>1 DEF LatestHdr
  <1> QED BY <1>2, <1>3

\* The calls that return.
LEMMA ReturningCalls ==
  ASSUME [EncNext]_encVars, next' # next
  PROVE  /\ \/ PutHandsOver \/ CopyHdr \/ SetParameters \/ ProcessRejects \/ ProcessEos
            \/ FrameSent \/ FrameRefused
         /\ next' = next + 1 /\ apc' = "idle"
  BY DEF EncNext, Application, Process, CallbackThread, Firmware, encVars, appVars,
       cbVars, Goes, Returns, CallbackGoes, Destroyed, DestroyChannel,
       CallbackThreadEnds, ReleaseAll, PutTakesSlot,
       PutHandsOver, TakeHdrID, CopyHdr, SetParameters, ProcessRejects, ProcessEos,
       ProcessEnters, WaitReadiness, GetFrameInfo, AddSourceSent, UpdateEncoderInfos,
       SetHLSInfos, FrameSent, FrameRefused, EncodePart, ReportEos, EndEncodingEos,
       EndEncodingBegins, WriteSections, CallbackTakesSlot, CallbackHandsOver,
       SourceReleased, IdsGivenBack, TokenReleased, StreamReleased

LEMMA Returning ==
  ASSUME EncTypes, [EncNext]_encVars, next' # next
  PROVE  /\ next' = next + 1 /\ next \in DOMAIN program /\ apc' = "idle"
         /\ ~CopyHdr => apc # "copy" /\ Now.op # "hdr"
  <1>1. /\ program \in Seq(Calls) /\ next \in Nat \ {0} /\ Len(program) \in Nat
        /\ DOMAIN program = 1 .. Len(program)
    BY EncAssumption, LenProperties DEF EncTypes, ThreadsAgree
  <1>2. /\ \/ PutHandsOver \/ CopyHdr \/ SetParameters \/ ProcessRejects \/ ProcessEos
           \/ FrameSent \/ FrameRefused
        /\ next' = next + 1 /\ apc' = "idle"
    BY ReturningCalls
  <1>3. CASE PutHandsOver \/ FrameSent \/ FrameRefused
    <2>1. apc \in {"put", "send"}
      BY <1>3 DEF PutHandsOver, FrameSent, FrameRefused
    <2>2. next \in DOMAIN program /\ Now.op \in {"put", "frame"}
      BY <2>1 DEF EncTypes, ThreadsAgree, Framing
    <2> QED BY <1>2, <2>1, <2>2
  <1>4. CASE SetParameters \/ ProcessRejects \/ ProcessEos
    <2>1. /\ apc = "idle" /\ next <= Len(program)
          /\ Now.op \in {"resolution", "offsets", "frame", "eos"}
      BY <1>4 DEF SetParameters, ProcessRejects, ProcessEos, Call, Now
    <2> QED BY <1>1, <1>2, <2>1
  <1>5. CASE CopyHdr
    BY <1>2, <1>5 DEF CopyHdr, EncTypes, ThreadsAgree
  <1> QED BY <1>2, <1>3, <1>4, <1>5

LEMMA SeisMoves ==
  ASSUME EncTypes, HdrCounts, [EncNext]_encVars
  PROVE  /\ hdr.seis \in [HdrID -> Nat]
         /\ CopyHdr => /\ hdr'.seis = [hdr.seis EXCEPT ![hdr.cur] = next]
                       /\ hdr.cur \in HdrID /\ apc = "copy" /\ Now.op = "hdr"
                       /\ next' = next + 1
         /\ ~CopyHdr => hdr'.seis = hdr.seis
         /\ TakeHdrID => apc' = "copy" /\ next' = next
         /\ ~TakeHdrID => hdr'.cur = hdr.cur
  <1>1. hdr \in HdrSet /\ pool \in PoolSet
    BY DEF EncTypes, EncVarTypes
  <1>2. CASE CopyHdr
    <2>1. apc = "copy" /\ Now.op = "hdr" /\ hdr.cur \in HdrID /\ next' = next + 1
      BY <1>1, <1>2 DEF CopyHdr, EncTypes, ThreadsAgree, HdrSet, Returns
    <2>2. apc' = "idle"
      BY <1>2 DEF CopyHdr, Returns
    <2> QED BY <1>1, <1>2, <2>1, <2>2 DEF CopyHdr, HdrSet, TakeHdrID, Call
  <1>3. CASE TakeHdrID
    <2>1. apc = "idle" /\ apc' = "copy" /\ next' = next
      BY <1>3 DEF TakeHdrID, Call, Goes
    <2> QED BY <1>1, <1>3, <2>1, HdrIdTaken DEF CopyHdr, HdrSet
  <1>4. CASE SetHLSInfos
    <2>1. apc = "hls"
      BY <1>4 DEF SetHLSInfos
    <2> QED BY <1>1, <1>4, <2>1 DEF SetHLSInfos, HdrSet, TakeHdrID, CopyHdr, Call
  <1>5. CASE IdsGivenBack
    <2>1. apc' = apc /\ next' = next
      BY <1>5 DEF IdsGivenBack, appVars
    <2>2. ~TakeHdrID /\ ~CopyHdr
      BY <2>1 DEF TakeHdrID, CopyHdr, Goes, Returns, Call
    <2>3. PICK x : hdr' = hdr \/ hdr' = DecrRefCount(hdr, x)
      BY <1>5 DEF IdsGivenBack
    <2> QED BY <1>1, <2>1, <2>2, <2>3 DEF DecrRefCount, HdrSet
  <1>6. CASE ~CopyHdr /\ ~TakeHdrID /\ ~SetHLSInfos /\ ~IdsGivenBack
    BY <1>1, <1>6, Writers DEF HdrSet
  <1> QED BY <1>2, <1>3, <1>4, <1>5, <1>6

\* SeisOf in any state.
SeisIn(seis, h) == IF h = INVALID_POOL_ID THEN 0 ELSE seis[h]

LEMMA SeisStep ==
  ASSUME EncTypes, FramesAgree, HdrCounts, SeisAgree, [EncNext]_encVars
  PROVE  SeisAgree'
  <1>1. /\ program' = program /\ next \in Nat \ {0}
        /\ hdr.cur \in HdrID \cup {INVALID_POOL_ID} /\ INVALID_POOL_ID \notin HdrID
        /\ hdr.seis \in [HdrID -> Nat]
    BY AppMoves, Ranges, SeisMoves DEF EncTypes, EncVarTypes, ThreadsAgree, HdrSet
  <1>2. \A n : LatestHdr(n)' = LatestHdr(n)
    BY <1>1 DEF LatestHdr, LastOf
  <1>3. ASSUME NEW x \in HdrID \cup {INVALID_POOL_ID}, CopyHdr => x # hdr.cur
        PROVE  SeisIn(hdr'.seis, x) = SeisIn(hdr.seis, x)
    <2>1. CASE CopyHdr
      BY <1>1, <1>3, <2>1, SeisMoves DEF SeisIn
    <2>2. CASE ~CopyHdr
      BY <2>2, SeisMoves DEF SeisIn
    <2> QED BY <2>1, <2>2
  <1>4. ASSUME apc' # "copy" PROVE LatestHdr(next') = SeisIn(hdr'.seis, hdr'.cur)
    <2>1. ~TakeHdrID /\ hdr'.cur = hdr.cur
      BY <1>4, SeisMoves
    <2>2. CASE next' = next
      <3>1. apc # "copy" /\ ~CopyHdr
        BY <1>1, <1>4, <2>2, AppMoves, SeisMoves DEF PutTakesSlot, ProcessEnters, DestroyChannel,
           ReleaseAll, Call
      <3>2. LatestHdr(next) = SeisIn(hdr.seis, hdr.cur)
        BY <3>1 DEF SeisAgree, SeisOf, SeisIn
      <3> QED BY <1>1, <1>3, <2>1, <2>2, <3>1, <3>2
    <2>3. CASE next' # next
      <3>1. next' = next + 1 /\ (~CopyHdr => apc # "copy" /\ Now.op # "hdr")
        BY <2>3, Returning
      <3>2. LatestHdr(next + 1) = IF Now.op = "hdr" THEN next ELSE LatestHdr(next)
        BY <1>1, LatestNext DEF Now
      <3>3. CASE CopyHdr
        <4>1. /\ hdr'.seis = [hdr.seis EXCEPT ![hdr.cur] = next] /\ hdr.cur \in HdrID
              /\ Now.op = "hdr"
          BY <3>3, SeisMoves
        <4>2. SeisIn(hdr'.seis, hdr.cur) = next
          BY <1>1, <2>1, <4>1 DEF SeisIn
        <4> QED BY <2>1, <3>1, <3>2, <4>1, <4>2
      <3>4. CASE ~CopyHdr
        <4>1. LatestHdr(next) = SeisIn(hdr.seis, hdr.cur)
          BY <3>1, <3>4 DEF SeisAgree, SeisOf, SeisIn
        <4>2. hdr'.seis = hdr.seis
          BY <3>4, SeisMoves
        <4> QED BY <2>1, <3>1, <3>2, <3>4, <4>1, <4>2 DEF SeisIn
      <3> QED BY <3>3, <3>4
    <2> QED BY <2>2, <2>3
  <1>5. ASSUME apc' = "copy" PROVE HoldingHdr(hdr.cur)' = {}
    <2>1. PICK x : x = hdr'.cur
      OBVIOUS
    <2>2. ~SetHLSInfos
      BY <1>5 DEF SetHLSInfos, Goes
    <2>3. HoldingHdr(x) = {}
      <3>1. CASE TakeHdrID
        BY <2>1, <3>1, HdrCountsStep
      <3>2. CASE ~TakeHdrID
        <4>1. apc = "copy" /\ hdr'.cur = hdr.cur
          BY <1>5, <3>2, AppMoves, SeisMoves
        <4> QED BY <2>1, <4>1 DEF SeisAgree, SeisOf, SeisIn
      <3> QED BY <3>1, <3>2
    <2>4. \A id \in Holding' : id \in Holding /\ pool'.info[id].iHDRID = pool.info[id].iHDRID
      BY <2>2, HoldingMoves, HoldersKeep
    <2>5. HoldingHdr(x)' = {}
      BY <2>3, <2>4 DEF HoldingHdr
    <2> QED BY <2>1, <2>5 DEF HoldingHdr
  <1>6. ASSUME NEW id \in Holding'
        PROVE  LatestHdr(pool'.info[id].frame) = SeisIn(hdr'.seis, pool'.info[id].iHDRID)
    <2>1. pool'.info[id].frame = pool.info[id].frame
      BY HoldersKeep
    <2>2. CASE SetHLSInfos /\ id = pool.iCurID
      <3>1. pool'.info[id].iHDRID = hdr.cur /\ pool.info[id].frame = next
        BY <2>2, HoldersKeep
      <3>2. apc = "hls" /\ apc' = "send" /\ next' = next
        BY <2>2 DEF SetHLSInfos, Goes
      <3>3. LatestHdr(next) = SeisIn(hdr.seis, hdr.cur)
        BY <3>2 DEF SeisAgree, SeisOf, SeisIn
      <3>4. ~CopyHdr
        BY <3>2 DEF CopyHdr
      <3> QED BY <1>1, <1>3, <2>1, <3>1, <3>3, <3>4
    <2>3. CASE ~(SetHLSInfos /\ id = pool.iCurID)
      <3>1. pool'.info[id].iHDRID = pool.info[id].iHDRID /\ id \in Holding
        BY <2>3, HoldersKeep, HoldingMoves
      <3>2. LatestHdr(pool.info[id].frame) = SeisIn(hdr.seis, pool.info[id].iHDRID)
        BY <3>1 DEF SeisAgree, SeisOf, SeisIn
      <3>3. CopyHdr => pool.info[id].iHDRID # hdr.cur
        BY <3>1, SeisMoves DEF SeisAgree, HoldingHdr
      <3>4. pool.info[id].iHDRID \in HdrID \cup {INVALID_POOL_ID}
        BY <3>1 DEF EncTypes, EncVarTypes, PoolSet, InfoSet, Holding
      <3> QED BY <1>3, <2>1, <3>1, <3>2, <3>3, <3>4
    <2> QED BY <2>2, <2>3
  <1> QED BY <1>2, <1>4, <1>5, <1>6 DEF SeisAgree, SeisOf, SeisIn

---------------------------------------------------------------------------
(* The frame-info ids of the frames with the firmware *)

LEMMA InfoPrivate ==
  ASSUME EncTypes, FramesAgree, SeisAgree, apc # "destroyed"
  PROVE  InfoIsPrivate
  <1> DEFINE Good(p) == /\ p.info \in Holding /\ p.info \notin Free
                        /\ pool.info[p.info].frame = p.frame
  <1>1. ASSUME NEW p, HasSlot(p) PROVE Good(p)
    <2>1. PICK s \in Sent : SourceSent[s] = <<p.frame, p.info>> /\ p.frame < next
      BY <1>1 DEF HasSlot, HeldBy
    <2>2. FrameOf(s) = p.frame /\ InfoOf(s) = p.info
      BY <2>1 DEF FrameOf, InfoOf
    <2>3. FrameOf(s) # next
      BY <2>1, <2>2, SlotTypes DEF EncTypes, ThreadsAgree
    <2> QED BY <2>2, <2>3, SlotTypes DEF Holding, FramesAgree, SlotsAgree
  <1>2. cpc = "give" => Good(st)
    BY DEF FramesAgree, GivingAgrees, Holding, EncTypes, ThreadsAgree, Busy
  <1>3. ASSUME NEW p \in Parts PROVE Good(p)
    <2>1. PartsHeld
      BY DEF FramesAgree
    <2>2. \/ \E i \in DOMAIN hw.jobs : p = hw.jobs[i]
          \/ \E i \in DOMAIN hw.busy : p = hw.busy[i]
          \/ \E i \in DOMAIN hw.status : p = hw.status[i] /\ p # EndOfStreamStatus
          \/ p = st /\ Active
          \/ p = st /\ cpc = "give"
      BY DEF Parts, Active
    <2>3. HasSlot(p) \/ (p = st /\ cpc = "give")
      BY <2>1, <2>2 DEF PartsHeld
    <2> HIDE DEF Good
    <2> QED BY <1>1, <1>2, <2>3
  <1>4. ASSUME NEW p \in Parts
        PROVE  LET i == pool.info[p.info]
               IN  /\ i.frame = p.frame
                   /\ \A k \in DOMAIN pool.free : pool.free[k] # p.info
                   /\ LatestHdr(p.frame) = IF i.iHDRID = INVALID_POOL_ID THEN 0 ELSE hdr.seis[i.iHDRID]
    <2>1. LatestHdr(p.frame) = SeisOf(pool.info[p.info].iHDRID)
      BY <1>3 DEF SeisAgree
    <2>2. \A k \in DOMAIN pool.free : pool.free[k] # p.info
      BY <1>3 DEF Free, Range
    <2> QED BY <1>3, <2>1, <2>2 DEF SeisOf
  <1> QED BY <1>4 DEF InfoIsPrivate

LEMMA EncHdrInit == EncInit => EncHdr
  <1> SUFFICES ASSUME EncInit PROVE EncHdr
    OBVIOUS
  <1>1. FramesAgree /\ Sent = {}
    BY FramesInit
  <1>2. /\ apc = "idle" /\ cpc = "wait" /\ next = 1 /\ hdr.cur = INVALID_POOL_ID
        /\ hdr.free = [k \in 1 .. ENC_MAX_CMD |-> k - 1]
        /\ \A h \in HdrID : hdr.refs[h] = 0
    BY DEF EncInit
  <1>3. Holding = {}
    BY <1>1, <1>2 DEF Holding
  <1>4. \A h \in HdrID : HdrUsers(h) = 0
    <2>1. \A h : HoldingHdr(h) = {}
      BY <1>3 DEF HoldingHdr
    <2>2. \A h \in HdrID : hdr.cur # h
      BY <1>2, Ranges
    <2> QED BY <2>1, <2>2, FS_EmptySet DEF HdrUsers
  <1>5. IsInjective(hdr.free) /\ Range(hdr.free) = HdrID
    <2>1. ENC_MAX_CMD \in Nat
      BY Ranges
    <2>2. IsInjective(hdr.free)
      BY <1>2, <2>1 DEF IsInjective
    <2>3. \A x \in HdrID : x + 1 \in DOMAIN hdr.free /\ hdr.free[x + 1] = x
      BY <1>2, <2>1 DEF HdrID
    <2>4. \A k \in DOMAIN hdr.free : hdr.free[k] \in HdrID
      BY <1>2, <2>1 DEF HdrID
    <2> QED BY <2>2, <2>3, <2>4 DEF Range
  <1>6. HdrCounts
    <2>1. \A h \in HdrID : /\ hdr.refs[h] >= HdrUsers(h) /\ hdr.refs[h] = HdrUsers(h)
                           /\ h \in Range(hdr.free) <=> hdr.refs[h] = 0
      BY <1>2, <1>4, <1>5
    <2> QED BY <1>5, <2>1 DEF HdrCounts
  <1>7. LatestHdr(next) = 0
    <2>1. LastOf("hdr", 1) = {}
      BY DEF LastOf
    <2> QED BY <1>2, <2>1 DEF LatestHdr
  <1>8. SeisAgree
    BY <1>2, <1>3, <1>7 DEF SeisAgree, SeisOf
  <1> QED BY <1>2, <1>6, <1>8 DEF EncHdr

LEMMA EncHdrStep ==
  ASSUME EncTypes, EncFrames, EncHdr, [EncNext]_encVars PROVE EncHdr'
  <1>1. FramesAgree /\ HdrCounts /\ SeisAgree
    BY DEF EncFrames, EncHdr
  <1>2. ASSUME UNCHANGED <<program, pool, hdr, hw, cpc, st>>, InfoIsPrivate PROVE InfoIsPrivate'
    <2>1. Parts' = Parts
      BY <1>2 DEF Parts
    <2>2. \A n : LatestHdr(n)' = LatestHdr(n)
      BY <1>2 DEF LatestHdr, LastOf
    <2> QED BY <1>2, <2>1, <2>2 DEF InfoIsPrivate
  <1>3. ASSUME apc' = "destroyed" PROVE InfoIsPrivate'
    <2>1. CASE apc = "destroyed"
      <3>1. InfoIsPrivate
        BY <2>1 DEF EncHdr
      <3>2. UNCHANGED <<program, pool, hdr, hw, cpc, st>>
        BY <2>1, NothingAfterDestroy DEF encVars, appVars, cbVars
      <3> QED BY <1>2, <3>1, <3>2
    <2>2. CASE apc # "destroyed"
      <3>1. ReleaseAll
        BY <1>3, <2>2, AppMoves
      <3>2. UNCHANGED <<program, pool, hdr, hw, cpc, st>>
        BY <3>1 DEF ReleaseAll, Goes, cbVars
      <3>3. InfoIsPrivate
        BY <1>1, <2>2, InfoPrivate
      <3> QED BY <1>2, <3>2, <3>3
    <2> QED BY <2>1, <2>2
  <1> QED BY <1>1, <1>3, HdrCountsStep, SeisStep DEF EncHdr

\* The references on HDR SEIs are those of the frames in flight and of the
\* current SEIs, so that no SEIs a frame holds are overwritten.
THEOREM EncHdrAlways == EncSpec => [](EncTypes /\ EncFrames /\ EncHdr)
  <1>1. EncInit => EncTypes /\ EncFrames /\ EncHdr
    BY EncTypesInit, EncFramesInit, EncHdrInit
  <1>2. EncTypes /\ EncFrames /\ EncHdr /\ [EncNext]_encVars => (EncTypes /\ EncFrames /\ EncHdr)'
    BY EncTypesStep, EncFramesStep, EncHdrStep
  <1> QED BY <1>1, <1>2, PTL DEF EncSpec

\* While a frame is with the firmware or in the callback its frame-info id is
\* its own, and the HDR SEIs it refers to are the last ones set before it.
THEOREM InfoStaysPrivate == EncSpec => []InfoIsPrivate
  <1>1. EncTypes /\ EncFrames /\ EncHdr => InfoIsPrivate
    BY InfoPrivate DEF EncFrames, EncHdr
  <1> QED BY <1>1, EncHdrAlways, PTL
=============================================================================
