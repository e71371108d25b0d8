--------------------------- MODULE EncTypeProofs ---------------------------
(***************************************************************************)
(* What the variables of EncFlow are and where its threads are, for every  *)
(* number of B pictures, of stream buffers and of SPS, and for every       *)
(* program of the application.  The other proofs about the encoder start   *)
(* from here.                                                              *)
(***************************************************************************)
EXTENDS EncInvariant, QueueLemmas, FiniteSetTheorems, TLAPS

---------------------------------------------------------------------------
(* Which actions write which variable *)

LEMMA Writers ==
  ASSUME [EncNext]_encVars
  PROVE  /\ \/ ProcessEos \/ SetParameters \/ FrameSent \/ FrameRefused
            \/ chan' = chan
         /\ \/ WaitReadiness \/ TokenReleased
            \/ PendingEncodings' = PendingEncodings
         /\ \/ GetFrameInfo \/ UpdateEncoderInfos \/ SetHLSInfos \/ IdsGivenBack
            \/ pool' = pool
         /\ \/ TakeHdrID \/ CopyHdr \/ SetHLSInfos \/ IdsGivenBack
            \/ hdr' = hdr
         /\ \/ AddSourceSent \/ FrameRefused \/ SourceReleased \/ ReleaseAll
            \/ SourceSent' = SourceSent
         /\ \/ PutTakesSlot \/ CallbackTakesSlot \/ EndEncodingBegins
            \/ ring' = ring
         /\ \/ PutTakesSlot \/ CallbackTakesSlot
            \/ curStreamSent' = curStreamSent
         /\ \/ UpdateEncoderInfos \/ WriteSections
            \/ heads' = heads
         /\ \/ PutHandsOver \/ CallbackHandsOver \/ GetFrameInfo \/ FrameRefused
            \/ SourceReleased \/ StreamReleased \/ ReleaseAll
            \/ refs' = refs
         /\ \/ PutHandsOver \/ CallbackHandsOver \/ ProcessEos \/ FrameSent \/ EncodePart
            \/ ReportEos \/ EndEncodingEos \/ EndEncodingBegins \/ DestroyChannel
            \/ hw' = hw
         /\ EndEncodingBegins \/ st' = st
         /\ program' = program
         /\ next' = next \/ (next' = next + 1 /\ apc' = "idle")
         /\ Application \/ DestroyChannel \/ UNCHANGED <<apc, next>>
         /\ CallbackThread \/ cpc' = cpc
  <1> USE DEF EncNext, Application, Process, CallbackThread, Firmware, encVars, appVars,
         cbVars, streams, Goes, Returns, CallbackGoes, Destroyed, DestroyChannel,
         CallbackThreadEnds, ReleaseAll, PutTakesSlot,
         PutHandsOver, TakeHdrID, CopyHdr, SetParameters, ProcessRejects, ProcessEos,
         ProcessEnters, WaitReadiness, GetFrameInfo, AddSourceSent, UpdateEncoderInfos,
         SetHLSInfos, FrameSent, FrameRefused, EncodePart,
         ReportEos, EndEncodingEos, EndEncodingBegins, WriteSections, CallbackTakesSlot,
         CallbackHandsOver, SourceReleased, IdsGivenBack, TokenReleased, StreamReleased
  <1>1. ProcessEos \/ SetParameters \/ FrameSent \/ FrameRefused \/ chan' = chan
    OBVIOUS
  <1>2. WaitReadiness \/ TokenReleased \/ PendingEncodings' = PendingEncodings
    OBVIOUS
  <1>3. \/ GetFrameInfo \/ UpdateEncoderInfos \/ SetHLSInfos \/ IdsGivenBack
        \/ pool' = pool
    OBVIOUS
  <1>4. TakeHdrID \/ CopyHdr \/ SetHLSInfos \/ IdsGivenBack \/ hdr' = hdr
    OBVIOUS
  <1>5. \/ AddSourceSent \/ FrameRefused \/ SourceReleased \/ ReleaseAll
        \/ SourceSent' = SourceSent
    OBVIOUS
  <1>6. PutTakesSlot \/ CallbackTakesSlot \/ EndEncodingBegins \/ ring' = ring
    OBVIOUS
  <1>7. PutTakesSlot \/ CallbackTakesSlot \/ curStreamSent' = curStreamSent
    OBVIOUS
  <1>8. UpdateEncoderInfos \/ WriteSections \/ heads' = heads
    OBVIOUS
  <1>9. \/ PutHandsOver \/ CallbackHandsOver \/ GetFrameInfo \/ FrameRefused
        \/ SourceReleased \/ StreamReleased \/ ReleaseAll
        \/ refs' = refs
    OBVIOUS
  <1>10. \/ PutHandsOver \/ CallbackHandsOver \/ ProcessEos \/ FrameSent \/ EncodePart
         \/ ReportEos \/ EndEncodingEos \/ EndEncodingBegins \/ DestroyChannel
         \/ hw' = hw
    OBVIOUS
  <1>11. EndEncodingBegins \/ st' = st
    OBVIOUS
  <1>12. program' = program
    OBVIOUS
  <1>13. next' = next \/ (next' = next + 1 /\ apc' = "idle")
    OBVIOUS
  <1>14. Application \/ DestroyChannel \/ UNCHANGED <<apc, next>>
    OBVIOUS
  <1>15. CallbackThread \/ cpc' = cpc
    OBVIOUS
  <1> QED BY <1>1, <1>2, <1>3, <1>4, <1>5, <1>6, <1>7, <1>8, <1>9, <1>10, <1>11, <1>12, <1>13, <1>14, <1>15

---------------------------------------------------------------------------
(* Type correctness *)

\* What a call of the application carries.
LEMMA CallTypes ==
  ASSUME program \in Programs, NEW n \in DOMAIN program
  PROVE  /\ program \in Seq(Calls) /\ n \in Nat \ {0} /\ n <= Len(program)
         /\ program[n].op = "put" => program[n].buf \in StreamBuf
         /\ program[n].op = "resolution" => program[n].dim \in Nat
         /\ program[n].op = "offsets" => program[n].offset \in Nat
         /\ program[n].op = "frame" => /\ program[n].qp \in BOOLEAN
                                       /\ program[n].parts \in Nat \ {0}
  <1>1. program \in Seq(Calls) /\ DOMAIN program = 1 .. Len(program) /\ Len(program) \in Nat
    BY EncAssumption, LenProperties
  <1>2. program[n] \in Calls
    BY <1>1, ElementOfSeq
  <1>3. PICK c \in Calls : c = program[n]
    BY <1>2
  <1>4. /\ c.op = "put" => c.buf \in StreamBuf
        /\ c.op = "resolution" => c.dim \in Nat
        /\ c.op = "offsets" => c.offset \in Nat
        /\ c.op = "frame" => c.qp \in BOOLEAN /\ c.parts \in Nat \ {0}
    <2>1. CASE c \in {Hdr, Misfit, EndOfInput}
      <3>1. CASE c = Hdr
        BY <3>1 DEF Hdr
      <3>2. CASE c = Misfit
        BY <3>2 DEF Misfit
      <3>3. CASE c = EndOfInput
        BY <3>3 DEF EndOfInput
      <3> QED BY <2>1, <3>1, <3>2, <3>3
    <2>2. CASE c \in {Put(b) : b \in StreamBuf}
      BY <2>2 DEF Put
    <2>3. CASE c \in {Resolution(d) : d \in 1 .. 2} \cup {Offsets(o) : o \in 1 .. 4}
      BY <2>3 DEF Resolution, Offsets
    <2>4. CASE c \in {Frame(t, k) : t \in BOOLEAN, k \in 1 .. 2}
      BY <2>4 DEF Frame
    <2> QED BY <2>1, <2>2, <2>3, <2>4 DEF Calls
  <1> QED BY <1>1, <1>3, <1>4

\* The ranges of ids and of places.
LEMMA Ranges ==
  /\ ENC_MAX_CMD \in Nat /\ ENC_MAX_CMD >= 4
  /\ InfoID \subseteq Nat /\ INVALID_POOL_ID \notin InfoID
  /\ HdrID \subseteq Nat /\ INVALID_POOL_ID \notin HdrID
  /\ \A x \in SpsID : x \in Nat /\ (x + 1) % iMaxSpsIds \in SpsID
  /\ \A x \in PpsID : x \in Nat /\ (x + 1) % MAX_PPS_IDS \in PpsID
  /\ \A x \in Int : x % AL_MAX_STREAM_BUFFER \in Slot
  /\ \A x \in Slot : x \in Nat
  /\ 0 \in Slot
  /\ iMaxSpsIds - 1 \in SpsID /\ MAX_PPS_IDS - 1 \in PpsID /\ 0 \in SpsID /\ 0 \in PpsID
  <1>1. ENC_MAX_CMD \in Nat /\ ENC_MAX_CMD >= 4 /\ MAX_PPS_IDS \in Nat \ {0}
        /\ iMaxSpsIds \in Nat \ {0} /\ AL_MAX_STREAM_BUFFER \in Nat \ {0}
    BY EncAssumption DEF ENC_MAX_CMD, MAX_PPS_IDS
  <1>2. \A n \in Nat \ {0} : \A x \in Int : x % n \in 0 .. n - 1
    OBVIOUS
  <1> QED BY <1>1, <1>2 DEF InfoID, HdrID, SpsID, PpsID, Slot, INVALID_POOL_ID

\* Every action stores values of the variable's type.
LEMMA ChanType ==
  ASSUME EncTypes, [EncNext]_encVars PROVE chan' \in ChanSet
  <1>1. chan \in ChanSet /\ program \in Programs
    BY DEF EncTypes, EncVarTypes, ThreadsAgree
  <1>2. CASE SetParameters
    <2>1. apc = "idle" /\ next \in DOMAIN program
      BY <1>1, <1>2, EncAssumption, LenProperties
         DEF SetParameters, Call, EncTypes, ThreadsAgree
    <2> QED BY <1>1, <1>2, <2>1, CallTypes DEF SetParameters, Call, Now, ChanSet
  <1>3. CASE ProcessEos \/ FrameSent \/ FrameRefused
    BY <1>1, <1>3 DEF ProcessEos, FrameSent, FrameRefused, ChanSet
  <1> QED BY <1>1, <1>2, <1>3, Writers

\* The SPS and the PPS of a frame.
LEMMA SpsTypes ==
  ASSUME NEW h \in HeadsSet, NEW d \in Nat
  PROVE  GetSps(h, d) \in HeadsSet
  <1>1. /\ h.iPrevSps \in SpsID /\ NextSps(h) \in SpsID
    BY Ranges DEF HeadsSet, NextSps
  <1>2. [dim |-> d, iRefCnt |-> 1, bHasBeenSent |-> FALSE] \in SpsSet
    BY DEF SpsSet
  <1>3. [h.sps[h.iPrevSps] EXCEPT !.iRefCnt = @ + 1] \in SpsSet
    BY <1>1 DEF HeadsSet, SpsSet
  <1> QED BY <1>1, <1>2, <1>3 DEF GetSps, HeadsSet

LEMMA PpsTypes ==
  ASSUME NEW h \in HeadsSet, NEW s \in SpsID, NEW o \in Nat
  PROVE  GetPps(h, s, o) \in HeadsSet
  <1>1. /\ h.iPrevPps \in PpsID /\ NextPps(h) \in PpsID
    BY Ranges DEF HeadsSet, NextPps
  <1>2. [uSpsId |-> s, offset |-> o, iRefCnt |-> 1, bHasBeenSent |-> FALSE] \in PpsSet
    BY Ranges DEF PpsSet
  <1>3. [h.pps[h.iPrevPps] EXCEPT !.iRefCnt = @ + 1] \in PpsSet
    BY <1>1 DEF HeadsSet, PpsSet
  <1> QED BY <1>1, <1>2, <1>3 DEF GetPps, HeadsSet

\* Storing into one field of a record, or one place of a table.
LEMMA InfoUpdates ==
  \A c \in InfoSet :
      /\ \A a \in SpsID, b \in PpsID, o \in Nat :
            [c EXCEPT !.uSpsId = a, !.uPpsId = b, !.offset = o] \in InfoSet
      /\ \A h \in HdrID \cup {INVALID_POOL_ID}, t \in BOOLEAN :
            [c EXCEPT !.iHDRID = h, !.bHDRChanged = t] \in InfoSet
  BY DEF InfoSet

LEMMA CountUpdates ==
  ASSUME NEW S, NEW r \in [S -> Int], NEW x \in S, NEW n \in Int
  PROVE  [r EXCEPT ![x] = n] \in [S -> Int]
  OBVIOUS

LEMMA PoolType ==
  ASSUME EncTypes, [EncNext]_encVars PROVE pool' \in PoolSet
  <1>1. /\ pool \in PoolSet /\ program \in Programs /\ chan \in ChanSet /\ heads \in HeadsSet
        /\ hdr \in HdrSet /\ next \in Nat
    BY DEF EncTypes, EncVarTypes, ThreadsAgree
  <1>2. /\ pool.free \in Seq(InfoID) /\ pool.info \in [InfoID -> InfoSet]
        /\ pool.iCurID \in InfoID \cup {INVALID_POOL_ID}
        /\ pool = [iCurID |-> pool.iCurID, free |-> pool.free, info |-> pool.info]
    BY <1>1 DEF PoolSet
  <1>3. CASE GetFrameInfo
    <2>1. next \in DOMAIN program /\ Now.qp \in BOOLEAN
      BY <1>1, <1>3, CallTypes DEF GetFrameInfo, EncTypes, ThreadsAgree, Framing, Now
    <2> DEFINE id == Head(pool.free)
               i == [pool.info[id] EXCEPT !.frame = next, !.qp = Now.qp]
    <2>2. id \in InfoID /\ Tail(pool.free) \in Seq(InfoID)
      BY <1>2, <1>3, HeadTailProperties DEF GetFrameInfo
    <2>3. i \in InfoSet
      BY <1>1, <1>2, <2>1, <2>2 DEF InfoSet
    <2>4. pool' = [iCurID |-> id, free |-> Tail(pool.free),
                   info |-> [pool.info EXCEPT ![id] = i]]
      BY <1>2, <1>3, <2>2 DEF GetFrameInfo
    <2> HIDE DEF id, i
    <2> QED BY <1>2, <2>2, <2>3, <2>4 DEF PoolSet
  <1>4. CASE UpdateEncoderInfos
    <2>1. chan.dim \in Nat /\ chan.offset \in Nat
      BY <1>1 DEF ChanSet
    <2>2. pool.iCurID \in InfoID
      BY <1>4 DEF UpdateEncoderInfos, EncTypes, ThreadsAgree
    <2>3. PICK g \in HeadsSet :
             pool' = [pool EXCEPT !.info[pool.iCurID].uSpsId = g.iPrevSps,
                                  !.info[pool.iCurID].uPpsId = g.iPrevPps,
                                  !.info[pool.iCurID].offset = chan.offset]
      <3> DEFINE h == GetSps(heads, chan.dim)
      <3>1. h \in HeadsSet /\ h.iPrevSps \in SpsID
        BY <1>1, <2>1, SpsTypes DEF HeadsSet
      <3>2. GetPps(h, h.iPrevSps, chan.offset) \in HeadsSet
        BY <2>1, <3>1, PpsTypes
      <3> QED BY <1>4, <3>2 DEF UpdateEncoderInfos
    <2>4. g.iPrevSps \in SpsID /\ g.iPrevPps \in PpsID
      BY DEF HeadsSet
    <2>5. PICK i \in InfoSet :
             pool' = [iCurID |-> pool.iCurID, free |-> pool.free,
                      info |-> [pool.info EXCEPT ![pool.iCurID] = i]]
      <3>1. pool.info[pool.iCurID] \in InfoSet
        BY <1>2, <2>2
      <3>2. PICK c \in InfoSet : c = pool.info[pool.iCurID]
        BY <3>1
      <3>3. [c EXCEPT !.uSpsId = g.iPrevSps, !.uPpsId = g.iPrevPps, !.offset = chan.offset]
               \in InfoSet
        BY <2>1, <2>4, InfoUpdates
      <3> QED BY <1>2, <2>2, <2>3, <3>2, <3>3
    <2> QED BY <1>2, <2>2, <2>5 DEF PoolSet
  <1>5. CASE SetHLSInfos
    <2> DEFINE i == [pool.info[pool.iCurID] EXCEPT !.iHDRID = hdr.cur,
                        !.bHDRChanged = hdr.bHDRChanged]
    <2>1. pool.iCurID \in InfoID
      BY <1>5 DEF SetHLSInfos, EncTypes, ThreadsAgree
    <2>2. pool' = [iCurID |-> pool.iCurID, free |-> pool.free,
                   info |-> [pool.info EXCEPT ![pool.iCurID] = i]]
      BY <1>2, <1>5, <2>1 DEF SetHLSInfos
    <2>3. i \in InfoSet
      <3>1. pool.info[pool.iCurID] \in InfoSet
        BY <1>2, <2>1
      <3>2. hdr.cur \in HdrID \cup {INVALID_POOL_ID} /\ hdr.bHDRChanged \in BOOLEAN
        BY <1>1 DEF HdrSet
      <3> QED BY <3>1, <3>2, InfoUpdates
    <2> HIDE DEF i
    <2> QED BY <1>2, <2>1, <2>2, <2>3 DEF PoolSet
  <1>6. CASE IdsGivenBack
    <2>1. st.info \in InfoID
      BY <1>6 DEF IdsGivenBack, EncTypes, ThreadsAgree, Busy
    <2>2. pool' = [iCurID |-> pool.iCurID, free |-> Append(pool.free, st.info),
                   info |-> pool.info]
      BY <1>2, <1>6 DEF IdsGivenBack
    <2> QED BY <1>2, <2>1, <2>2, AppendProperties DEF PoolSet
  <1> QED BY <1>1, <1>3, <1>4, <1>5, <1>6, Writers

LEMMA DecrType ==
  ASSUME NEW h \in HdrSet, NEW id \in HdrID
  PROVE  DecrRefCount(h, id) \in HdrSet
  <1> DEFINE f == IF h.refs[id] = 1 THEN Append(h.free, id) ELSE h.free
             r == [h.refs EXCEPT ![id] = @ - 1]
  <1>1. f \in Seq(HdrID)
    BY AppendProperties DEF HdrSet
  <1>2. r \in [HdrID -> Int]
    BY DEF HdrSet
  <1>3. DecrRefCount(h, id) = [h EXCEPT !.refs = r, !.free = f]
    BY DEF DecrRefCount, HdrSet
  <1> HIDE DEF f, r
  <1> QED BY <1>1, <1>2, <1>3 DEF HdrSet

LEMMA HdrType ==
  ASSUME EncTypes, [EncNext]_encVars PROVE hdr' \in HdrSet
  <1>1. hdr \in HdrSet /\ pool \in PoolSet /\ next \in Nat
    BY DEF EncTypes, EncVarTypes, ThreadsAgree
  <1>2. CASE TakeHdrID
    <2> DEFINE h == DropCurrent(hdr)
    <2>1. h \in HdrSet
      BY <1>1, DecrType DEF DropCurrent, HdrSet
    <2> HIDE DEF h
    <2>2. h.free \in Seq(HdrID)
      BY <2>1 DEF HdrSet
    <2>3. h.free # <<>> /\ hdr' = [h EXCEPT !.cur = Head(h.free), !.free = Tail(h.free),
                                  !.refs[Head(h.free)] = 1]
      BY <1>2 DEF TakeHdrID, h
    <2>4. Head(h.free) \in HdrID /\ Tail(h.free) \in Seq(HdrID)
      BY <2>2, <2>3, HeadTailProperties
    <2> DEFINE r == [h.refs EXCEPT ![Head(h.free)] = 1]
    <2>5. r \in [HdrID -> Int]
      <3>1. h.refs \in [HdrID -> Int]
        BY <2>1 DEF HdrSet
      <3> QED BY <2>4, <3>1, CountUpdates
    <2>6. hdr' = [h EXCEPT !.cur = Head(h.free), !.free = Tail(h.free), !.refs = r]
      BY <2>1, <2>3 DEF HdrSet
    <2> HIDE DEF r
    <2> QED BY <2>1, <2>4, <2>5, <2>6 DEF HdrSet
  <1>3. CASE CopyHdr
    <2> DEFINE r == [hdr.seis EXCEPT ![hdr.cur] = next]
    <2>1. r \in [HdrID -> Nat] /\ hdr' = [hdr EXCEPT !.seis = r, !.bHDRChanged = TRUE]
      BY <1>1, <1>3 DEF CopyHdr, HdrSet
    <2> HIDE DEF r
    <2> QED BY <1>1, <2>1 DEF HdrSet
  <1>4. CASE SetHLSInfos
    <2> DEFINE r == [hdr.refs EXCEPT ![hdr.cur] = @ + 1]
    <2>1. hdr.cur \in HdrID => r \in [HdrID -> Int]
      <3>1. hdr.refs \in [HdrID -> Int]
        BY <1>1 DEF HdrSet
      <3>2. hdr.cur \in HdrID => hdr.refs[hdr.cur] + 1 \in Int
        BY <3>1
      <3> QED BY <3>1, <3>2
    <2>2. \/ hdr' = hdr
          \/ hdr.cur \in HdrID /\ hdr' = [hdr EXCEPT !.refs = r, !.bHDRChanged = FALSE]
      BY <1>1, <1>4 DEF SetHLSInfos, HdrSet
    <2> HIDE DEF r
    <2> QED BY <1>1, <2>1, <2>2 DEF HdrSet
  <1>5. CASE IdsGivenBack
    <2>1. st.info \in InfoID
      BY <1>5 DEF IdsGivenBack, EncTypes, ThreadsAgree, Busy
    <2>2. pool.info[st.info].iHDRID \in HdrID \cup {INVALID_POOL_ID}
      BY <1>1, <2>1 DEF PoolSet, InfoSet
    <2> QED BY <1>1, <1>5, <2>2, DecrType DEF IdsGivenBack
  <1> QED BY <1>1, <1>2, <1>3, <1>4, <1>5, Writers

LEMMA ReleasedType ==
  /\ \A c \in SpsSet : Released(c) \in SpsSet
  /\ \A c \in PpsSet : Released(c) \in PpsSet
  <1>1. ASSUME NEW c \in SpsSet PROVE Released(c) \in SpsSet
    <2> DEFINE n == c.iRefCnt - 1
    <2>1. n \in Int /\ Released(c) = [c EXCEPT !.bHasBeenSent = TRUE, !.iRefCnt = n]
      BY DEF Released, SpsSet
    <2> HIDE DEF n
    <2> QED BY <2>1 DEF SpsSet
  <1>2. ASSUME NEW c \in PpsSet PROVE Released(c) \in PpsSet
    <2> DEFINE n == c.iRefCnt - 1
    <2>1. n \in Int /\ Released(c) = [c EXCEPT !.bHasBeenSent = TRUE, !.iRefCnt = n]
      BY DEF Released, PpsSet
    <2> HIDE DEF n
    <2> QED BY <2>1 DEF PpsSet
  <1> QED BY <1>1, <1>2

LEMMA HeadsType ==
  ASSUME EncTypes, [EncNext]_encVars PROVE heads' \in HeadsSet
  <1>1. /\ heads \in HeadsSet /\ chan \in ChanSet /\ pool \in PoolSet
    BY DEF EncTypes, EncVarTypes
  <1>2. CASE UpdateEncoderInfos
    <2> DEFINE h == GetSps(heads, chan.dim)
    <2>1. chan.dim \in Nat /\ chan.offset \in Nat
      BY <1>1 DEF ChanSet
    <2>2. h \in HeadsSet /\ h.iPrevSps \in SpsID
      BY <1>1, <2>1, SpsTypes DEF HeadsSet
    <2> QED BY <1>2, <2>1, <2>2, PpsTypes DEF UpdateEncoderInfos
  <1>3. CASE WriteSections
    <2>1. st.info \in InfoID
      BY <1>3 DEF WriteSections, EncTypes, ThreadsAgree, Busy
    <2> DEFINE i == pool.info[st.info]
    <2>2. i.uSpsId \in SpsID /\ i.uPpsId \in PpsID
      BY <1>1, <2>1 DEF PoolSet, InfoSet
    <2>3. SpsOf(heads, i) \in [id : SpsID, dim : Nat]
      BY <1>1, <2>2 DEF SpsOf, HeadsSet, SpsSet
    <2> HIDE DEF i
    <2>4. Released(heads.sps[i.uSpsId]) \in SpsSet /\ Released(heads.pps[i.uPpsId]) \in PpsSet
      <3>1. heads.sps[i.uSpsId] \in SpsSet /\ heads.pps[i.uPpsId] \in PpsSet
        BY <1>1, <2>2 DEF HeadsSet
      <3> QED BY <3>1, ReleasedType
    <2>5. \/ heads' = heads
          \/ heads' = [heads EXCEPT !.layerSps = SpsOf(heads, i),
                                   !.sps[i.uSpsId] = Released(@),
                                   !.pps[i.uPpsId] = Released(@)]
      BY <1>3 DEF WriteSections, i
    <2> DEFINE a == [heads.sps EXCEPT ![i.uSpsId] = Released(@)]
               b == [heads.pps EXCEPT ![i.uPpsId] = Released(@)]
    <2>6. a \in [SpsID -> SpsSet] /\ b \in [PpsID -> PpsSet]
      BY <1>1, <2>2, <2>4 DEF HeadsSet
    <2>7. \/ heads' = heads
          \/ heads' = [heads EXCEPT !.layerSps = SpsOf(heads, i), !.sps = a, !.pps = b]
      BY <2>5, <1>1 DEF HeadsSet
    <2> HIDE DEF a, b
    <2> QED BY <1>1, <2>3, <2>6, <2>7 DEF HeadsSet
  <1> QED BY <1>1, <1>2, <1>3, Writers

LEMMA SourceType ==
  ASSUME EncTypes, [EncNext]_encVars PROVE SourceSent' \in SourceSet
  <1>1. SourceSent \in SourceSet
    BY DEF EncTypes, EncVarTypes
  <1>2. CASE AddSourceSent
    <2>1. pool.iCurID \in InfoID /\ next \in Nat \ {0}
      BY <1>2 DEF AddSourceSent, EncTypes, ThreadsAgree
    <2> QED BY <1>1, <1>2, <2>1 DEF AddSourceSent, SourceSet
  <1>3. CASE FrameRefused \/ SourceReleased \/ ReleaseAll
    BY <1>1, <1>3 DEF FrameRefused, SourceReleased, ReleaseAll, ReleaseSource, SourceSet
  <1> QED BY <1>1, <1>2, <1>3, Writers

LEMMA RingTypes ==
  ASSUME EncTypes, [EncNext]_encVars
  PROVE  ring' \in RingSet /\ curStreamSent' \in [app : Slot, cb : Slot]
  <1>1. /\ ring \in RingSet /\ curStreamSent \in [app : Slot, cb : Slot] /\ st \in StSet
        /\ program \in Programs
    BY DEF EncTypes, EncVarTypes, ThreadsAgree
  <1>2. \A x \in Slot : (x + 1) % AL_MAX_STREAM_BUFFER \in Slot
    BY Ranges
  <1>3. \A x \in {ring.Sent, ring.Recv} : (x + 1) % AL_MAX_STREAM_BUFFER \in Slot
    BY <1>1, <1>2 DEF RingSet
  <1>4. CASE PutTakesSlot
    <2>1. Now.buf \in StreamBuf
      <3>1. next \in DOMAIN program
        BY <1>1, <1>4, EncAssumption, LenProperties
           DEF PutTakesSlot, Call, EncTypes, ThreadsAgree
      <3> QED BY <1>1, <1>4, <3>1, CallTypes DEF PutTakesSlot, Call, Now
    <2> DEFINE r == [ring.StreamSent EXCEPT ![ring.Sent] = Now.buf]
    <2>2. r \in [Slot -> 0 .. NumStream]
      BY <1>1, <2>1 DEF RingSet, StreamBuf
    <2>3. /\ ring' = [ring EXCEPT !.Sent = (@ + 1) % AL_MAX_STREAM_BUFFER, !.StreamSent = r]
          /\ curStreamSent' = [curStreamSent EXCEPT !["app"] = ring.Sent]
      BY <1>1, <1>4 DEF PutTakesSlot, TakeSlot, RingSet
    <2> HIDE DEF r
    <2> QED BY <1>1, <1>3, <2>2, <2>3 DEF RingSet
  <1>5. CASE CallbackTakesSlot
    BY <1>1, <1>3, <1>5 DEF CallbackTakesSlot, TakeSlot, RingSet, StSet
  <1>6. CASE EndEncodingBegins
    BY <1>1, <1>3, <1>6 DEF EndEncodingBegins, RingSet
  <1> QED BY <1>1, <1>4, <1>5, <1>6, Writers

LEMMA CountChanges ==
  ASSUME NEW S, NEW r \in [S -> Int], NEW x
  PROVE  [r EXCEPT ![x] = @ + 1] \in [S -> Int] /\ [r EXCEPT ![x] = @ - 1] \in [S -> Int]
  <1>1. CASE x \in S
    <2>1. r[x] + 1 \in Int /\ r[x] - 1 \in Int
      BY <1>1
    <2> QED BY <1>1, <2>1, CountUpdates
  <1>2. CASE x \notin S
    BY <1>2
  <1> QED BY <1>1, <1>2

\* The sets of slots are finite.
LEMMA FiniteSlots ==
  /\ IsFiniteSet(SourceSlot) /\ IsFiniteSet(InfoID) /\ IsFiniteSet(Slot) /\ IsFiniteSet(StreamBuf)
  /\ \A S \in SUBSET SourceSlot : IsFiniteSet(S) /\ Cardinality(S) \in Nat
  /\ \A S \in SUBSET InfoID : IsFiniteSet(S) /\ Cardinality(S) \in Nat
  /\ \A S \in SUBSET Slot : IsFiniteSet(S) /\ Cardinality(S) \in Nat
  <1>1. AL_MAX_SOURCE_BUFFER \in Int /\ ENC_MAX_CMD \in Int /\ AL_MAX_STREAM_BUFFER \in Int
        /\ NumStream \in Int
    BY EncAssumption DEF AL_MAX_SOURCE_BUFFER, ENC_MAX_CMD
  <1>2. /\ IsFiniteSet(SourceSlot) /\ IsFiniteSet(InfoID) /\ IsFiniteSet(Slot)
        /\ IsFiniteSet(StreamBuf)
    BY <1>1, FS_Interval DEF SourceSlot, InfoID, Slot, StreamBuf
  <1> QED BY <1>2, FS_Subset, FS_CardinalityType

LEMMA WindowType == EncTypes => Window \in SUBSET Slot
  BY Ranges DEF Window, EncTypes, EncVarTypes, RingSet

LEMMA RefsRecord ==
  ASSUME program' = program,
         NEW a \in [StreamBuf -> Int], NEW b \in [DOMAIN program -> Int],
         NEW c \in [DOMAIN program -> Int], refs' = [stream |-> a, source |-> b, table |-> c]
  PROVE  refs' \in RefsSet'
  BY DEF RefsSet

\* releaseSource: the source and the QP table lose a reference.
LEMMA UnrefIs ==
  ASSUME refs \in RefsSet, NEW n, NEW id, NEW x, NEW y,
         x = OneLess(refs.source, n),
         y = IF pool.info[id].qp THEN OneLess(refs.table, pool.info[id].frame) ELSE refs.table
  PROVE  /\ Unref(refs, n, id).stream = refs.stream
         /\ Unref(refs, n, id).source = x
         /\ Unref(refs, n, id).table = y
         /\ x \in [DOMAIN program -> Int] /\ y \in [DOMAIN program -> Int]
         /\ Unref(refs, n, id) \in RefsSet
  <1>1. refs.source \in [DOMAIN program -> Int] /\ refs.table \in [DOMAIN program -> Int]
    BY DEF RefsSet
  <1>2. x \in [DOMAIN program -> Int] /\ y \in [DOMAIN program -> Int]
    BY <1>1, CountChanges DEF OneLess
  <1>3. Unref(refs, n, id) = [refs EXCEPT !.source = x, !.table = y]
    BY DEF Unref
  <1>4. [refs EXCEPT !.source = x, !.table = y] \in RefsSet
    BY <1>2 DEF RefsSet
  <1> QED BY <1>2, <1>3, <1>4 DEF RefsSet

LEMMA RefsType ==
  ASSUME EncTypes, [EncNext]_encVars PROVE refs' \in RefsSet'
  <1>1. /\ program' = program
        /\ refs.stream \in [StreamBuf -> Int] /\ refs.source \in [DOMAIN program -> Int]
        /\ refs.table \in [DOMAIN program -> Int]
        /\ refs = [stream |-> refs.stream, source |-> refs.source, table |-> refs.table]
    BY Writers DEF EncTypes, EncVarTypes, RefsSet
  <1>2. CASE PutHandsOver \/ CallbackHandsOver
    <2>1. PICK x : refs' = [refs EXCEPT !.stream[x] = @ + 1]
      BY <1>2 DEF PutHandsOver, CallbackHandsOver, HandOver
    <2>2. [refs.stream EXCEPT ![x] = @ + 1] \in [StreamBuf -> Int]
      BY <1>1, CountChanges
    <2>3. refs' = [stream |-> [refs.stream EXCEPT ![x] = @ + 1], source |-> refs.source,
                   table |-> refs.table]
      BY <1>1, <2>1
    <2> QED BY <1>1, <2>2, <2>3, RefsRecord
  <1>3. CASE StreamReleased
    <2>1. [refs.stream EXCEPT ![st.buf] = @ - 1] \in [StreamBuf -> Int]
      BY <1>1, CountChanges
    <2>2. refs' = [stream |-> [refs.stream EXCEPT ![st.buf] = @ - 1], source |-> refs.source,
                   table |-> refs.table]
      BY <1>1, <1>3 DEF StreamReleased
    <2> QED BY <1>1, <2>1, <2>2, RefsRecord
  <1>4. CASE GetFrameInfo
    <2> DEFINE b == [refs.source EXCEPT ![next] = @ + 1]
               c == IF Now.qp THEN [refs.table EXCEPT ![next] = @ + 1] ELSE refs.table
    <2>1. b \in [DOMAIN program -> Int] /\ c \in [DOMAIN program -> Int]
      BY <1>1, CountChanges
    <2>2. refs' = [stream |-> refs.stream, source |-> b, table |-> c]
      BY <1>1, <1>4 DEF GetFrameInfo
    <2> HIDE DEF b, c
    <2> QED BY <1>1, <2>1, <2>2, RefsRecord
  <1>5. CASE FrameRefused \/ SourceReleased
    <2>1. PICK n, id : refs' = Unref(refs, n, id)
      BY <1>5 DEF FrameRefused, SourceReleased, ReleaseSource
    <2>2. Unref(refs, n, id) \in RefsSet
      BY UnrefIs DEF EncTypes, EncVarTypes
    <2> QED BY <1>1, <2>1, <2>2 DEF RefsSet
  <1>6. CASE ReleaseAll
    <2>1. Window \in SUBSET Slot
      BY WindowType
    <2> DEFINE held == {s \in SourceSlot : SourceSent[s] # <<0, 0>>}
               Held1(n) == Cardinality({s \in held : SourceSent[s][1] = n})
               Tabled(n) == {s \in held : LET i == pool.info[SourceSent[s][2]]
                                          IN  i.qp /\ i.frame = n}
               Held2(n) == Cardinality(Tabled(n))
               a == [x \in StreamBuf |-> refs.stream[x] - TimesIn(ring.StreamSent, Window, x)]
               b == [n \in DOMAIN program |-> refs.source[n] - Held1(n)]
               c == [n \in DOMAIN program |-> refs.table[n] - Held2(n)]
    <2>2. a \in [StreamBuf -> Int]
      <3>1. \A x : TimesIn(ring.StreamSent, Window, x) \in Nat
        BY <2>1, FiniteSlots DEF TimesIn
      <3> QED BY <1>1, <3>1
    <2>3. b \in [DOMAIN program -> Int] /\ c \in [DOMAIN program -> Int]
      <3>1. \A n : Held1(n) \in Nat
        BY FiniteSlots
      <3>2. \A n : Held2(n) \in Nat
        BY FiniteSlots
      <3> HIDE DEF Held1, Held2
      <3>3. b \in [DOMAIN program -> Int]
        BY <1>1, <3>1
      <3>4. c \in [DOMAIN program -> Int]
        BY <1>1, <3>2
      <3> QED BY <3>3, <3>4
    <2>4. refs' = [stream |-> a, source |-> b, table |-> c]
      BY <1>6 DEF ReleaseAll
    <2> HIDE DEF a, b, c
    <2> QED BY <1>1, <2>2, <2>3, <2>4, RefsRecord
  <1>7. CASE refs' = refs
    BY <1>1, <1>7, RefsRecord
  <1> QED BY <1>2, <1>3, <1>4, <1>5, <1>6, <1>7, Writers

LEMMA StType ==
  ASSUME EncTypes, [EncNext]_encVars PROVE st' \in StSet
  <1>1. st \in StSet /\ hw \in HwSet /\ ring \in RingSet
    BY DEF EncTypes, EncVarTypes
  <1>2. CASE EndEncodingBegins
    <2>1. Head(hw.status) \in PartSet
      <3>1. hw.status \in Seq(PartSet \cup {EndOfStreamStatus})
        BY <1>1 DEF HwSet
      <3>2. Head(hw.status) \in PartSet \cup {EndOfStreamStatus}
        BY <1>2, <3>1, HeadTailProperties DEF EndEncodingBegins
      <3> QED BY <1>2, <3>2 DEF EndEncodingBegins
    <2>2. PICK s \in PartSet : st' = [s EXCEPT !.buf = ring.StreamSent[s.streamId]]
      BY <1>2, <2>1 DEF EndEncodingBegins
    <2>3. ring.StreamSent[s.streamId] \in 0 .. NumStream
      BY <1>1 DEF RingSet, PartSet
    <2> QED BY <2>2, <2>3 DEF PartSet, StSet
  <1> QED BY <1>1, <1>2, Writers

LEMMA NextPartType ==
  ASSUME NEW job \in JobSet, job.parts # 1 PROVE NextPart(job) \in JobSet
  <1> DEFINE n == job.parts - 1
  <1>1. n \in Nat \ {0} /\ NextPart(job) = [job EXCEPT !.parts = n]
    BY DEF NextPart, JobSet
  <1> HIDE DEF n
  <1> QED BY <1>1 DEF JobSet

\* What the firmware does when it encodes a part.
LEMMA EncodePartIs ==
  ASSUME hw \in HwSet, Len(hw.busy) <= 1, EncodePart
  PROVE  \E job \in JobSet, rest \in Seq(JobSet), first \in BOOLEAN, e \in BOOLEAN :
            /\ hw.bufs # <<>>
            /\ hw' = [hw EXCEPT !.jobs = rest, !.bufs = Tail(hw.bufs),
                                !.status = Append(hw.status, Status(job, first, e)),
                                !.busy = IF job.parts = 1 THEN <<>> ELSE <<NextPart(job)>>]
            /\ (e = FALSE \/ e = Errors)
            /\ \/ hw.busy = <<job>> /\ first = FALSE /\ rest = hw.jobs
               \/ /\ hw.busy = <<>> /\ first = TRUE
                  /\ \E i \in DOMAIN hw.jobs :
                        MayEncode(i) /\ job = hw.jobs[i] /\ rest = JobsAfter(i)
  <1>1. /\ hw.jobs \in Seq(JobSet) /\ hw.busy \in Seq(JobSet)
        /\ Len(hw.jobs) \in Nat /\ DOMAIN hw.jobs = 1 .. Len(hw.jobs)
    BY LenProperties DEF HwSet
  <1> DEFINE Does(job, rest, first, e) ==
                /\ hw.bufs # <<>>
                /\ hw' = [hw EXCEPT !.jobs = rest, !.bufs = Tail(hw.bufs),
                                !.status = Append(hw.status, Status(job, first, e)),
                                !.busy = IF job.parts = 1 THEN <<>> ELSE <<NextPart(job)>>]
                /\ (e = FALSE \/ e = Errors)
  <1>2. ASSUME NEW job \in JobSet, NEW first \in BOOLEAN, NEW rest, Encoded(job, first, rest)
        PROVE  \E e \in BOOLEAN : Does(job, rest, first, e)
    <2>1. Errors \in BOOLEAN
      BY DEF Errors
    <2> HIDE DEF Errors
    <2> QED BY <1>2, <2>1 DEF Encoded, HwSet
  <1>3. CASE hw.busy # <<>> /\ Encoded(Head(hw.busy), FALSE, hw.jobs)
    <2>1. hw.busy = <<Head(hw.busy)>> /\ Head(hw.busy) \in JobSet
      BY <1>1, <1>3
    <2>2. PICK e \in BOOLEAN : Does(Head(hw.busy), hw.jobs, FALSE, e)
      BY <1>2, <1>3, <2>1
    <2> HIDE DEF Does
    <2>3. \E job \in JobSet, rest \in Seq(JobSet), first \in BOOLEAN, f \in BOOLEAN :
            /\ Does(job, rest, first, f)
            /\ hw.busy = <<job>> /\ first = FALSE /\ rest = hw.jobs
      BY <1>1, <2>1, <2>2
    <2> QED BY <2>3 DEF Does
  <1>4. ASSUME NEW i \in DOMAIN hw.jobs, MayEncode(i), hw.busy = <<>>,
               Encoded(hw.jobs[i], TRUE, JobsAfter(i))
        PROVE  /\ hw.jobs[i] \in JobSet /\ JobsAfter(i) \in Seq(JobSet)
    <2>1. \A j \in 1 .. Len(hw.jobs) : hw.jobs[j] \in JobSet
      BY <1>1
    <2>2. \A j \in JobSet : [j EXCEPT !.overtaken = @ + 1] \in JobSet
      BY DEF JobSet
    <2>3. Len(hw.jobs) - 1 \in Nat /\ i \in 1 .. Len(hw.jobs)
      BY <1>1
    <2>4. JobsAfter(i) \in [1 .. Len(hw.jobs) - 1 -> JobSet]
      <3> DEFINE J(j) == IF j < i THEN [hw.jobs[j] EXCEPT !.overtaken = @ + 1] ELSE hw.jobs[j + 1]
      <3>1. \A j \in 1 .. Len(hw.jobs) - 1 : J(j) \in JobSet
        BY <2>1, <2>2, <2>3
      <3>2. JobsAfter(i) = [j \in 1 .. Len(hw.jobs) - 1 |-> J(j)]
        BY DEF JobsAfter
      <3> HIDE DEF J
      <3> QED BY <3>1, <3>2
    <2> QED BY <2>1, <2>3, <2>4, FunctionIsSeq
  <1>5. CASE ~(hw.busy # <<>> /\ Encoded(Head(hw.busy), FALSE, hw.jobs))
    <2>1. PICK i \in DOMAIN hw.jobs :
             MayEncode(i) /\ hw.busy = <<>> /\ Encoded(hw.jobs[i], TRUE, JobsAfter(i))
      BY <1>5 DEF EncodePart
    <2>2. hw.jobs[i] \in JobSet /\ JobsAfter(i) \in Seq(JobSet)
      BY <1>4, <2>1
    <2>3. PICK e \in BOOLEAN : Does(hw.jobs[i], JobsAfter(i), TRUE, e)
      BY <1>2, <2>1, <2>2
    <2> HIDE DEF Does
    <2>4. \E job \in JobSet, rest \in Seq(JobSet), first \in BOOLEAN, f \in BOOLEAN :
            /\ Does(job, rest, first, f)
            /\ hw.busy = <<>> /\ first = TRUE
            /\ \E k \in DOMAIN hw.jobs :
                  MayEncode(k) /\ job = hw.jobs[k] /\ rest = JobsAfter(k)
      BY <2>1, <2>2, <2>3
    <2> QED BY <2>4 DEF Does
  <1> QED BY <1>3, <1>5

\* The queues of the driver.
LEMMA HwType ==
  ASSUME EncTypes, [EncNext]_encVars
  PROVE  hw' \in HwSet /\ Len(hw'.busy) <= 1
  <1>1. /\ hw \in HwSet /\ pool \in PoolSet /\ next \in Nat \ {0} /\ Len(hw.busy) <= 1
        /\ chan \in ChanSet /\ curStreamSent \in [app : Slot, cb : Slot] /\ program \in Programs
    BY DEF EncTypes, EncVarTypes, ThreadsAgree
  <1>2. /\ hw.jobs \in Seq(JobSet) /\ hw.busy \in Seq(JobSet) /\ hw.bufs \in Seq((0 .. NumStream) \X Slot)
        /\ hw.status \in Seq(PartSet \cup {EndOfStreamStatus})
        /\ hw.alive \in BOOLEAN /\ hw.fresh \in BOOLEAN /\ hw.eos \in BOOLEAN
    BY <1>1 DEF HwSet
  <1>3. \A S : <<>> \in Seq(S)
    BY EmptySeq
  <1>4. CASE PutHandsOver \/ CallbackHandsOver
    <2>1. /\ PutHandsOver => next \in DOMAIN program /\ Now.op = "put"
          /\ st.buf \in 0 .. NumStream
      BY DEF PutHandsOver, EncTypes, EncVarTypes, ThreadsAgree, StSet
    <2>2. PutHandsOver => Now.buf \in 0 .. NumStream
      BY <1>1, <2>1, CallTypes DEF Now, StreamBuf
    <2>3. PICK e \in (0 .. NumStream) \X Slot : hw' = hw \/ hw' = [hw EXCEPT !.bufs = Append(@, e)]
      <3>1. CASE PutHandsOver
        <4>1. <<Now.buf, curStreamSent.app>> \in (0 .. NumStream) \X Slot
          BY <1>1, <2>2, <3>1
        <4> QED BY <3>1, <4>1 DEF PutHandsOver, HandOver
      <3>2. CASE CallbackHandsOver
        <4>1. <<st.buf, curStreamSent.cb>> \in (0 .. NumStream) \X Slot
          BY <1>1, <2>1
        <4> QED BY <3>2, <4>1 DEF CallbackHandsOver, HandOver
      <3> QED BY <1>4, <3>1, <3>2
    <2>4. \/ hw' = hw
          \/ hw' = [hw EXCEPT !.bufs = Append(hw.bufs, e)]
      BY <1>1, <2>3 DEF HwSet
    <2>5. Append(hw.bufs, e) \in Seq((0 .. NumStream) \X Slot)
      BY <1>2, AppendProperties
    <2>6. CASE hw' = [hw EXCEPT !.bufs = Append(hw.bufs, e)]
      <3>1. \A b \in Seq((0 .. NumStream) \X Slot) : [hw EXCEPT !.bufs = b] \in HwSet
        BY <1>1 DEF HwSet
      <3>2. hw' \in HwSet
        BY <2>5, <2>6, <3>1
      <3>3. hw'.busy = hw.busy
        BY <1>1, <2>6 DEF HwSet
      <3> QED BY <1>1, <3>2, <3>3
    <2> QED BY <1>1, <2>4, <2>6
  <1>5. CASE ProcessEos \/ DestroyChannel
    <2>1. \/ hw' = hw \/ hw' = [hw EXCEPT !.eos = TRUE]
          \/ hw' = [hw EXCEPT !.alive = FALSE, !.eos = FALSE,
                              !.jobs = <<>>, !.busy = <<>>, !.bufs = <<>>]
      BY <1>5 DEF ProcessEos, DestroyChannel
    <2>2. hw'.busy = hw.busy \/ hw'.busy = <<>>
      BY <1>1, <2>1 DEF HwSet
    <2>3. Len(hw'.busy) <= 1
      BY <1>1, <2>2
    <2>4. [hw EXCEPT !.eos = TRUE] \in HwSet
      BY <1>1 DEF HwSet
    <2>5. \A j \in Seq(JobSet), k \in Seq(JobSet), b \in Seq((0 .. NumStream) \X Slot) :
             [hw EXCEPT !.alive = FALSE, !.eos = FALSE, !.jobs = j, !.busy = k, !.bufs = b]
                \in HwSet
      BY <1>1 DEF HwSet
    <2>6. [hw EXCEPT !.alive = FALSE, !.eos = FALSE, !.jobs = <<>>, !.busy = <<>>, !.bufs = <<>>]
             \in HwSet
      <3>1. <<>> \in Seq(JobSet) /\ <<>> \in Seq((0 .. NumStream) \X Slot)
        BY <1>3
      <3> QED BY <2>5, <3>1
    <2>7. hw' \in HwSet
      BY <1>1, <2>1, <2>4, <2>6
    <2> QED BY <2>3, <2>7
  <1>6. CASE FrameSent
    <2>1. Job \in JobSet
      <3>1. Now.parts \in Nat \ {0} /\ pool.iCurID \in InfoID
        BY <1>1, <1>6, CallTypes DEF FrameSent, EncTypes, ThreadsAgree, Framing, Now
      <3>2. (chan.restart \/ hw.fresh) \in BOOLEAN
        OBVIOUS
      <3> QED BY <1>1, <3>1, <3>2 DEF Job, JobSet
    <2>2. Append(hw.jobs, Job) \in Seq(JobSet)
      BY <1>2, <2>1, AppendProperties
    <2>3. hw' = [hw EXCEPT !.jobs = Append(hw.jobs, Job), !.fresh = FALSE]
      BY <1>1, <1>6 DEF FrameSent, HwSet
    <2> QED BY <1>1, <2>2, <2>3 DEF HwSet
  <1>7. CASE EndEncodingEos \/ EndEncodingBegins
    <2>1. hw.status # <<>> /\ hw' = [hw EXCEPT !.status = Tail(hw.status)]
      BY <1>1, <1>7 DEF EndEncodingEos, EndEncodingBegins, HwSet
    <2> QED BY <1>1, <1>2, <2>1, HeadTailProperties DEF HwSet
  <1>8. CASE ReportEos
    <2>1. hw' = [hw EXCEPT !.eos = FALSE, !.status = Append(hw.status, EndOfStreamStatus)]
      BY <1>1, <1>8 DEF ReportEos, HwSet
    <2> QED BY <1>1, <1>2, <2>1, AppendProperties DEF HwSet
  <1>9. CASE EncodePart
    <2>1. PICK job \in JobSet, rest \in Seq(JobSet), first \in BOOLEAN, e \in BOOLEAN :
            /\ hw.bufs # <<>>
            /\ hw' = [hw EXCEPT !.jobs = rest, !.bufs = Tail(hw.bufs),
                                !.status = Append(hw.status, Status(job, first, e)),
                                !.busy = IF job.parts = 1 THEN <<>> ELSE <<NextPart(job)>>]
      BY <1>1, <1>9, EncodePartIs
    <2>2. Head(hw.bufs) \in (0 .. NumStream) \X Slot /\ Tail(hw.bufs) \in Seq((0 .. NumStream) \X Slot)
      BY <1>2, <2>1, HeadTailProperties
    <2>3. Status(job, first, e) \in PartSet
      BY <2>2 DEF Status, PartSet, JobSet
    <2>4. Append(hw.status, Status(job, first, e)) \in Seq(PartSet \cup {EndOfStreamStatus})
      BY <1>2, <2>3, AppendProperties
    <2> DEFINE b == IF job.parts = 1 THEN <<>> ELSE <<NextPart(job)>>
    <2>5. b \in Seq(JobSet) /\ Len(b) <= 1
      <3>1. job.parts # 1 => NextPart(job) \in JobSet
        BY NextPartType
      <3> QED BY <1>3, <3>1
    <2> DEFINE t == Tail(hw.bufs)
               s == Append(hw.status, Status(job, first, e))
    <2>6. hw' = [hw EXCEPT !.jobs = rest, !.bufs = t, !.status = s, !.busy = b]
      BY <2>1
    <2>7. t \in Seq((0 .. NumStream) \X Slot) /\ s \in Seq(PartSet \cup {EndOfStreamStatus})
      BY <2>2, <2>4
    <2> HIDE DEF t, s, b
    <2> QED BY <1>1, <2>5, <2>6, <2>7 DEF HwSet
  <1>10. CASE hw' = hw
    BY <1>1, <1>10
  <1> QED BY <1>4, <1>5, <1>6, <1>7, <1>8, <1>9, <1>10, Writers

---------------------------------------------------------------------------
(* Where the threads are *)

\* How the application's thread moves.
LEMMA AppMoves ==
  ASSUME [EncNext]_encVars
  PROVE  /\ program' = program
         /\ \/ apc' = apc /\ next' = next
            \/ /\ apc' = "idle" /\ next' = next + 1
               /\ \/ apc \in {"put", "copy", "send"}
                  \/ apc = "idle" /\ next <= Len(program)
            \/ apc' = "put" /\ next' = next /\ PutTakesSlot
            \/ apc' = "copy" /\ next' = next /\ TakeHdrID
            \/ apc' = "ready" /\ next' = next /\ ProcessEnters
            \/ apc = "ready" /\ apc' = "info" /\ next' = next /\ WaitReadiness
            \/ apc = "info" /\ apc' = "source" /\ next' = next /\ GetFrameInfo
            \/ apc = "source" /\ apc' = "infos" /\ next' = next /\ AddSourceSent
            \/ apc = "infos" /\ apc' = "hls" /\ next' = next /\ UpdateEncoderInfos
            \/ apc = "hls" /\ apc' = "send" /\ next' = next /\ SetHLSInfos
            \/ apc' = "join" /\ next' = next /\ DestroyChannel
            \/ apc' = "destroyed" /\ next' = next /\ ReleaseAll
  <1> USE DEF Goes, Returns
  <1>1. CASE Application
    <2>1. CASE PutTakesSlot \/ TakeHdrID \/ ReleaseAll
      BY <2>1 DEF PutTakesSlot, TakeHdrID, ReleaseAll
    <2>2. CASE PutHandsOver \/ CopyHdr \/ FrameSent \/ FrameRefused
      BY <2>2 DEF PutHandsOver, CopyHdr, FrameSent, FrameRefused
    <2>3. CASE SetParameters \/ ProcessRejects \/ ProcessEos
      BY <2>3 DEF SetParameters, ProcessRejects, ProcessEos, Call
    <2>4. CASE ProcessEnters \/ WaitReadiness \/ GetFrameInfo \/ AddSourceSent
      BY <2>4 DEF ProcessEnters, WaitReadiness, GetFrameInfo, AddSourceSent
    <2>5. CASE UpdateEncoderInfos \/ SetHLSInfos
      BY <2>5 DEF UpdateEncoderInfos, SetHLSInfos
    <2> QED BY <1>1, <2>1, <2>2, <2>3, <2>4, <2>5 DEF Application, Process
  <1>2. CASE DestroyChannel
    BY <1>2 DEF DestroyChannel
  <1>3. CASE ~Application /\ ~DestroyChannel
    BY <1>3, Writers
  <1> QED BY <1>1, <1>2, <1>3

\* How the callback thread moves.
LEMMA CallbackMoves ==
  ASSUME [EncNext]_encVars
  PROVE  \/ cpc' = cpc
         \/ cpc = "wait" /\ cpc' \in {"user", "sections"} /\ EndEncodingBegins
         \/ cpc = "sections" /\ cpc' = "user" /\ WriteSections
         \/ cpc = "user" /\ cpc' = "put" /\ CallbackTakesSlot
         \/ cpc = "put" /\ cpc' \in {"source", "unref"} /\ CallbackHandsOver
         \/ cpc = "source" /\ cpc' = "give" /\ SourceReleased
         \/ cpc = "give" /\ cpc' = "post" /\ IdsGivenBack
         \/ cpc = "post" /\ cpc' = "unref" /\ TokenReleased
         \/ cpc = "unref" /\ cpc' = "wait" /\ StreamReleased
         \/ cpc = "wait" /\ cpc' = "ended" /\ CallbackThreadEnds
  <1> USE DEF CallbackGoes
  <1>1. CASE EndEncodingBegins \/ EndEncodingEos \/ WriteSections
    BY <1>1 DEF EndEncodingBegins, EndEncodingEos, WriteSections
  <1>2. CASE CallbackTakesSlot \/ CallbackHandsOver
    BY <1>2 DEF CallbackTakesSlot, CallbackHandsOver
  <1>3. CASE SourceReleased \/ IdsGivenBack \/ TokenReleased
    BY <1>3 DEF SourceReleased, IdsGivenBack, TokenReleased
  <1>4. CASE StreamReleased \/ CallbackThreadEnds
    BY <1>4 DEF StreamReleased, CallbackThreadEnds
  <1> QED BY <1>1, <1>2, <1>3, <1>4, Writers DEF CallbackThread

\* The channel is destroyed once, and its queues stay empty.
LEMMA DriverMoves ==
  ASSUME EncTypes, [EncNext]_encVars
  PROVE  /\ hw'.alive = hw.alive \/ (DestroyChannel /\ apc = "idle")
         /\ DestroyChannel => ~hw'.alive
         /\ ~hw'.alive => hw'.jobs = <<>> /\ hw'.busy = <<>> /\ hw'.bufs = <<>> /\ ~hw'.eos
  <1>1. /\ hw \in HwSet /\ (apc \in {"idle", "send"} => hw.alive) /\ Len(hw.busy) <= 1
        /\ ~hw.alive => hw.jobs = <<>> /\ hw.busy = <<>> /\ hw.bufs = <<>> /\ ~hw.eos
    BY DEF EncTypes, EncVarTypes, ThreadsAgree
  <1>2. CASE DestroyChannel
    <2>1. hw' = [hw EXCEPT !.alive = FALSE, !.eos = FALSE,
                           !.jobs = <<>>, !.busy = <<>>, !.bufs = <<>>]
      BY <1>2 DEF DestroyChannel
    <2>2. /\ hw'.jobs = <<>> /\ hw'.busy = <<>> /\ hw'.bufs = <<>> /\ hw'.eos = FALSE
          /\ hw'.alive = FALSE
      BY <1>1, <2>1 DEF HwSet
    <2> QED BY <1>2, <2>2 DEF DestroyChannel
  <1> DEFINE Same == hw'.alive = hw.alive
             Idle == hw'.jobs = <<>> /\ hw'.busy = <<>> /\ hw'.bufs = <<>> /\ hw'.eos = FALSE
  <1>3. ASSUME PutHandsOver \/ CallbackHandsOver PROVE Same /\ (~hw.alive => Idle)
    <2>1. \/ hw' = hw
          \/ hw.alive /\ \E b : hw' = [hw EXCEPT !.bufs = b]
      BY <1>3 DEF PutHandsOver, CallbackHandsOver, HandOver
    <2>2. ASSUME hw.alive, NEW b, hw' = [hw EXCEPT !.bufs = b] PROVE Same
      BY <1>1, <2>2 DEF HwSet
    <2>3. Same /\ (~hw.alive => Idle)
      BY <1>1, <2>1, <2>2 DEF HwSet
    <2> QED BY <2>3
  <1>4. ASSUME ProcessEos \/ FrameSent \/ ReportEos PROVE Same /\ (~hw.alive => Idle)
    <2>1. hw.alive
      BY <1>1, <1>4 DEF ProcessEos, FrameSent, ReportEos, Call
    <2>2. Same
      BY <1>1, <1>4 DEF ProcessEos, FrameSent, ReportEos, HwSet
    <2> QED BY <2>1, <2>2
  <1>5. ASSUME EncodePart PROVE Same /\ (~hw.alive => Idle)
    <2>1. Same /\ hw.bufs # <<>>
      BY <1>1, <1>5, EncodePartIs DEF HwSet
    <2> QED BY <1>1, <2>1
  <1>6. ASSUME EndEncodingEos \/ EndEncodingBegins PROVE Same /\ (~hw.alive => Idle)
    <2>1. hw' = [hw EXCEPT !.status = Tail(@)]
      BY <1>6 DEF EndEncodingEos, EndEncodingBegins
    <2>2. /\ Same /\ hw'.jobs = hw.jobs /\ hw'.busy = hw.busy /\ hw'.bufs = hw.bufs
          /\ hw'.eos = hw.eos
      BY <1>1, <2>1 DEF HwSet
    <2>3. hw.eos \in BOOLEAN
      BY <1>1 DEF HwSet
    <2> QED BY <1>1, <2>2, <2>3
  <1>7. ASSUME hw' = hw PROVE Same /\ (~hw.alive => Idle)
    <2>1. hw.eos \in BOOLEAN
      BY <1>1 DEF HwSet
    <2> QED BY <1>1, <1>7, <2>1
  <1>8. CASE ~DestroyChannel
    <2>1. Same /\ (~hw.alive => Idle)
      BY <1>3, <1>4, <1>5, <1>6, <1>7, <1>8, Writers
    <2> QED BY <1>8, <2>1
  <1> QED BY <1>2, <1>8

LEMMA ThreadsStep ==
  ASSUME EncTypes, [EncNext]_encVars
  PROVE  ThreadsAgree'
  <1>1. /\ program \in Programs /\ next \in Nat \ {0} /\ program' = program
        /\ hw \in HwSet /\ hw' \in HwSet /\ Len(hw'.busy) <= 1 /\ ThreadsAgree
        /\ program \in Seq(Calls)
    BY HwType, AppMoves, EncAssumption DEF EncTypes, EncVarTypes, ThreadsAgree
  <1>2. Len(program) \in Nat /\ DOMAIN program = 1 .. Len(program)
    BY <1>1, LenProperties
  <1>3. next' \in Nat \ {0}
    BY <1>1, AppMoves
  <1>4. /\ apc' \in {"idle", "put", "copy", "join", "destroyed"} \cup Framing
        /\ cpc' \in {"wait", "sections", "user", "put", "source", "give", "post", "unref", "ended"}
    <2>1. apc' \in {"idle", "put", "copy", "join", "destroyed"} \cup Framing
      BY <1>1, AppMoves DEF ThreadsAgree, Framing
    <2>2. cpc' \in {"wait", "sections", "user", "put", "source", "give", "post", "unref", "ended"}
      BY <1>1, CallbackMoves DEF ThreadsAgree
    <2> QED BY <2>1, <2>2
  <1>5. /\ apc' \in {"put", "copy"} \cup Framing => next' \in DOMAIN program
        /\ apc' = "put" => program[next'].op = "put"
        /\ apc' = "copy" => program[next'].op = "hdr"
        /\ apc' \in Framing => program[next'].op = "frame"
    <2>1. CASE UNCHANGED <<apc, next>>
      BY <1>1, <2>1 DEF ThreadsAgree, Now
    <2>2. CASE next' = next /\ (PutTakesSlot \/ TakeHdrID \/ ProcessEnters)
      BY <1>1, <1>2, <2>2 DEF PutTakesSlot, TakeHdrID, ProcessEnters, Call, Goes, Framing
    <2>3. CASE next' = next /\ apc \in Framing /\ apc' \in Framing
      BY <1>1, <2>3 DEF ThreadsAgree, Now, Framing
    <2>4. CASE apc' \in {"idle", "join", "destroyed"}
      BY <2>4 DEF Framing
    <2>5. \/ UNCHANGED <<apc, next>>
          \/ next' = next /\ (PutTakesSlot \/ TakeHdrID \/ ProcessEnters)
          \/ next' = next /\ apc \in Framing /\ apc' \in Framing
          \/ apc' \in {"idle", "join", "destroyed"}
      BY AppMoves DEF Framing
    <2> QED BY <2>1, <2>2, <2>3, <2>4, <2>5
  <1>6. apc' = "copy" => hdr'.cur # INVALID_POOL_ID
    <2>1. CASE TakeHdrID
      <3>1. hdr' = [DropCurrent(hdr) EXCEPT !.cur = Head(DropCurrent(hdr).free),
                       !.free = Tail(DropCurrent(hdr).free),
                       !.refs[Head(DropCurrent(hdr).free)] = 1]
            /\ DropCurrent(hdr).free # <<>>
        BY <2>1 DEF TakeHdrID
      <3>2. hdr \in HdrSet /\ hdr.cur \in HdrID \cup {INVALID_POOL_ID}
        BY DEF EncTypes, EncVarTypes, HdrSet
      <3>3. DropCurrent(hdr) \in HdrSet
        BY <3>2, DecrType DEF DropCurrent
      <3> DEFINE h == DropCurrent(hdr)
      <3>4. h.free \in Seq(HdrID) /\ h.free # <<>> /\ h \in HdrSet
        BY <3>1, <3>3 DEF HdrSet
      <3>5. hdr'.cur = Head(h.free)
        <4>1. hdr' = [h EXCEPT !.cur = Head(h.free), !.free = Tail(h.free),
                               !.refs[Head(h.free)] = 1]
          BY <3>1
        <4> HIDE DEF h
        <4> QED BY <3>4, <4>1 DEF HdrSet
      <3> HIDE DEF h
      <3>6. Head(h.free) \in HdrID
        BY <3>4, HeadTailProperties
      <3> QED BY <3>5, <3>6, Ranges
    <2>2. CASE ~TakeHdrID /\ apc' = "copy"
      <3>1. apc = "copy"
        BY <2>2, AppMoves
      <3>2. hdr' = hdr \/ IdsGivenBack
        <4>1. ~CopyHdr /\ ~SetHLSInfos
          BY <2>2, <3>1 DEF CopyHdr, SetHLSInfos, Returns, Goes
        <4> QED BY <2>2, <4>1, Writers
      <3>3. hdr'.cur = hdr.cur
        BY <3>2 DEF IdsGivenBack, DecrRefCount, EncTypes, EncVarTypes, HdrSet
      <3> QED BY <3>1, <3>3 DEF EncTypes, ThreadsAgree
    <2> QED BY <2>1, <2>2
  <1>7. apc' \in {"source", "infos", "hls", "send"} => pool'.iCurID \in InfoID
    <2>1. pool \in PoolSet /\ pool' \in PoolSet
      BY PoolType DEF EncTypes, EncVarTypes
    <2>2. CASE GetFrameInfo
      <3>1. pool.free \in Seq(InfoID) /\ pool.free # <<>>
        BY <2>1, <2>2 DEF GetFrameInfo, PoolSet
      <3>2. pool'.iCurID = Head(pool.free)
        BY <2>1, <2>2 DEF GetFrameInfo, PoolSet
      <3> QED BY <3>1, <3>2, HeadTailProperties
    <2>3. CASE ~GetFrameInfo /\ apc' \in {"source", "infos", "hls", "send"}
      <3>1. apc \in {"source", "infos", "hls", "send"}
        BY <2>3, AppMoves
      <3>2. pool'.iCurID = pool.iCurID
        <4>1. CASE UpdateEncoderInfos
          BY <2>1, <4>1 DEF UpdateEncoderInfos, PoolSet
        <4>2. CASE SetHLSInfos
          BY <2>1, <4>2 DEF SetHLSInfos, PoolSet
        <4>3. CASE IdsGivenBack
          BY <2>1, <4>3 DEF IdsGivenBack, PoolSet
        <4> QED BY <2>3, <4>1, <4>2, <4>3, Writers
      <3> QED BY <1>1, <3>1, <3>2 DEF ThreadsAgree
    <2> QED BY <2>2, <2>3
  <1>8. cpc' \notin {"wait", "ended"} => st'.info \in InfoID
    <2>1. CASE EndEncodingBegins
      <3>1. Head(hw.status) \in PartSet
        BY <1>1, <2>1, HeadTailProperties DEF EndEncodingBegins, HwSet
      <3>2. PICK s \in PartSet : st' = [s EXCEPT !.buf = ring.StreamSent[s.streamId]]
        BY <2>1, <3>1 DEF EndEncodingBegins
      <3> QED BY <3>2 DEF PartSet
    <2>2. CASE ~EndEncodingBegins /\ cpc' \notin {"wait", "ended"}
      <3>1. st' = st /\ cpc \notin {"wait", "ended"}
        BY <2>2, Writers, CallbackMoves
      <3> QED BY <1>1, <3>1 DEF ThreadsAgree, Busy
    <2> QED BY <2>1, <2>2
  <1>9. apc' \in {"join", "destroyed"} <=> ~hw'.alive
    <2>1. CASE DestroyChannel
      BY <2>1, DriverMoves DEF DestroyChannel, Goes
    <2>2. CASE ~DestroyChannel
      <3>1. hw'.alive = hw.alive
        BY <2>2, DriverMoves
      <3>2. apc' \in {"join", "destroyed"} <=> apc \in {"join", "destroyed"}
        <4>1. ReleaseAll => apc = "join"
          BY DEF ReleaseAll
        <4>2. PutTakesSlot \/ TakeHdrID \/ ProcessEnters => apc = "idle"
          BY DEF PutTakesSlot, TakeHdrID, ProcessEnters, Call
        <4> QED BY <2>2, <4>1, <4>2, AppMoves
      <3> QED BY <1>1, <3>1, <3>2 DEF ThreadsAgree
    <2> QED BY <2>1, <2>2
  <1>10. cpc' = "ended" => ~hw'.alive
    <2>1. CASE CallbackThreadEnds
      BY <2>1 DEF CallbackThreadEnds
    <2>2. CASE cpc = "ended"
      <3>1. ~hw.alive /\ apc # "idle"
        BY <1>1, <2>2 DEF ThreadsAgree
      <3> QED BY <3>1, DriverMoves
    <2> QED BY <2>1, <2>2, CallbackMoves
  <1>11. apc' = "destroyed" => cpc' = "ended"
    <2>1. apc' = "destroyed" => cpc = "ended"
      BY <1>1, AppMoves DEF ThreadsAgree, ReleaseAll
    <2>2. cpc = "ended" => cpc' = "ended"
      BY CallbackMoves
    <2> QED BY <2>1, <2>2
  <1> QED BY <1>1, <1>3, <1>4, <1>5, <1>6, <1>7, <1>8, <1>9, <1>10, <1>11, DriverMoves
          DEF ThreadsAgree, Now, Busy

LEMMA EncTypesInit == EncInit => EncTypes
  <1> SUFFICES ASSUME EncInit PROVE EncTypes
    OBVIOUS
  <1>1. /\ 0 \in SpsID /\ 0 \in PpsID /\ 0 \in Slot /\ iMaxSpsIds - 1 \in SpsID
        /\ MAX_PPS_IDS - 1 \in PpsID
        /\ ENC_MAX_CMD \in Nat /\ ENC_MAX_CMD >= 4 /\ iMaxSpsIds \in Nat /\ NumStream \in Nat
    BY Ranges, EncAssumption
  <1>2. chan \in ChanSet /\ PendingEncodings \in Int /\ program \in Programs
    BY <1>1 DEF EncInit, ChanSet
  <1>3. [k \in 1 .. ENC_MAX_CMD |-> k - 1] \in Seq(InfoID)
        /\ [k \in 1 .. ENC_MAX_CMD |-> k - 1] \in Seq(HdrID)
    <2>1. [k \in 1 .. ENC_MAX_CMD |-> k - 1] \in [1 .. ENC_MAX_CMD -> InfoID]
      BY <1>1 DEF InfoID
    <2>2. InfoID = HdrID
      BY DEF InfoID, HdrID
    <2> QED BY <1>1, <2>1, <2>2, FunctionIsSeq
  <1>4. pool \in PoolSet
    <2>1. [frame |-> 0, qp |-> FALSE, uSpsId |-> 0, uPpsId |-> 0, offset |-> 0,
           iHDRID |-> INVALID_POOL_ID, bHDRChanged |-> FALSE] \in InfoSet
      BY <1>1 DEF InfoSet
    <2> DEFINE i == [id \in InfoID |->
                      [frame |-> 0, qp |-> FALSE, uSpsId |-> 0, uPpsId |-> 0, offset |-> 0,
                       iHDRID |-> INVALID_POOL_ID, bHDRChanged |-> FALSE]]
               f == [k \in 1 .. ENC_MAX_CMD |-> k - 1]
    <2>2. i \in [InfoID -> InfoSet] /\ f \in Seq(InfoID)
      BY <1>3, <2>1
    <2>3. pool = [iCurID |-> INVALID_POOL_ID, free |-> f, info |-> i]
      BY DEF EncInit
    <2> HIDE DEF i, f
    <2> QED BY <2>2, <2>3 DEF PoolSet
  <1>5. hdr \in HdrSet
    <2> DEFINE r == [id \in HdrID |-> 0]
               f == [k \in 1 .. ENC_MAX_CMD |-> k - 1]
    <2>1. r \in [HdrID -> Int] /\ r \in [HdrID -> Nat] /\ f \in Seq(HdrID)
      BY <1>3
    <2>2. hdr = [cur |-> INVALID_POOL_ID, free |-> f, refs |-> r, seis |-> r,
                 bHDRChanged |-> FALSE]
      BY DEF EncInit
    <2> HIDE DEF r, f
    <2> QED BY <2>1, <2>2 DEF HdrSet
  <1>6. SourceSent \in SourceSet /\ ring \in RingSet /\ curStreamSent \in [app : Slot, cb : Slot]
    BY <1>1 DEF EncInit, SourceSet, RingSet
  <1>7. heads \in HeadsSet
    <2>1. [dim |-> 0, iRefCnt |-> 0, bHasBeenSent |-> FALSE] \in SpsSet
          /\ [uSpsId |-> iMaxSpsIds, offset |-> 0, iRefCnt |-> 0, bHasBeenSent |-> FALSE] \in PpsSet
      BY <1>1 DEF SpsSet, PpsSet
    <2> DEFINE a == [id \in SpsID |-> [dim |-> 0, iRefCnt |-> 0, bHasBeenSent |-> FALSE]]
               b == [id \in PpsID |-> [uSpsId |-> iMaxSpsIds, offset |-> 0, iRefCnt |-> 0,
                                       bHasBeenSent |-> FALSE]]
    <2>2. a \in [SpsID -> SpsSet] /\ b \in [PpsID -> PpsSet]
      BY <2>1
    <2>3. heads = [iPrevSps |-> iMaxSpsIds - 1, iPrevPps |-> MAX_PPS_IDS - 1, sps |-> a, pps |-> b,
                   layerSps |-> [id |-> 0, dim |-> 0]]
      BY DEF EncInit
    <2> HIDE DEF a, b
    <2> QED BY <1>1, <2>2, <2>3 DEF HeadsSet
  <1>8. refs \in RefsSet
    BY DEF EncInit, RefsSet
  <1>9. hw \in HwSet /\ hw.alive /\ Len(hw.busy) <= 1
    BY EmptySeq DEF EncInit, HwSet
  <1>10. st \in StSet
    BY <1>1 DEF EncInit, EndOfStreamStatus, StSet
  <1>11. ThreadsAgree
    BY <1>2, <1>9 DEF EncInit, ThreadsAgree, Framing, Busy
  <1> QED BY <1>2, <1>4, <1>5, <1>6, <1>7, <1>8, <1>9, <1>10, <1>11 DEF EncTypes, EncVarTypes

LEMMA EncTypesStep ==
  ASSUME EncTypes, [EncNext]_encVars PROVE EncTypes'
  <1>1. PendingEncodings' \in Int
    <2>1. PendingEncodings \in Int
      BY DEF EncTypes, EncVarTypes
    <2> QED BY <2>1, Writers DEF WaitReadiness, TokenReleased
  <1> QED BY <1>1, ChanType, PoolType, HdrType, SourceType, RingTypes, HeadsType, RefsType,
             HwType, StType, ThreadsStep
          DEF EncTypes, EncVarTypes

\* Where the threads of the encoder are, and what every variable is then: an
\* id where one is used, a call that fits, empty queues once the channel is
\* destroyed.
THEOREM EncTypesAlways == EncSpec => []EncTypes
  <1>1. EncInit => EncTypes
    BY EncTypesInit
  <1>2. EncTypes /\ [EncNext]_encVars => EncTypes'
    BY EncTypesStep
  <1> QED BY <1>1, <1>2, PTL DEF EncSpec
=============================================================================
