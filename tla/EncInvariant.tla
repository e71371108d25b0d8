---------------------------- MODULE EncInvariant ----------------------------
(***************************************************************************)
(* The inductive invariant of EncFlow, one part for each thing the         *)
(* encoder counts: what the variables are (EncTypes), the source frames    *)
(* and the tokens (EncFrames), the HDR SEIs (EncHdr), the SPS and the PPS  *)
(* (EncHeads), how far behind they are (EncPools), the stream buffers      *)
(* (EncStreams), the headers a decoder has (EncDecoder).  A part uses      *)
(* those before it, but EncStreams uses neither EncHdr nor EncPools and    *)
(* EncDecoder neither EncHdr nor EncStreams.                               *)
(***************************************************************************)
EXTENDS EncFlow

---------------------------------------------------------------------------
(* What the variables are, and where the threads are *)

InfoSet == [frame : Nat, qp : BOOLEAN, uSpsId : SpsID, uPpsId : PpsID, offset : Nat,
            iHDRID : HdrID \cup {INVALID_POOL_ID}, bHDRChanged : BOOLEAN]
JobSet == [info : InfoID, frame : Nat \ {0}, restart : BOOLEAN, parts : Nat \ {0},
           overtaken : Nat]
PartSet == [info : InfoID, frame : Nat \ {0}, buf : 0 .. NumStream, streamId : Slot,
            first : BOOLEAN, last : BOOLEAN, idr : BOOLEAN, error : BOOLEAN]
HwSet == [alive : BOOLEAN, fresh : BOOLEAN, eos : BOOLEAN,
          jobs : Seq(JobSet), busy : Seq(JobSet), bufs : Seq((0 .. NumStream) \X Slot),
          status : Seq(PartSet \cup {EndOfStreamStatus})]
SpsSet == [dim : Nat, iRefCnt : Int, bHasBeenSent : BOOLEAN]
PpsSet == [uSpsId : Nat, offset : Nat, iRefCnt : Int, bHasBeenSent : BOOLEAN]
StSet == [info : InfoID \cup {INVALID_POOL_ID}, frame : Nat, buf : 0 .. NumStream,
          streamId : Slot, first : BOOLEAN, last : BOOLEAN, idr : BOOLEAN, error : BOOLEAN]

ChanSet == [dim : Nat, offset : Nat, restart : BOOLEAN, bEndOfStreamReceived : BOOLEAN]
PoolSet == [iCurID : InfoID \cup {INVALID_POOL_ID}, free : Seq(InfoID),
            info : [InfoID -> InfoSet]]
HdrSet == [cur : HdrID \cup {INVALID_POOL_ID}, free : Seq(HdrID), refs : [HdrID -> Int],
           seis : [HdrID -> Nat], bHDRChanged : BOOLEAN]
SourceSet == [SourceSlot -> {<<0, 0>>} \cup ((Nat \ {0}) \X InfoID)]
RingSet == [Sent : Slot, Recv : Slot, StreamSent : [Slot -> 0 .. NumStream]]
HeadsSet == [iPrevSps : SpsID, iPrevPps : PpsID, sps : [SpsID -> SpsSet],
             pps : [PpsID -> PpsSet], layerSps : [id : SpsID, dim : Nat]]
RefsSet == [stream : [StreamBuf -> Int], source : [DOMAIN program -> Int],
            table : [DOMAIN program -> Int]]

EncVarTypes ==
    /\ chan \in ChanSet
    /\ PendingEncodings \in Int
    /\ pool \in PoolSet
    /\ hdr \in HdrSet
    /\ SourceSent \in SourceSet
    /\ ring \in RingSet
    /\ curStreamSent \in [app : Slot, cb : Slot]
    /\ heads \in HeadsSet
    /\ refs \in RefsSet
    /\ hw \in HwSet
    /\ st \in StSet

Framing == {"ready", "info", "source", "infos", "hls", "send"}
ThreadsAgree ==
    /\ program \in Programs /\ next \in Nat \ {0}
    /\ apc \in {"idle", "put", "copy", "join", "destroyed"} \cup Framing
    /\ cpc \in {"wait", "sections", "user", "put", "source", "give", "post", "unref", "ended"}
    /\ apc \in {"put", "copy"} \cup Framing => next \in DOMAIN program
    /\ apc = "put" => Now.op = "put"
    /\ apc = "copy" => Now.op = "hdr" /\ hdr.cur # INVALID_POOL_ID
    /\ apc \in Framing => Now.op = "frame"
    /\ apc \in {"source", "infos", "hls", "send"} => pool.iCurID \in InfoID
    /\ Busy => st.info \in InfoID
    /\ apc \in {"join", "destroyed"} <=> ~hw.alive
    /\ cpc = "ended" => ~hw.alive
    /\ apc = "destroyed" => cpc = "ended"
    /\ ~hw.alive => hw.jobs = <<>> /\ hw.busy = <<>> /\ hw.bufs = <<>> /\ ~hw.eos
    /\ Len(hw.busy) <= 1

EncTypes == EncVarTypes /\ ThreadsAgree

---------------------------------------------------------------------------
(* Source frames, their ids and their tokens *)

FrameOf(s) == SourceSent[s][1]
InfoOf(s) == SourceSent[s][2]
Free == Range(pool.free)
InSource == apc \in {"infos", "hls", "send"}
Active == cpc \in {"sections", "user", "put", "source"}

\* A slot of SourceSent has a frame and an id of its own, which is not free
\* and has the information of this frame; the last frame may still be in
\* the hands of the application's thread.
SlotsAgree ==
    /\ IsInjective(pool.free)
    /\ \A s \in Sent :
          /\ FrameOf(s) \in DOMAIN program /\ FrameOf(s) <= next
          /\ program[FrameOf(s)].op = "frame"
          /\ InfoOf(s) \notin Free
          /\ pool.info[InfoOf(s)].frame = FrameOf(s)
          /\ pool.info[InfoOf(s)].qp = program[FrameOf(s)].qp
          /\ FrameOf(s) = next => InSource /\ InfoOf(s) = pool.iCurID
    /\ \A s, t \in Sent : FrameOf(s) = FrameOf(t) \/ InfoOf(s) = InfoOf(t) => s = t

\* The frame the application's thread is pushing.
CurrentAgrees ==
    /\ apc = "source" => /\ pool.iCurID \notin Free
                         /\ \A s \in Sent : InfoOf(s) # pool.iCurID
                         /\ pool.info[pool.iCurID].frame = next
                         /\ pool.info[pool.iCurID].qp = Now.qp
    /\ InSource => \E s \in Sent : SourceSent[s] = <<next, pool.iCurID>>

\* The frame the callback gives back.
GivingAgrees ==
    /\ cpc \in {"source", "give", "post"} => st.last
    /\ Busy => /\ st.frame \in DOMAIN program /\ st.frame < next
               /\ program[st.frame].op = "frame"
    /\ cpc = "give" => /\ st.info \notin Free /\ \A s \in Sent : InfoOf(s) # st.info
                       /\ apc = "source" => st.info # pool.iCurID
                       /\ pool.info[st.info].frame = st.frame

\* Every part of a frame that is with the firmware, or waits, or is in the
\* callback, is of a frame whose slot is still held.
HeldBy(n, id) == n < next /\ \E s \in Sent : SourceSent[s] = <<n, id>>
HasSlot(p) == HeldBy(p.frame, p.info)
PartsHeld ==
    apc # "destroyed" =>
        /\ \A i \in DOMAIN hw.jobs : HasSlot(hw.jobs[i])
        /\ \A i \in DOMAIN hw.busy : HasSlot(hw.busy[i])
        /\ \A i \in DOMAIN hw.status :
              hw.status[i] # EndOfStreamStatus => HasSlot(hw.status[i])
        /\ Active => HasSlot(st)

\* The parts of a frame come one after the other, the last one last.
JobsDiffer ==
    \A i \in DOMAIN hw.jobs :
        /\ \A j \in DOMAIN hw.jobs : hw.jobs[j].frame = hw.jobs[i].frame => i = j
        /\ \A j \in DOMAIN hw.busy : hw.busy[j].frame # hw.jobs[i].frame
        /\ \A j \in DOMAIN hw.status : hw.status[j].frame # hw.jobs[i].frame
        /\ Active => st.frame # hw.jobs[i].frame
PartsInOrder ==
    /\ JobsDiffer
    /\ \A i \in DOMAIN hw.busy :
          /\ \A j \in DOMAIN hw.status :
                hw.status[j].frame = hw.busy[i].frame => ~hw.status[j].last
          /\ Active /\ st.frame = hw.busy[i].frame => ~st.last
    /\ \A i \in DOMAIN hw.status :
          /\ \A j \in DOMAIN hw.status :
                j < i /\ hw.status[j].frame = hw.status[i].frame
                    => ~hw.status[j].last /\ ~hw.status[i].first
          /\ Active /\ st.frame = hw.status[i].frame => ~st.last /\ ~hw.status[i].first

FramesAgree == SlotsAgree /\ CurrentAgrees /\ GivingAgrees /\ PartsHeld /\ PartsInOrder

\* A frame holds a token from WaitReadiness until its id is given back; one
\* the driver refuses loses it.
Taken == Cardinality(Sent) + (IF apc \in {"info", "source"} THEN 1 ELSE 0)
                           + (IF cpc \in {"give", "post"} THEN 1 ELSE 0)
TokensAgree ==
    /\ PendingEncodings \in 0 .. ENC_MAX_CMD - 1
    /\ apc # "destroyed" =>
          /\ PendingEncodings + Taken <= ENC_MAX_CMD - 1
          /\ ~Refusals => PendingEncodings + Taken = ENC_MAX_CMD - 1

\* The references on the source of frame n and on its QP table.
HeldSlots(n) == {s \in Sent : FrameOf(s) = n}
Held(n) == Cardinality(HeldSlots(n)) + (IF apc = "source" /\ next = n THEN 1 ELSE 0)
HasTable(n) == program[n].op = "frame" /\ program[n].qp
FrameRefs ==
    \A n \in DOMAIN program :
        /\ refs.source[n] = Held(n)
        /\ refs.table[n] = IF HasTable(n) THEN Held(n) ELSE 0

\* A frame-info id that a part refers to has the part's frame.
InfoOfParts ==
    \A i \in DOMAIN hw.status :
        LET p == hw.status[i]
        IN  p # EndOfStreamStatus => p.info \notin Free /\ pool.info[p.info].frame = p.frame

EncFrames == FramesAgree /\ TokensAgree /\ FrameRefs /\ InfoOfParts

---------------------------------------------------------------------------
(* HDR SEIs *)

\* The frame-info ids that hold a reference on HDR SEIs.
Holding ==
    {id \in InfoID :
        \/ \E s \in Sent : InfoOf(s) = id /\ (FrameOf(s) = next => apc = "send")
        \/ cpc = "give" /\ st.info = id}
HoldingHdr(h) == {id \in Holding : pool.info[id].iHDRID = h}
HdrUsers(h) == Cardinality(HoldingHdr(h)) + (IF hdr.cur = h THEN 1 ELSE 0)

HdrCounts ==
    /\ IsInjective(hdr.free)
    /\ \A h \in HdrID :
          /\ hdr.refs[h] >= HdrUsers(h)
          /\ ~Refusals /\ apc # "destroyed" => hdr.refs[h] = HdrUsers(h)
          /\ h \in Range(hdr.free) <=> hdr.refs[h] = 0

SeisOf(h) == IF h = INVALID_POOL_ID THEN 0 ELSE hdr.seis[h]
SeisAgree ==
    /\ apc # "copy" => LatestHdr(next) = SeisOf(hdr.cur)
    /\ apc = "copy" => HoldingHdr(hdr.cur) = {}
    /\ \A id \in Holding : LatestHdr(pool.info[id].frame) = SeisOf(pool.info[id].iHDRID)

EncHdr == HdrCounts /\ SeisAgree /\ (apc = "destroyed" => InfoIsPrivate)

---------------------------------------------------------------------------
(* SPS and PPS *)

\* The frame-info ids whose SPS and PPS are in use, until the first part of
\* the frame has its headers.
Open ==
    {id \in InfoID :
        \/ apc \in {"hls", "send"} /\ pool.iCurID = id
        \/ \E i \in DOMAIN hw.jobs : hw.jobs[i].info = id
        \/ \E i \in DOMAIN hw.status : hw.status[i].first /\ hw.status[i].info = id
        \/ cpc = "sections" /\ st.first /\ st.info = id}
OpenSps(x) == {id \in Open : pool.info[id].uSpsId = x}
OpenPps(x) == {id \in Open : pool.info[id].uPpsId = x}
EncHeads ==
    /\ \A i \in DOMAIN hw.status : hw.status[i].error => Errors
    /\ \A x \in SpsID :
          /\ heads.sps[x].iRefCnt >= Cardinality(OpenSps(x))
          /\ Faultless /\ hw.alive => heads.sps[x].iRefCnt = Cardinality(OpenSps(x))
    /\ \A x \in PpsID :
          /\ heads.pps[x].iRefCnt >= Cardinality(OpenPps(x))
          /\ Faultless /\ hw.alive => heads.pps[x].iRefCnt = Cardinality(OpenPps(x))

---------------------------------------------------------------------------
(* The order in which frames are pushed and come out *)

\* The frames in Open pushed after that of y, those of them whose first part
\* reaches the callback before that of y does, and those that restart the GOP.
FrameNo(y) == pool.info[y].frame
Newer(y) == {z \in Open : FrameNo(z) > FrameNo(y)}
InCallback(y) == cpc = "sections" /\ st.first /\ st.info = y
FirstOf(i, y) == hw.status[i].first /\ hw.status[i].info = y
GoesBefore(z, y) ==
    /\ ~InCallback(y)
    /\ \/ InCallback(z)
       \/ \E i \in DOMAIN hw.status : FirstOf(i, z) /\ \A j \in 1 .. i : ~FirstOf(j, y)
Passed(y) == {z \in Newer(y) : GoesBefore(z, y)}
Restarts ==
    {id \in Open :
        \/ apc \in {"hls", "send"} /\ pool.iCurID = id /\ (chan.restart \/ hw.fresh)
        \/ \E i \in DOMAIN hw.jobs : hw.jobs[i].info = id /\ hw.jobs[i].restart
        \/ \E i \in DOMAIN hw.status : FirstOf(i, id) /\ hw.status[i].idr
        \/ InCallback(id) /\ st.idr}

\* How far the ids of the frame of y are behind the last ones given.
PpsBehind(y) == (heads.iPrevPps - pool.info[y].uPpsId) % MAX_PPS_IDS
SpsBehind(y) == (heads.iPrevSps - pool.info[y].uSpsId) % iMaxSpsIds

JobsInOrder ==
    \A i, j \in DOMAIN hw.jobs : i < j => hw.jobs[i].frame < hw.jobs[j].frame

\* A new PPS is taken by a frame at most, and no more of the frames pushed
\* after that of y have gone than the GOP pattern reorders; while y waits,
\* than have overtaken it.
PpsNear ==
    /\ \A y \in Open :
          PpsBehind(y) + Cardinality(Passed(y)) <= Cardinality(Newer(y)) + GetMaxReordering
    /\ \A i \in DOMAIN hw.jobs :
          LET y == hw.jobs[i].info
          IN  /\ hw.jobs[i].overtaken <= GetMaxReordering
              /\ PpsBehind(y) + Cardinality(Passed(y))
                     <= Cardinality(Newer(y)) + hw.jobs[i].overtaken
    /\ apc \in {"hls", "send"} => PpsBehind(pool.iCurID) = 0

\* A new SPS restarts the GOP, and such a frame overtakes no other.
SpsNear ==
    /\ \A y \in Open :
          /\ SpsBehind(y) <= Cardinality(Newer(y) \cap Restarts)
          /\ Passed(y) \cap Restarts = {}
    /\ SameSps(heads, chan.dim) \/ chan.restart \/ hw.fresh
    /\ apc \in {"hls", "send"} => SameSps(heads, chan.dim)

EncOrder == Faultless /\ hw.alive => JobsInOrder /\ PpsNear /\ SpsNear

\* Where no frame is refused every frame-info id is free or has a token.
IdsInUse == Cardinality(Sent) + (IF apc = "source" THEN 1 ELSE 0)
                              + (IF cpc = "give" THEN 1 ELSE 0)
AllIdsKnown ==
    ~Refusals /\ apc # "destroyed" => Len(pool.free) + IdsInUse = ENC_MAX_CMD

EncPools == EncOrder /\ AllIdsKnown

---------------------------------------------------------------------------
(* Stream buffers *)

\* The k-th slot of the ring from iCurStreamRecv, and how many are in use.
At(k) == (ring.Recv + k) % AL_MAX_STREAM_BUFFER
Used == (ring.Sent - ring.Recv) % AL_MAX_STREAM_BUFFER
Passing == (IF apc = "put" THEN 1 ELSE 0) + (IF cpc = "put" THEN 1 ELSE 0)
InDriver == WaitingParts + Len(hw.bufs)

\* The end of the stream is the last status, after which no part comes.
EosIsLast ==
    \A i \in DOMAIN hw.status :
        hw.status[i] = EndOfStreamStatus =>
            i = Len(hw.status) /\ hw.jobs = <<>> /\ hw.busy = <<>> /\ ~hw.eos
EosOnce ==
    /\ EosIsLast
    /\ ~chan.bEndOfStreamReceived =>
          ~hw.eos /\ \A i \in DOMAIN hw.status : hw.status[i] # EndOfStreamStatus
    /\ chan.bEndOfStreamReceived => apc \notin Framing

RingOrder ==
    /\ \A k \in 1 .. WaitingParts :
          /\ hw.status[k].streamId = At(k - 1)
          /\ hw.status[k].buf = ring.StreamSent[At(k - 1)]
    /\ \A k \in DOMAIN hw.bufs :
          hw.bufs[k] = <<ring.StreamSent[At(WaitingParts + k - 1)], At(WaitingParts + k - 1)>>
RingLength ==
    /\ InDriver + Passing <= Used
    /\ hw.alive => InDriver + Passing = Used
    /\ apc = "put" => /\ cpc \in {"wait", "ended"}
                      /\ curStreamSent.app = At(Used - 1)
                      /\ ring.StreamSent[curStreamSent.app] = Now.buf
    /\ cpc = "put" => /\ curStreamSent.cb = At(Used - 1)
                      /\ ring.StreamSent[curStreamSent.cb] = st.buf

ToPut == {i \in DOMAIN program : /\ program[i].op = "put"
                                 /\ IF apc = "put" THEN i > next ELSE i >= next}
RingBuffers ==
    /\ \A k \in 0 .. Used - 1 : ring.StreamSent[At(k)] \in StreamBuf
    /\ \A j, k \in 0 .. Used - 1 : ring.StreamSent[At(j)] = ring.StreamSent[At(k)] => j = k
    /\ cpc \in {"sections", "user"} =>
          st.buf \in StreamBuf /\ \A k \in 0 .. Used - 1 : ring.StreamSent[At(k)] # st.buf
    /\ \A i \in ToPut, k \in 0 .. Used - 1 : ring.StreamSent[At(k)] # program[i].buf
StreamRefs ==
    /\ apc # "destroyed" =>
          \A b \in StreamBuf :
              refs.stream[b] + (IF apc = "put" /\ Now.buf = b THEN 1 ELSE 0)
                             + (IF cpc = "put" /\ st.buf = b THEN 1 ELSE 0)
              = TimesIn(ring.StreamSent, Window, b) + (IF Busy /\ st.buf = b THEN 1 ELSE 0)
    /\ apc = "destroyed" => Sent = {} /\ \A b \in StreamBuf : refs.stream[b] = 0

EncStreams == EosOnce /\ RingOrder /\ RingLength /\ RingBuffers /\ StreamRefs

---------------------------------------------------------------------------
(* The headers a decoder has *)

\* The parameters of the channel are the last ones set, and a frame whose SPS
\* and PPS are in use finds in them those it was pushed with.
HeadersKept ==
    /\ chan.dim = DimOf(next) /\ chan.offset = OffsetOf(next)
    /\ \A y \in Open :
          LET i == pool.info[y]
          IN  /\ i.offset = OffsetOf(i.frame)
              /\ heads.sps[i.uSpsId].dim = DimOf(i.frame)
              /\ heads.pps[i.uPpsId].uSpsId = i.uSpsId
              /\ heads.pps[i.uPpsId].offset = i.offset

\* A PPS or SPS said to be sent is what a decoder has, and to write the SPS of
\* the layer again changes nothing.
PpsSent ==
    \A x \in PpsID :
        LET p == heads.pps[x]
        IN  p.bHasBeenSent => decoder.pps[x] = [uSpsId |-> p.uSpsId, offset |-> p.offset]
SpsSent ==
    \A x \in SpsID :
        heads.sps[x].bHasBeenSent =>
            /\ decoder.sps[x] = heads.sps[x].dim
            /\ heads.layerSps.id = x => heads.layerSps.dim = heads.sps[x].dim

\* An SPS not sent yet comes with a frame that restarts the GOP, which no
\* frame passes; the frames after it may use it too.
UsesSps(w, x) == pool.info[w].uSpsId = x
NotSent(x) == ~heads.sps[x].bHasBeenSent
SpsComes ==
    /\ \A y \in Restarts : Passed(y) = {}
    /\ \A z \in Open \ Restarts :
          NotSent(pool.info[z].uSpsId) =>
              \E w \in Restarts :
                  UsesSps(w, pool.info[z].uSpsId) /\ FrameNo(w) < FrameNo(z)
    /\ hw.alive /\ NotSent(heads.iPrevSps) =>
          \/ chan.restart \/ hw.fresh
          \/ \E w \in Restarts : UsesSps(w, heads.iPrevSps)

\* A part that is not the first of its frame comes right after another one.
Further(k) == hw.status[k] # EndOfStreamStatus /\ ~hw.status[k].first
PartsAdjoin ==
    /\ \A k \in DOMAIN hw.status :
          Further(k) => hw.status[k].info = IF k = 1 THEN st.info ELSE hw.status[k - 1].info
    /\ \A b \in DOMAIN hw.busy :
          hw.busy[b].info = IF hw.status = <<>> THEN st.info
                            ELSE hw.status[Len(hw.status)].info

\* While a frame has parts to come the decoder keeps its headers.
Delivered(x) ==
    LET i == pool.info[x]
    IN  /\ decoder.pps[i.uPpsId] = [uSpsId |-> i.uSpsId, offset |-> OffsetOf(i.frame)]
        /\ decoder.sps[i.uSpsId] = DimOf(i.frame)
Begun == ~(cpc = "sections" /\ st.first)
PartsToCome ==
    \/ cpc \in {"sections", "user"}
    \/ hw.status # <<>> /\ Further(1)
    \/ hw.status = <<>> /\ hw.busy # <<>>

EncDecoder ==
    /\ DOMAIN decoder.sps = SpsID /\ DOMAIN decoder.pps = PpsID
    /\ apc # "destroyed" =>
        /\ HeadersKept /\ PpsSent /\ PartsAdjoin
        /\ Faultless => SpsSent /\ SpsComes /\ (Begun /\ PartsToCome => Delivered(st.info))
=============================================================================
