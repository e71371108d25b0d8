------------------------------ MODULE EncFlow ------------------------------
(***************************************************************************)
(* How frames and stream buffers flow through the encoder                  *)
(* (lib_encode/Common_Encoder.c) and the ids it hands out for them.        *)
(*                                                                         *)
(* The application's thread puts stream buffers, changes parameters and    *)
(* pushes frames: a frame takes a token of PendingEncodings, a frame-info  *)
(* id, a slot of SourceSent, references on SPS, PPS and HDR ids, and goes  *)
(* to the hardware, which may reorder it.  Every part of a frame comes     *)
(* back as one status with one stream buffer; the thread enc-status-it     *)
(* writes the headers, calls the application, which puts the stream buffer *)
(* again, and gives everything back after the last part.  The application  *)
(* may destroy the encoder between two of its calls.                       *)
(*                                                                         *)
(* One action is one critical section of the encoder's Mutex, or one       *)
(* atomic operation on a fifo, a semaphore, a buffer's count, the driver.  *)
(* There is one layer, as MAX_NUM_LAYER says.  Every frame has a source    *)
(* buffer and a QP table of its own, named by its place in the program.    *)
(***************************************************************************)
EXTENDS Integers, SequencesExt

CONSTANTS
    AL_MAX_NUM_B_PICT,
    AL_MAX_LOOK_AHEAD,
    AL_MAX_STREAM_BUFFER,
    iMaxSpsIds,   \* AL_AVC_MAX_SPS or AL_HEVC_MAX_SPS
    uNumB,        \* B pictures of the GOP
    Pyramidal,    \* AL_GOP_FLAG_PYRAMIDAL, the pattern of the GOP
    NumStream,    \* stream buffers of the application
    Programs,     \* what the application's thread may do
    Refusing,     \* the programs in which the driver may refuse a frame
    Failing       \* those in which the status of a part may be an error

\* (Mutant: as many commands as B pictures and one.)
FewerCommands == AL_MAX_NUM_B_PICT + 1
ENC_MAX_CMD == AL_MAX_NUM_B_PICT + 3
\* (Mutant: as many PPS as frame-info ids.)
FewerPps == AL_MAX_NUM_B_PICT + 3
MAX_PPS_IDS == AL_MAX_NUM_B_PICT + 3 + 1
AL_MAX_SOURCE_BUFFER == AL_MAX_NUM_B_PICT * 2 + AL_MAX_LOOK_AHEAD + 1
INVALID_POOL_ID == -1

\* How often a frame waits while a later one is encoded: once for the picture
\* its B pictures look ahead to, in a pyramid once for every level above.
GetMaxReordering_PyramidalGop == Cardinality({n \in {1, 3, 7, 15} : n <= uNumB})
GetMaxReordering ==
    IF uNumB = 0 THEN 0 ELSE IF Pyramidal THEN GetMaxReordering_PyramidalGop ELSE 1

\* What the application's thread calls, one after the other.  qp: with a QP
\* table; fits: the source buffer passes AL_SrcBuffersChecker_CanBeUsed;
\* parts: stream buffers the frame fills (its slices, with subframe latency).
StreamBuf == 1 .. NumStream
Put(b) == [op |-> "put", buf |-> b]
Hdr == [op |-> "hdr"]
Resolution(d) == [op |-> "resolution", dim |-> d]
Offsets(o) == [op |-> "offsets", offset |-> o]
Frame(t, k) == [op |-> "frame", qp |-> t, parts |-> k, fits |-> TRUE]
Misfit == [op |-> "frame", qp |-> FALSE, parts |-> 1, fits |-> FALSE]
EndOfInput == [op |-> "eos"]
Calls == {Put(b) : b \in StreamBuf} \cup {Hdr, Misfit, EndOfInput}
         \cup {Resolution(d) : d \in 1 .. 2} \cup {Offsets(o) : o \in 1 .. 4}
         \cup {Frame(t, k) : t \in BOOLEAN, k \in 1 .. 2}

ASSUME EncAssumption ==
    /\ AL_MAX_NUM_B_PICT \in Nat \ {0} /\ AL_MAX_LOOK_AHEAD \in Nat
    /\ iMaxSpsIds \in Nat \ {0}
    /\ uNumB \in 0 .. AL_MAX_NUM_B_PICT /\ Pyramidal \in BOOLEAN
    /\ Pyramidal => uNumB \in {3, 5, 7, 15}   \* AL_Settings_CheckValidity
    /\ NumStream \in Nat \ {0} /\ AL_MAX_STREAM_BUFFER \in Nat
    /\ NumStream < AL_MAX_STREAM_BUFFER
    /\ Programs \subseteq Seq(Calls)
    /\ Refusing \subseteq Programs /\ Failing \subseteq Programs

\* The application puts each stream buffer once, before its first frame; the
\* callback puts it again.
PutsFirst(p) ==
    \A i, j \in DOMAIN p :
        p[j].op = "put" => /\ p[i].op = "frame" => j < i
                           /\ p[i].op = "put" /\ p[i].buf = p[j].buf => i = j
ASSUME StreamAssumption == \A p \in Programs : PutsFirst(p)

Slot == 0 .. AL_MAX_STREAM_BUFFER - 1
SourceSlot == 1 .. AL_MAX_SOURCE_BUFFER
InfoID == 0 .. ENC_MAX_CMD - 1
HdrID == 0 .. ENC_MAX_CMD - 1
SpsID == 0 .. iMaxSpsIds - 1
PpsID == 0 .. MAX_PPS_IDS - 1

VARIABLES
    program, next,   \* the application's calls, and the next one
    apc,             \* where the application's thread is
    chan,            \* channel parameters, current request, bEndOfStreamReceived
    PendingEncodings,
    pool,            \* tFrameInfoPool
    hdr,             \* tHDRPool
    SourceSent,      \* the source and frame-info id of each slot, <<0, 0>> if none
    ring,            \* iCurStreamSent, iCurStreamRecv, StreamSent
    curStreamSent,   \* the slot each thread took in PutStreamBuffer
    heads,           \* tHeadersCtx
    refs,            \* references of the encoder on the application's buffers
    hw,              \* driver and firmware (external)
    cpc, st,         \* where the thread enc-status-it is, and its status
    decoder,         \* the headers a decoder of the stream has (ghost)
    eosSeen          \* the application was told of the end of stream (ghost)

streams == <<ring, curStreamSent>>
appVars == <<program, next, apc, chan>>
cbVars == <<cpc, st, decoder, eosSeen>>
encVars == <<appVars, PendingEncodings, pool, hdr, SourceSent, streams, heads,
             refs, hw, cbVars>>

Refusals == program \in Refusing
Errors == program \in Failing
Faultless == ~Refusals /\ ~Errors

---------------------------------------------------------------------------
(* Ids and their counts *)

\* DecrRefCount: the last reference gives the id back to the pool.
DecrRefCount(h, id) ==
    [h EXCEPT !.refs[id] = @ - 1,
              !.free = IF h.refs[id] = 1 THEN Append(@, id) ELSE @]

\* What GetNextHDRSEIs drops before it takes an id.
DropCurrent(h) == IF h.cur = INVALID_POOL_ID THEN h ELSE DecrRefCount(h, h.cur)

\* AL_GetSps: the same SPS as for the previous frame, else the next of the
\* ring, which must not be in use.
SameSps(h, dim) == h.sps[h.iPrevSps].dim = dim
NextSps(h) == (h.iPrevSps + 1) % iMaxSpsIds
SpsFree(h, dim) == SameSps(h, dim) \/ h.sps[NextSps(h)].iRefCnt = 0
GetSps(h, dim) ==
    IF SameSps(h, dim) THEN [h EXCEPT !.sps[h.iPrevSps].iRefCnt = @ + 1]
    ELSE [h EXCEPT !.iPrevSps = NextSps(h),
                   !.sps[NextSps(h)] = [dim |-> dim, iRefCnt |-> 1, bHasBeenSent |-> FALSE]]

\* AL_GetPps, likewise.
SamePps(h, s, o) == h.pps[h.iPrevPps].uSpsId = s /\ h.pps[h.iPrevPps].offset = o
NextPps(h) == (h.iPrevPps + 1) % MAX_PPS_IDS
PpsFree(h, s, o) == SamePps(h, s, o) \/ h.pps[NextPps(h)].iRefCnt = 0
\* (Mutant: bHasBeenSent is not reset.)
GetPpsSent(h, s, o) ==
    IF SamePps(h, s, o) THEN [h EXCEPT !.pps[h.iPrevPps].iRefCnt = @ + 1]
    ELSE [h EXCEPT !.iPrevPps = NextPps(h),
                   !.pps[NextPps(h)].uSpsId = s, !.pps[NextPps(h)].offset = o,
                   !.pps[NextPps(h)].iRefCnt = 1]
GetPps(h, s, o) ==
    IF SamePps(h, s, o) THEN [h EXCEPT !.pps[h.iPrevPps].iRefCnt = @ + 1]
    ELSE [h EXCEPT !.iPrevPps = NextPps(h),
                   !.pps[NextPps(h)] = [uSpsId |-> s, offset |-> o, iRefCnt |-> 1,
                                        bHasBeenSent |-> FALSE]]

\* AL_ReleaseSps, AL_ReleasePps.
Released(c) == [c EXCEPT !.bHasBeenSent = TRUE, !.iRefCnt = @ - 1]

\* releaseSource: the first slot that holds the source, a reference on the
\* source and on the QP table that FrameInfos[id] has now.
SlotOf(n) == {s \in SourceSlot : SourceSent[s][1] = n}
FirstSlotOf(n) == CHOOSE s \in SlotOf(n) : \A t \in SlotOf(n) : s <= t
OneLess(f, x) == [f EXCEPT ![x] = @ - 1]
Unref(r, n, id) ==
    [r EXCEPT !.source = OneLess(@, n),
              !.table = IF pool.info[id].qp THEN OneLess(@, pool.info[id].frame) ELSE @]
ReleaseSource(n, id) ==
    /\ SourceSent' = [SourceSent EXCEPT ![FirstSlotOf(n)] = <<0, 0>>]
    /\ refs' = Unref(refs, n, id)

\* The ids of the stream ring between iCurStreamRecv and iCurStreamSent.
Window == {(ring.Recv + k) % AL_MAX_STREAM_BUFFER :
              k \in 0 .. ((ring.Sent - ring.Recv) % AL_MAX_STREAM_BUFFER) - 1}

---------------------------------------------------------------------------
(* The application's thread *)

Call(op) == apc = "idle" /\ next <= Len(program) /\ program[next].op = op
Now == program[next]
Returns == apc' = "idle" /\ next' = next + 1 /\ UNCHANGED program
Goes(pc) == apc' = pc /\ UNCHANGED <<program, next>>

\* AL_Common_Encoder_PutStreamBuffer: the slot is taken under the mutex, the
\* reference and the call of the driver come after it.
TakeSlot(thread, b) ==
    /\ ring' = [ring EXCEPT !.Sent = (@ + 1) % AL_MAX_STREAM_BUFFER,
                            !.StreamSent[ring.Sent] = b]
    /\ curStreamSent' = [curStreamSent EXCEPT ![thread] = ring.Sent]
HandOver(thread, b) ==
    /\ refs' = [refs EXCEPT !.stream[b] = @ + 1]
    /\ hw' = IF hw.alive THEN [hw EXCEPT !.bufs = Append(@, <<b, curStreamSent[thread]>>)]
             ELSE hw

PutTakesSlot ==
    /\ Call("put") /\ TakeSlot("app", Now.buf) /\ Goes("put")
    /\ UNCHANGED <<chan, PendingEncodings, pool, hdr, SourceSent, heads, refs, hw, cbVars>>

PutHandsOver ==
    /\ apc = "put" /\ HandOver("app", Now.buf) /\ Returns
    /\ UNCHANGED <<chan, PendingEncodings, pool, hdr, SourceSent, streams, heads, cbVars>>

\* AL_Common_Encoder_SetHDRSEIs: an id under the mutex, the SEIs after it.
TakeHdrID ==
    /\ Call("hdr")
    /\ LET h == DropCurrent(hdr)
       IN  /\ h.free # <<>>
           /\ hdr' = [h EXCEPT !.cur = Head(h.free), !.free = Tail(h.free),
                               !.refs[Head(h.free)] = 1]
    /\ Goes("copy")
    /\ UNCHANGED <<chan, PendingEncodings, pool, SourceSent, streams, heads, refs, hw, cbVars>>

CopyHdr ==
    /\ apc = "copy"
    /\ hdr' = [hdr EXCEPT !.seis[hdr.cur] = next, !.bHDRChanged = TRUE]
    /\ Returns
    /\ UNCHANGED <<chan, PendingEncodings, pool, SourceSent, streams, heads, refs, hw, cbVars>>

\* AL_Common_Encoder_SetInputResolution, AL_Common_Encoder_SetQPChromaOffsets.
SetParameters ==
    /\ \/ Call("resolution") /\ chan' = [chan EXCEPT !.dim = Now.dim, !.restart = TRUE]
       \/ Call("offsets") /\ chan' = [chan EXCEPT !.offset = Now.offset]
    /\ Returns
    /\ UNCHANGED <<PendingEncodings, pool, hdr, SourceSent, streams, heads, refs, hw, cbVars>>

\* AL_Common_Encoder_Process, refused before it takes anything.
ProcessRejects ==
    /\ \/ Call("frame") /\ (chan.bEndOfStreamReceived \/ ~Now.fits)
       \/ Call("eos") /\ chan.bEndOfStreamReceived
    /\ Returns
    /\ UNCHANGED <<chan, PendingEncodings, pool, hdr, SourceSent, streams, heads, refs, hw, cbVars>>

\* Without a frame: the end of the stream, which the driver may refuse too.
ProcessEos ==
    /\ Call("eos") /\ ~chan.bEndOfStreamReceived
    /\ chan' = [chan EXCEPT !.bEndOfStreamReceived = TRUE]
    /\ \/ hw' = [hw EXCEPT !.eos = TRUE]
       \/ Refusals /\ UNCHANGED hw
    /\ Returns
    /\ UNCHANGED <<PendingEncodings, pool, hdr, SourceSent, streams, heads, refs, cbVars>>

ProcessEnters ==
    /\ Call("frame") /\ ~chan.bEndOfStreamReceived /\ Now.fits
    /\ Goes("ready")
    /\ UNCHANGED <<chan, PendingEncodings, pool, hdr, SourceSent, streams, heads, refs, hw, cbVars>>

\* AL_Common_Encoder_WaitReadiness.
WaitReadiness ==
    /\ apc = "ready" /\ PendingEncodings > 0
    /\ PendingEncodings' = PendingEncodings - 1
    /\ Goes("info")
    /\ UNCHANGED <<chan, pool, hdr, SourceSent, streams, heads, refs, hw, cbVars>>

\* GetNextFrameInfo, and the references on the QP table and on the source.
GetFrameInfo ==
    /\ apc = "info" /\ pool.free # <<>>
    /\ pool' = [pool EXCEPT !.iCurID = Head(pool.free), !.free = Tail(pool.free),
                            !.info[Head(pool.free)].frame = next,
                            !.info[Head(pool.free)].qp = Now.qp]
    /\ refs' = [refs EXCEPT !.source[next] = @ + 1,
                            !.table[next] = IF Now.qp THEN @ + 1 ELSE @]
    /\ Goes("source")
    /\ UNCHANGED <<chan, PendingEncodings, hdr, SourceSent, streams, heads, hw, cbVars>>

FreeSlots == {s \in SourceSlot : SourceSent[s] = <<0, 0>>}
AddSourceSent ==
    /\ apc = "source" /\ FreeSlots # {}
    /\ LET slot == CHOOSE s \in FreeSlots : \A t \in FreeSlots : s <= t
       IN  SourceSent' = [SourceSent EXCEPT ![slot] = <<next, pool.iCurID>>]
    /\ Goes("infos")
    /\ UNCHANGED <<chan, PendingEncodings, pool, hdr, streams, heads, refs, hw, cbVars>>

\* UpdateEncoderInfos: the ids of the SPS and of the PPS.
UpdateEncoderInfos ==
    /\ apc = "infos"
    /\ LET h == GetSps(heads, chan.dim)
           g == GetPps(h, h.iPrevSps, chan.offset)
       IN  /\ SpsFree(heads, chan.dim) /\ PpsFree(h, h.iPrevSps, chan.offset)
           /\ heads' = g
           /\ pool' = [pool EXCEPT !.info[pool.iCurID].uSpsId = g.iPrevSps,
                                   !.info[pool.iCurID].uPpsId = g.iPrevPps,
                                   !.info[pool.iCurID].offset = chan.offset]
    /\ Goes("hls")
    /\ UNCHANGED <<chan, PendingEncodings, hdr, SourceSent, streams, refs, hw, cbVars>>

\* (Mutant: the reference on the HDR SEIs is forgotten.)
SetHLSInfosUncounted ==
    /\ apc = "hls"
    /\ pool' = [pool EXCEPT !.info[pool.iCurID].iHDRID = hdr.cur,
                            !.info[pool.iCurID].bHDRChanged = hdr.bHDRChanged]
    /\ hdr' = [hdr EXCEPT !.bHDRChanged = FALSE]
    /\ Goes("send")
    /\ UNCHANGED <<chan, PendingEncodings, SourceSent, streams, heads, refs, hw, cbVars>>

\* SetHLSInfos: the HDR SEIs of the frame are the current ones.
SetHLSInfos ==
    /\ apc = "hls"
    /\ pool' = [pool EXCEPT !.info[pool.iCurID].iHDRID = hdr.cur,
                            !.info[pool.iCurID].bHDRChanged = hdr.bHDRChanged]
    /\ hdr' = IF hdr.cur = INVALID_POOL_ID THEN hdr
              ELSE [hdr EXCEPT !.refs[hdr.cur] = @ + 1, !.bHDRChanged = FALSE]
    /\ Goes("send")
    /\ UNCHANGED <<chan, PendingEncodings, SourceSent, streams, heads, refs, hw, cbVars>>

\* AL_IEncScheduler_EncodeOneFrame accepts the frame and its request, ...
Job == [info |-> pool.iCurID, frame |-> next, restart |-> chan.restart \/ hw.fresh,
        parts |-> Now.parts, overtaken |-> 0]
FrameSent ==
    /\ apc = "send"
    /\ hw' = [hw EXCEPT !.jobs = Append(@, Job), !.fresh = FALSE]
    /\ chan' = [chan EXCEPT !.restart = FALSE]
    /\ Returns
    /\ UNCHANGED <<PendingEncodings, pool, hdr, SourceSent, streams, heads, refs, cbVars>>

\* (Mutant: the source stays in SourceSent.)
FrameRefusedKeepsSlot ==
    /\ apc = "send" /\ Refusals
    /\ refs' = Unref(refs, next, pool.iCurID)
    /\ chan' = [chan EXCEPT !.restart = FALSE]
    /\ Returns
    /\ UNCHANGED <<PendingEncodings, pool, hdr, SourceSent, streams, heads, hw, cbVars>>

\* ... or refuses it: the source and the QP table are all that is given back.
FrameRefused ==
    /\ apc = "send" /\ Refusals
    /\ ReleaseSource(next, pool.iCurID)
    /\ chan' = [chan EXCEPT !.restart = FALSE]
    /\ Returns
    /\ UNCHANGED <<PendingEncodings, pool, hdr, streams, heads, hw, cbVars>>

---------------------------------------------------------------------------
(* The driver and the firmware (external) *)

\* The order of the encoder: a frame may be encoded before frames that wait,
\* those that were overtaken as often as it (the levels of a pyramid nest), as
\* often as the GOP pattern reorders, and never across a restart of the GOP.
MayEncode(i) ==
    /\ i \in DOMAIN hw.jobs /\ i <= uNumB + 1
    /\ \A j \in 1 .. i - 1 : /\ hw.jobs[j].overtaken < GetMaxReordering
                            /\ hw.jobs[j].overtaken = hw.jobs[i].overtaken
    /\ i > 1 => \A j \in 1 .. i : ~hw.jobs[j].restart

\* It must encode a frame when it has all the GOP pattern may wait for.
MustEncode ==
    \/ hw.busy # <<>> \/ hw.eos
    \/ Len(hw.jobs) > uNumB
    \/ hw.jobs # <<>> /\ hw.jobs[1].overtaken > 0
    \/ \E i \in DOMAIN hw.jobs : hw.jobs[i].restart

\* One part of a job is encoded into the next stream buffer.
Status(job, first, e) ==
    [info |-> job.info, frame |-> job.frame, buf |-> Head(hw.bufs)[1],
     streamId |-> Head(hw.bufs)[2], first |-> first, last |-> job.parts = 1,
     idr |-> job.restart, error |-> e]
EndOfStreamStatus ==
    [info |-> INVALID_POOL_ID, frame |-> 0, buf |-> 0, streamId |-> 0,
     first |-> FALSE, last |-> FALSE, idr |-> FALSE, error |-> FALSE]
JobsAfter(i) ==
    [j \in 1 .. Len(hw.jobs) - 1 |->
        IF j < i THEN [hw.jobs[j] EXCEPT !.overtaken = @ + 1] ELSE hw.jobs[j + 1]]
NextPart(job) == [job EXCEPT !.parts = @ - 1]
Encoded(job, first, rest) ==
    /\ hw.bufs # <<>>
    /\ \E e \in {FALSE, Errors} :
          hw' = [hw EXCEPT !.jobs = rest, !.bufs = Tail(@),
                           !.status = Append(@, Status(job, first, e)),
                           !.busy = IF job.parts = 1 THEN <<>> ELSE <<NextPart(job)>>]

EncodePart ==
    /\ \/ hw.busy # <<>> /\ Encoded(Head(hw.busy), FALSE, hw.jobs)
       \/ /\ hw.busy = <<>>
          /\ \E i \in DOMAIN hw.jobs :
                /\ MayEncode(i)
                /\ Encoded(hw.jobs[i], TRUE, JobsAfter(i))
    /\ UNCHANGED <<appVars, PendingEncodings, pool, hdr, SourceSent, streams, heads, refs,
                   cbVars>>

ReportEos ==
    /\ hw.eos /\ hw.jobs = <<>> /\ hw.busy = <<>>
    /\ hw' = [hw EXCEPT !.eos = FALSE, !.status = Append(@, EndOfStreamStatus)]
    /\ UNCHANGED <<appVars, PendingEncodings, pool, hdr, SourceSent, streams, heads, refs,
                   cbVars>>

---------------------------------------------------------------------------
(* The thread enc-status-it: EndEncoding *)

CallbackGoes(pc) == cpc' = pc /\ UNCHANGED <<st, decoder, eosSeen>>

EndEncodingEos ==
    /\ cpc = "wait" /\ hw.status # <<>> /\ Head(hw.status) = EndOfStreamStatus
    /\ hw' = [hw EXCEPT !.status = Tail(@)]
    /\ eosSeen' = TRUE
    /\ UNCHANGED <<appVars, PendingEncodings, pool, hdr, SourceSent, streams, heads, refs,
                   cpc, st, decoder>>

\* (Mutant: a part with an error does not count as received.)
EndEncodingSkipsErrors ==
    /\ cpc = "wait" /\ hw.status # <<>> /\ Head(hw.status) # EndOfStreamStatus
    /\ hw' = [hw EXCEPT !.status = Tail(@)]
    /\ LET s == Head(hw.status)
       IN  /\ st' = [s EXCEPT !.buf = ring.StreamSent[s.streamId]]
           /\ cpc' = IF s.error THEN "user" ELSE "sections"
           /\ ring' = IF s.error THEN ring
                      ELSE [ring EXCEPT !.Recv = (@ + 1) % AL_MAX_STREAM_BUFFER]
    /\ UNCHANGED <<appVars, PendingEncodings, pool, hdr, SourceSent, curStreamSent, heads,
                   refs, decoder, eosSeen>>

\* The stream buffer is the one of the ring; the headers of a part with an
\* error are not written.
EndEncodingBegins ==
    /\ cpc = "wait" /\ hw.status # <<>> /\ Head(hw.status) # EndOfStreamStatus
    /\ hw' = [hw EXCEPT !.status = Tail(@)]
    /\ LET s == Head(hw.status)
       IN  /\ st' = [s EXCEPT !.buf = ring.StreamSent[s.streamId]]
           /\ cpc' = IF s.error THEN "user" ELSE "sections"
    /\ ring' = [ring EXCEPT !.Recv = (@ + 1) % AL_MAX_STREAM_BUFFER]
    /\ UNCHANGED <<appVars, PendingEncodings, pool, hdr, SourceSent, curStreamSent, heads,
                   refs, decoder, eosSeen>>

\* updateHlsAndWriteSections: the first part of a frame releases its SPS and
\* its PPS; an IDR carries both, another frame a PPS not sent yet.
SpsOf(h, i) ==
    IF h.sps[i.uSpsId].bHasBeenSent THEN h.layerSps
    ELSE [id |-> i.uSpsId, dim |-> h.sps[i.uSpsId].dim]
PpsOf(i) == [uSpsId |-> i.uSpsId, offset |-> i.offset]
WritesPps(i) == st.idr \/ ~heads.pps[i.uPpsId].bHasBeenSent
WriteSections ==
    /\ cpc = "sections"
    /\ LET i == pool.info[st.info]
           sps == SpsOf(heads, i)
       IN  IF st.first
           THEN /\ heads' = [heads EXCEPT !.layerSps = sps,
                                          !.sps[i.uSpsId] = Released(@),
                                          !.pps[i.uPpsId] = Released(@)]
                /\ decoder' =
                      [sps |-> IF st.idr THEN [decoder.sps EXCEPT ![sps.id] = sps.dim]
                               ELSE decoder.sps,
                       pps |-> IF WritesPps(i)
                               THEN [decoder.pps EXCEPT ![i.uPpsId] = PpsOf(i)]
                               ELSE decoder.pps]
           ELSE UNCHANGED <<heads, decoder>>
    /\ cpc' = "user"
    /\ UNCHANGED <<appVars, PendingEncodings, pool, hdr, SourceSent, streams, refs, hw, st,
                   eosSeen>>

\* The application's callback is done with the stream buffer and puts it
\* again.
CallbackTakesSlot ==
    /\ cpc = "user" /\ TakeSlot("cb", st.buf) /\ CallbackGoes("put")
    /\ UNCHANGED <<appVars, PendingEncodings, pool, hdr, SourceSent, heads, refs, hw>>

CallbackHandsOver ==
    /\ cpc = "put" /\ HandOver("cb", st.buf)
    /\ CallbackGoes(IF st.last THEN "source" ELSE "unref")
    /\ UNCHANGED <<appVars, PendingEncodings, pool, hdr, SourceSent, streams, heads>>

\* releaseSource, after the last part.
SourceReleased ==
    /\ cpc = "source"
    /\ ReleaseSource(st.frame, st.info)
    /\ CallbackGoes("give")
    /\ UNCHANGED <<appVars, PendingEncodings, pool, hdr, streams, heads, hw>>

\* The HDR SEIs and the frame-info id go back to their pools, ...
IdsGivenBack ==
    /\ cpc = "give"
    /\ LET id == pool.info[st.info].iHDRID
       IN  hdr' = IF id = INVALID_POOL_ID THEN hdr ELSE DecrRefCount(hdr, id)
    /\ pool' = [pool EXCEPT !.free = Append(@, st.info)]
    /\ CallbackGoes("post")
    /\ UNCHANGED <<appVars, PendingEncodings, SourceSent, streams, heads, refs, hw>>

\* (Mutant: the token is kept.)
TokenKept ==
    /\ cpc = "post"
    /\ CallbackGoes("unref")
    /\ UNCHANGED <<appVars, PendingEncodings, pool, hdr, SourceSent, streams, heads, refs, hw>>

\* ... then the token ...
TokenReleased ==
    /\ cpc = "post"
    /\ PendingEncodings' = PendingEncodings + 1
    /\ CallbackGoes("unref")
    /\ UNCHANGED <<appVars, pool, hdr, SourceSent, streams, heads, refs, hw>>

\* (Mutant: every part releases the token.)
EveryPartPosts ==
    /\ cpc = "unref"
    /\ PendingEncodings' = PendingEncodings + 1
    /\ refs' = [refs EXCEPT !.stream[st.buf] = @ - 1]
    /\ CallbackGoes("wait")
    /\ UNCHANGED <<appVars, pool, hdr, SourceSent, streams, heads, hw>>

\* ... and the stream buffer.
StreamReleased ==
    /\ cpc = "unref"
    /\ refs' = [refs EXCEPT !.stream[st.buf] = @ - 1]
    /\ CallbackGoes("wait")
    /\ UNCHANGED <<appVars, PendingEncodings, pool, hdr, SourceSent, streams, heads, hw>>

---------------------------------------------------------------------------
(* AL_Common_Encoder_Destroy *)

\* AL_IEncScheduler_DestroyChannel: the firmware drops its work, the thread
\* ends at the hang up, perhaps before it has seen every status.
DestroyChannel ==
    /\ apc = "idle" /\ Goes("join")
    /\ hw' = [hw EXCEPT !.alive = FALSE, !.eos = FALSE,
                        !.jobs = <<>>, !.busy = <<>>, !.bufs = <<>>]
    /\ UNCHANGED <<chan, PendingEncodings, pool, hdr, SourceSent, streams, heads, refs, cbVars>>

CallbackThreadEnds ==
    /\ cpc = "wait" /\ ~hw.alive
    /\ CallbackGoes("ended")
    /\ UNCHANGED <<appVars, PendingEncodings, pool, hdr, SourceSent, streams, heads, refs, hw>>

\* releaseStreams and releaseSources, with one thread left.
TimesIn(f, S, x) == Cardinality({k \in S : f[k] = x})
ReleaseAll ==
    /\ apc = "join" /\ cpc = "ended"
    /\ LET held == {s \in SourceSlot : SourceSent[s] # <<0, 0>>}
           Tabled(n) == {s \in held : LET i == pool.info[SourceSent[s][2]]
                                      IN  i.qp /\ i.frame = n}
       IN  refs' = [stream |-> [b \in StreamBuf |->
                                  refs.stream[b] - TimesIn(ring.StreamSent, Window, b)],
                    source |-> [n \in DOMAIN program |->
                                  refs.source[n] - Cardinality({s \in held : SourceSent[s][1] = n})],
                    table |-> [n \in DOMAIN program |->
                                  refs.table[n] - Cardinality(Tabled(n))]]
    /\ SourceSent' = [s \in SourceSlot |-> <<0, 0>>]
    /\ Goes("destroyed")
    /\ UNCHANGED <<chan, PendingEncodings, pool, hdr, streams, heads, hw, cbVars>>

Destroyed == apc = "destroyed" /\ UNCHANGED encVars

---------------------------------------------------------------------------
(* The specification *)

EncInit ==
    /\ program \in Programs /\ next = 1 /\ apc = "idle"
    /\ chan = [dim |-> 1, offset |-> 1, restart |-> FALSE, bEndOfStreamReceived |-> FALSE]
    /\ PendingEncodings = ENC_MAX_CMD - 1
    /\ pool = [iCurID |-> INVALID_POOL_ID, free |-> [k \in 1 .. ENC_MAX_CMD |-> k - 1],
               info |-> [id \in InfoID |->
                           [frame |-> 0, qp |-> FALSE, uSpsId |-> 0, uPpsId |-> 0, offset |-> 0,
                            iHDRID |-> INVALID_POOL_ID, bHDRChanged |-> FALSE]]]
    /\ hdr = [cur |-> INVALID_POOL_ID, free |-> [k \in 1 .. ENC_MAX_CMD |-> k - 1],
              refs |-> [id \in HdrID |-> 0], seis |-> [id \in HdrID |-> 0],
              bHDRChanged |-> FALSE]
    /\ SourceSent = [s \in SourceSlot |-> <<0, 0>>]
    /\ ring = [Sent |-> 0, Recv |-> 0, StreamSent |-> [s \in Slot |-> 0]]
    /\ curStreamSent = [app |-> 0, cb |-> 0]
    /\ heads = [iPrevSps |-> iMaxSpsIds - 1, iPrevPps |-> MAX_PPS_IDS - 1,
                sps |-> [id \in SpsID |-> [dim |-> 0, iRefCnt |-> 0, bHasBeenSent |-> FALSE]],
                pps |-> [id \in PpsID |-> [uSpsId |-> iMaxSpsIds, offset |-> 0, iRefCnt |-> 0,
                                          bHasBeenSent |-> FALSE]],
                layerSps |-> [id |-> 0, dim |-> 0]]
    /\ refs = [stream |-> [b \in StreamBuf |-> 0],
               source |-> [n \in DOMAIN program |-> 0], table |-> [n \in DOMAIN program |-> 0]]
    /\ hw = [alive |-> TRUE, fresh |-> TRUE, eos |-> FALSE, jobs |-> <<>>, busy |-> <<>>,
             bufs |-> <<>>, status |-> <<>>]
    /\ cpc = "wait" /\ st = EndOfStreamStatus /\ eosSeen = FALSE
    /\ decoder = [sps |-> [id \in SpsID |-> 0],
                  pps |-> [id \in PpsID |-> [uSpsId |-> 0, offset |-> 0]]]

Process ==
    \/ ProcessRejects \/ ProcessEos \/ ProcessEnters
    \/ WaitReadiness \/ GetFrameInfo \/ AddSourceSent
    \/ UpdateEncoderInfos \/ SetHLSInfos \/ FrameSent \/ FrameRefused
Application ==
    \/ PutTakesSlot \/ PutHandsOver
    \/ TakeHdrID \/ CopyHdr \/ SetParameters
    \/ Process
    \/ ReleaseAll
CallbackThread ==
    \/ EndEncodingEos \/ EndEncodingBegins \/ WriteSections
    \/ CallbackTakesSlot \/ CallbackHandsOver
    \/ SourceReleased \/ IdsGivenBack \/ TokenReleased \/ StreamReleased
    \/ CallbackThreadEnds
Firmware == EncodePart \/ ReportEos

EncNext == Application \/ DestroyChannel \/ CallbackThread \/ Firmware \/ Destroyed

\* The two threads run.  The firmware encodes what the GOP pattern lets it
\* encode, and answers the end of the stream.  Nothing makes the application
\* destroy the encoder.
EncFairness ==
    /\ WF_encVars(Application)
    /\ WF_encVars(CallbackThread)
    /\ WF_encVars(MustEncode /\ EncodePart)
    /\ WF_encVars(ReportEos)

EncSpec == EncInit /\ [][EncNext]_encVars /\ EncFairness

---------------------------------------------------------------------------
(* Properties *)

\* What the application set before its call number n.
LastOf(op, n) == {k \in 1 .. n - 1 : program[k].op = op}
LatestHdr(n) == IF LastOf("hdr", n) = {} THEN 0 ELSE Max(LastOf("hdr", n))
DimOf(n) == IF LastOf("resolution", n) = {} THEN 1
            ELSE program[Max(LastOf("resolution", n))].dim
OffsetOf(n) == IF LastOf("offsets", n) = {} THEN 1
               ELSE program[Max(LastOf("offsets", n))].offset

Busy == cpc \notin {"wait", "ended"}
Sent == {s \in SourceSlot : SourceSent[s] # <<0, 0>>}

\* Threads, tokens, ids and counts stay in the ranges the code gives them: no
\* token is made, no id is in a pool twice, no count goes below zero.
TypeOK ==
    /\ apc \in {"idle", "put", "copy", "ready", "info", "source", "infos", "hls", "send",
                "join", "destroyed"}
    /\ cpc \in {"wait", "sections", "user", "put", "source", "give", "post", "unref", "ended"}
    /\ PendingEncodings \in 0 .. ENC_MAX_CMD - 1
    /\ pool.free \in Seq(InfoID) /\ IsInjective(pool.free)
    /\ hdr.free \in Seq(HdrID) /\ IsInjective(hdr.free)
    /\ hdr.refs \in [HdrID -> Nat]
    /\ \A id \in SpsID : heads.sps[id].iRefCnt \in Nat
    /\ \A id \in PpsID : heads.pps[id].iRefCnt \in Nat
    /\ refs.stream \in [StreamBuf -> Nat]
    /\ refs.source \in [DOMAIN program -> Nat] /\ refs.table \in [DOMAIN program -> Nat]

\* The encoder references a buffer of the application exactly as long as it
\* will give it back: a stream buffer once per slot of the ring and once in
\* the callback, a source and its QP table while the source is in SourceSent.
\* A frame refused, a status lost when the channel is destroyed or an error
\* keeps nothing, and after Destroy no reference is left.
RefsAreExact ==
    IF apc = "destroyed"
    THEN /\ \A b \in StreamBuf : refs.stream[b] = 0
         /\ \A n \in DOMAIN program : refs.source[n] = 0 /\ refs.table[n] = 0
    ELSE /\ \A b \in StreamBuf :
               refs.stream[b] + (IF apc = "put" /\ Now.buf = b THEN 1 ELSE 0)
                              + (IF cpc = "put" /\ st.buf = b THEN 1 ELSE 0)
               = TimesIn(ring.StreamSent, Window, b) + (IF Busy /\ st.buf = b THEN 1 ELSE 0)
         /\ \A n \in DOMAIN program :
               LET held == Cardinality({s \in Sent : SourceSent[s][1] = n})
                           + (IF apc = "source" /\ next = n THEN 1 ELSE 0)
               IN  /\ refs.source[n] = held
                   /\ program[n].op = "frame" => refs.table[n] = IF program[n].qp THEN held ELSE 0

\* The statuses that wait, but for the end of the stream, which comes last.
WaitingParts ==
    IF hw.status # <<>> /\ Last(hw.status) = EndOfStreamStatus THEN Len(hw.status) - 1
    ELSE Len(hw.status)

\* "We require the stream to come back in the same order we sent them": the
\* driver's stream buffers and the statuses waiting are the ring's, in order.
StreamsInOrder ==
    LET slot(k) == (ring.Recv + k - 1) % AL_MAX_STREAM_BUFFER
        InRing(b, s, k) == s = slot(k) /\ b = ring.StreamSent[s]
    IN  /\ \A k \in 1 .. WaitingParts :
              InRing(hw.status[k].buf, hw.status[k].streamId, k)
        /\ \A k \in DOMAIN hw.bufs :
              InRing(hw.bufs[k][1], hw.bufs[k][2], WaitingParts + k)

\* While a frame is with the firmware or in the callback, its frame-info id
\* is nobody else's, whatever the order the firmware answers in, and the HDR
\* SEIs the callback would write are those set before the frame was pushed,
\* not later ones.
Parts == {hw.jobs[i] : i \in DOMAIN hw.jobs} \cup {hw.busy[i] : i \in DOMAIN hw.busy}
         \cup ({hw.status[i] : i \in DOMAIN hw.status} \ {EndOfStreamStatus})
         \cup (IF cpc \in {"sections", "user", "put", "source", "give"} THEN {st} ELSE {})
InfoIsPrivate ==
    \A p \in Parts :
        LET i == pool.info[p.info]
        IN  /\ i.frame = p.frame
            /\ \A k \in DOMAIN pool.free : pool.free[k] # p.info
            /\ LatestHdr(p.frame) = IF i.iHDRID = INVALID_POOL_ID THEN 0 ELSE hdr.seis[i.iHDRID]

\* PendingEncodings "tracks the count of jobs sent to the scheduler": what is
\* missing of its tokens is one for each frame that is being processed.
TokensAreExact ==
    apc # "destroyed" =>
        ENC_MAX_CMD - 1 - PendingEncodings =
            Cardinality(Sent) + (IF apc \in {"info", "source"} THEN 1 ELSE 0)
                              + (IF cpc \in {"give", "post"} THEN 1 ELSE 0)

\* The same where the driver refuses no frame: errors, rejected calls and
\* reordering keep no token.
TokensComeBack == ~Refusals => TokensAreExact

\* The next SPS and the next PPS of the rings are not in use when a frame
\* needs them, as AL_GetSps and AL_GetPps assert.
HeadersFree ==
    apc = "infos" =>
        LET h == GetSps(heads, chan.dim)
        IN  SpsFree(heads, chan.dim) /\ PpsFree(h, h.iPrevSps, chan.offset)

\* Where nothing fails a token is enough: with one, no pool or array is ever
\* exhausted, and a status finds its SPS and its PPS still in use; nor does a
\* ring of headers meet an id in use, whatever the application changes from
\* frame to frame, if the GOP overtakes no frame more than twice (the default
\* patterns and the pyramids of 3 and 5 B pictures; not those of 7 and 15).
PoolsSuffice ==
    Faultless =>
        /\ GetMaxReordering <= 2 => HeadersFree
        /\ apc = "info" => pool.free # <<>>
        /\ apc = "source" => FreeSlots # {}
        /\ Call("hdr") => DropCurrent(hdr).free # <<>>
        /\ cpc = "sections" /\ st.first =>
              /\ heads.sps[pool.info[st.info].uSpsId].iRefCnt > 0
              /\ heads.pps[pool.info[st.info].uPpsId].iRefCnt > 0

\* Where nothing fails a decoder of the stream has, when a part arrives, the
\* PPS and the SPS its frame was encoded with, though ids are used again,
\* frames are reordered and a PPS is sent with the first frame that needs it.
\* (A refused frame loses the restart its new SPS needs.)
StreamDecodable ==
    cpc = "user" /\ Faultless =>
        LET i == pool.info[st.info]
        IN  /\ decoder.pps[i.uPpsId] = [uSpsId |-> i.uSpsId, offset |-> OffsetOf(st.frame)]
            /\ decoder.sps[i.uSpsId] = DimOf(st.frame)

\* Unless it is destroyed or a frame fails, the encoder takes everything the application
\* pushes, gives every source back and reports the end of the stream; and a
\* Destroy that has begun ends.
EncoderFinishes ==
    <>[](\/ apc = "destroyed" \/ ~Faultless
        \/ /\ apc = "idle" /\ next > Len(program) /\ eosSeen
           /\ \A n \in DOMAIN program : refs.source[n] = 0)
=============================================================================
