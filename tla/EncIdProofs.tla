---------------------------- MODULE EncIdProofs ----------------------------
(***************************************************************************)
(* The SPS and the PPS of EncFlow are counted for as long as the headers   *)
(* of a frame in flight may need them, never fall far behind the current   *)
(* ones, and their pools suffice (EncInvariant: EncHeads, EncPools).       *)
(***************************************************************************)
EXTENDS EncFrameProofs

---------------------------------------------------------------------------
(* The frames whose SPS and PPS are in use *)

LEMMA OpenIs ==
  Open = {id \in InfoID :
            \/ apc \in {"hls", "send"} /\ pool.iCurID = id
            \/ \E p \in Range(hw.jobs) : p.info = id
            \/ \E p \in Range(hw.status) : p.first /\ p.info = id
            \/ cpc = "sections" /\ st.first /\ st.info = id}
  BY DEF Open, Range

\* Two parts with one frame-info id are parts of one frame, which is not the
\* frame being pushed.
LEMMA SlotsOfParts ==
  ASSUME EncTypes, FramesAgree, NEW p, HasSlot(p)
  PROVE  /\ p.info \in InfoID
         /\ \A q : HasSlot(q) /\ q.info = p.info => q.frame = p.frame
         /\ InSource => p.info # pool.iCurID
  <1>1. PICK s \in Sent : SourceSent[s] = <<p.frame, p.info>> /\ p.frame < next
    BY DEF HasSlot, HeldBy
  <1>2. FrameOf(s) = p.frame /\ InfoOf(s) = p.info /\ SlotsAgree
    BY <1>1 DEF FrameOf, InfoOf, FramesAgree
  <1>3. ASSUME NEW q, HasSlot(q), q.info = p.info PROVE q.frame = p.frame
    <2>1. PICK t \in Sent : SourceSent[t] = <<q.frame, q.info>>
      BY <1>3 DEF HasSlot, HeldBy
    <2>2. FrameOf(t) = q.frame /\ InfoOf(t) = q.info
      BY <2>1 DEF FrameOf, InfoOf
    <2>3. s = t
      BY <1>2, <1>3, <2>2 DEF SlotsAgree
    <2> QED BY <1>2, <2>2, <2>3
  <1>4. ASSUME InSource, p.info = pool.iCurID PROVE FALSE
    <2>1. PICK t \in Sent : SourceSent[t] = <<next, pool.iCurID>>
      BY <1>4 DEF FramesAgree, CurrentAgrees
    <2>2. FrameOf(t) = next /\ InfoOf(t) = pool.iCurID
      BY <2>1 DEF FrameOf, InfoOf
    <2>3. s = t
      BY <1>2, <1>4, <2>2 DEF SlotsAgree
    <2> QED BY <1>1, <1>2, <2>2, <2>3, SlotTypes DEF EncTypes, ThreadsAgree
  <1> QED BY <1>2, <1>3, <1>4, SlotTypes

LEMMA QueuedParts ==
  ASSUME EncTypes, FramesAgree, apc # "destroyed"
  PROVE  /\ \A p \in Range(hw.jobs) : HasSlot(p)
         /\ \A p \in Range(hw.status) : p.first => HasSlot(p)
         /\ Active => HasSlot(st)
         /\ hw.jobs \in Seq(JobSet) /\ hw.status \in Seq(PartSet \cup {EndOfStreamStatus})
  <1>1. EndOfStreamStatus.first = FALSE
    BY DEF EndOfStreamStatus
  <1> QED BY <1>1 DEF FramesAgree, PartsHeld, Range, EncTypes, EncVarTypes, HwSet

LEMMA OpenTaken ==
  ASSUME EncTypes, FramesAgree, UpdateEncoderInfos
  PROVE  pool.iCurID \in InfoID \ Open /\ Open' = Open \cup {pool.iCurID}
  <1>1. /\ apc = "infos" /\ apc' = "hls" /\ hw' = hw /\ cpc' = cpc /\ st' = st
        /\ pool.iCurID \in InfoID /\ InSource
    BY DEF UpdateEncoderInfos, Goes, cbVars, EncTypes, ThreadsAgree, InSource
  <1>2. pool'.iCurID = pool.iCurID
    <2>1. PICK a, b, c : pool' = [pool EXCEPT !.info[pool.iCurID].uSpsId = a,
                                            !.info[pool.iCurID].uPpsId = b,
                                            !.info[pool.iCurID].offset = c]
      BY DEF UpdateEncoderInfos
    <2> QED BY <2>1 DEF EncTypes, EncVarTypes, PoolSet
  <1>3. pool.iCurID \notin Open
    <2>1. \A p \in Range(hw.jobs) : p.info # pool.iCurID
      BY <1>1, QueuedParts, SlotsOfParts
    <2>2. \A p \in Range(hw.status) : p.first => p.info # pool.iCurID
      BY <1>1, QueuedParts, SlotsOfParts
    <2>3. cpc = "sections" => st.info # pool.iCurID
      BY <1>1, QueuedParts, SlotsOfParts DEF Active
    <2> QED BY <1>1, <2>1, <2>2, <2>3, OpenIs
  <1>4. Open' = {id \in InfoID :
                   \/ apc' \in {"hls", "send"} /\ pool'.iCurID = id
                   \/ \E p \in Range(hw'.jobs) : p.info = id
                   \/ \E p \in Range(hw'.status) : p.first /\ p.info = id
                   \/ cpc' = "sections" /\ st'.first /\ st'.info = id}
    BY DEF Open, Range
  <1> QED BY <1>1, <1>2, <1>3, <1>4, OpenIs

LEMMA OpenReleased ==
  ASSUME EncTypes, FramesAgree, WriteSections
  PROVE  /\ st.info \in InfoID
         /\ st.first => st.info \in Open /\ Open' = Open \ {st.info}
         /\ ~st.first => Open' = Open
  <1>1. /\ cpc = "sections" /\ cpc' = "user" /\ apc' = apc /\ hw' = hw /\ pool' = pool /\ st' = st
        /\ apc # "destroyed" /\ st.info \in InfoID /\ Active /\ st \in StSet
    BY DEF WriteSections, appVars, Active, EncTypes, EncVarTypes, ThreadsAgree, Busy
  <1>2. Open' = {id \in InfoID :
                   \/ apc' \in {"hls", "send"} /\ pool'.iCurID = id
                   \/ \E p \in Range(hw'.jobs) : p.info = id
                   \/ \E p \in Range(hw'.status) : p.first /\ p.info = id
                   \/ cpc' = "sections" /\ st'.first /\ st'.info = id}
    BY DEF Open, Range
  <1>3. ASSUME st.first
        PROVE  /\ apc \in {"hls", "send"} => pool.iCurID # st.info
               /\ \A p \in Range(hw.jobs) : p.info # st.info
               /\ \A p \in Range(hw.status) : p.first => p.info # st.info
    <2>1. HasSlot(st) /\ PartsInOrder
      BY <1>1, QueuedParts DEF FramesAgree
    <2>2. apc \in {"hls", "send"} => pool.iCurID # st.info
      BY <2>1, SlotsOfParts DEF InSource
    <2>3. \A p \in Range(hw.jobs) : p.frame # st.frame
      BY <1>1, <2>1 DEF PartsInOrder, JobsDiffer, Range
    <2>4. \A p \in Range(hw.status) : p.first => p.frame # st.frame
      BY <1>1, <2>1 DEF PartsInOrder, Range
    <2> QED BY <1>1, <2>1, <2>2, <2>3, <2>4, QueuedParts, SlotsOfParts
  <1> QED BY <1>1, <1>2, <1>3, OpenIs

LEMMA OpenEncoded ==
  ASSUME EncTypes, EncodePart
  PROVE  Open' = Open
  <1>1. PICK job \in JobSet, first \in BOOLEAN, e \in BOOLEAN :
            /\ hw'.status = Append(hw.status, Status(job, first, e))
            /\ Status(job, first, e) \in PartSet
            /\ \/ hw.busy = <<job>> /\ first = FALSE /\ hw'.jobs = hw.jobs
               \/ /\ hw.busy = <<>> /\ first = TRUE
                  /\ \E i \in DOMAIN hw.jobs :
                        MayEncode(i) /\ job = hw.jobs[i] /\ hw'.jobs = JobsAfter(i)
    BY PartEncoded
  <1> DEFINE p == Status(job, first, e)
  <1>2. p.first = first /\ p.info = job.info /\ p \in PartSet
    BY <1>1 DEF Status
  <1> HIDE DEF p
  <1>3. hw.status \in Seq(PartSet \cup {EndOfStreamStatus}) /\ hw \in HwSet
    BY DEF EncTypes, EncVarTypes, HwSet
  <1>4. Range(hw'.status) = Range(hw.status) \cup {p}
    BY <1>1, <1>2, <1>3, AppendRange DEF p
  <1>5. apc' = apc /\ pool' = pool /\ cpc' = cpc /\ st' = st
    BY DEF EncodePart, appVars, cbVars
  <1>6. \A id : (\E q \in Range(hw.jobs) : q.info = id)
                <=> (\E q \in Range(hw'.jobs) : q.info = id) \/ (first /\ job.info = id)
    <2>1. CASE first = FALSE
      BY <1>1, <2>1
    <2>2. CASE first = TRUE
      <3>1. PICK i \in DOMAIN hw.jobs : job = hw.jobs[i] /\ hw'.jobs = JobsAfter(i)
        BY <1>1, <2>2
      <3> DEFINE K == hw'.jobs
                 J == hw.jobs
      <3>2. \A j \in DOMAIN JobsAfter(i) :
                LET k == IF j < i THEN j ELSE j + 1
                IN  k \in DOMAIN J /\ JobsAfter(i)[j].info = J[k].info
        BY <1>3, JobsAfterIs
      <3>3. \A j \in DOMAIN K : LET k == IF j < i THEN j ELSE j + 1
                                IN  k \in DOMAIN J /\ K[j].info = J[k].info
        BY <3>1, <3>2
      <3>4. \A j \in DOMAIN K : \E k \in DOMAIN J : K[j].info = J[k].info
        <4> HIDE DEF K, J
        <4> QED BY <3>3
      <3>5. ASSUME NEW k \in DOMAIN J, k # i PROVE \E j \in DOMAIN K : K[j].info = J[k].info
        <4>1. /\ DOMAIN J = 1 .. Len(J) /\ Len(J) \in Nat
              /\ K \in Seq(JobSet) /\ Len(K) = Len(J) - 1
          BY <1>3, <3>1, JobsAfterIs, LenProperties DEF HwSet
        <4>2. DOMAIN K = 1 .. Len(J) - 1
          BY <4>1, LenProperties
        <4> DEFINE j == IF k < i THEN k ELSE k - 1
        <4>3. j \in DOMAIN K /\ (IF j < i THEN j ELSE j + 1) = k
          BY <3>5, <4>1, <4>2
        <4>4. K[j].info = J[k].info
          <5> HIDE DEF K, J, j
          <5> QED BY <3>3, <4>3
        <4> QED BY <4>3, <4>4
      <3> HIDE DEF K, J
      <3>6. \A id : (\E k \in DOMAIN J : J[k].info = id)
                    <=> (\E j \in DOMAIN K : K[j].info = id) \/ (J[i].info = id)
        <4>1. i \in DOMAIN J
          BY DEF J
        <4> QED BY <3>4, <3>5, <4>1
      <3> QED BY <2>2, <3>1, <3>6 DEF Range, K, J
    <2> QED BY <2>1, <2>2
  <1>7. Open' = {id \in InfoID :
                   \/ apc' \in {"hls", "send"} /\ pool'.iCurID = id
                   \/ \E q \in Range(hw'.jobs) : q.info = id
                   \/ \E q \in Range(hw'.status) : q.first /\ q.info = id
                   \/ cpc' = "sections" /\ st'.first /\ st'.info = id}
    BY DEF Open, Range
  <1> QED BY <1>2, <1>4, <1>5, <1>6, <1>7, OpenIs

LEMMA OpenBegun ==
  ASSUME EncTypes, EndEncodingBegins
  PROVE  Open' \subseteq Open /\ (~hw.status[1].error => Open' = Open)
  <1>1. /\ hw.status \in Seq(PartSet \cup {EndOfStreamStatus}) /\ hw.status # <<>>
        /\ 1 \in DOMAIN hw.status
        /\ st'.info = hw.status[1].info /\ st'.first = hw.status[1].first
        /\ hw'.status = Tail(hw.status) /\ hw'.jobs = hw.jobs
    BY StatusTaken
  <1>2. /\ cpc = "wait" /\ apc' = apc /\ pool' = pool
        /\ cpc' = IF hw.status[1].error THEN "user" ELSE "sections"
    BY <1>1, HeadTailProperties DEF EndEncodingBegins, appVars
  <1>3. /\ Range(hw'.status) \subseteq Range(hw.status)
        /\ Range(hw.status) \subseteq Range(hw'.status) \cup {hw.status[1]}
        /\ hw.status[1] \in Range(hw.status)
    BY <1>1, TailRange, HeadTailProperties
  <1>4. Open' = {id \in InfoID :
                   \/ apc' \in {"hls", "send"} /\ pool'.iCurID = id
                   \/ \E p \in Range(hw'.jobs) : p.info = id
                   \/ \E p \in Range(hw'.status) : p.first /\ p.info = id
                   \/ cpc' = "sections" /\ st'.first /\ st'.info = id}
    BY DEF Open, Range
  <1> QED BY <1>1, <1>2, <1>3, <1>4, OpenIs

LEMMA JobSent ==
  ASSUME EncTypes, FrameSent
  PROVE  /\ hw.jobs \in Seq(JobSet) /\ pool.iCurID \in InfoID /\ Job \in JobSet
         /\ hw'.jobs = Append(hw.jobs, Job) /\ hw'.status = hw.status /\ hw'.busy = hw.busy
         /\ Range(hw'.jobs) = Range(hw.jobs) \cup {Job}
         /\ Job.info = pool.iCurID /\ Job.frame = next /\ Job.overtaken = 0
         /\ (Job.restart <=> chan.restart \/ hw.fresh)
  <1>1. hw.jobs \in Seq(JobSet) /\ pool.iCurID \in InfoID
    BY DEF EncTypes, EncVarTypes, ThreadsAgree, HwSet, FrameSent
  <1>2. /\ hw'.jobs = Append(hw.jobs, Job) /\ Job \in JobSet /\ hw'.status = hw.status
        /\ hw'.busy = hw.busy
    <2>1. ~EncodePart /\ ~ReportEos /\ ~EndEncodingEos /\ ~EndEncodingBegins /\ ~DestroyChannel
      BY DEF FrameSent, EncodePart, ReportEos, EndEncodingEos,
             EndEncodingBegins, DestroyChannel, Goes, Returns, appVars, EncTypes, ThreadsAgree
    <2>2. EncNext
      BY DEF EncNext, Application, Process
    <2> QED BY <2>1, <2>2, QueueMoves DEF FrameSent, EncTypes, EncVarTypes, HwSet
  <1>3. /\ Job.info = pool.iCurID /\ Job.frame = next /\ Job.overtaken = 0
        /\ (Job.restart <=> chan.restart \/ hw.fresh)
    BY DEF Job
  <1>4. Range(hw'.jobs) = Range(hw.jobs) \cup {Job}
    BY <1>1, <1>2, AppendRange
  <1> QED BY <1>1, <1>2, <1>3, <1>4

LEMMA OpenSent ==
  ASSUME EncTypes, FrameSent
  PROVE  Open' = Open
  <1>1. hw.jobs \in Seq(JobSet) /\ pool.iCurID \in InfoID
    BY JobSent
  <1>2. hw'.jobs = Append(hw.jobs, Job) /\ Job \in JobSet /\ hw'.status = hw.status
    BY JobSent
  <1>3. Job.info = pool.iCurID
    BY JobSent
  <1>4. Range(hw'.jobs) = Range(hw.jobs) \cup {Job}
    BY JobSent
  <1>5. apc = "send" /\ apc' = "idle" /\ cpc' = cpc /\ st' = st /\ pool' = pool
    BY DEF FrameSent, Returns, cbVars
  <1>6. Open' = {id \in InfoID :
                   \/ apc' \in {"hls", "send"} /\ pool'.iCurID = id
                   \/ \E p \in Range(hw'.jobs) : p.info = id
                   \/ \E p \in Range(hw'.status) : p.first /\ p.info = id
                   \/ cpc' = "sections" /\ st'.first /\ st'.info = id}
    BY DEF Open, Range
  <1> QED BY <1>1, <1>2, <1>3, <1>4, <1>5, <1>6, OpenIs

\* The frame whose launch is prepared is the same until it is launched.
LEMMA LaunchStays ==
  ASSUME EncTypes, [EncNext]_encVars, ~UpdateEncoderInfos, ~FrameSent
  PROVE  /\ apc' \in {"hls", "send"} => apc \in {"hls", "send"} /\ pool'.iCurID = pool.iCurID
         /\ apc \in {"hls", "send"} /\ ~FrameRefused => apc' \in {"hls", "send"}
  <1>1. GetFrameInfo => apc = "info" /\ apc' = "source"
    BY DEF GetFrameInfo, Goes
  <1>2. pool'.iCurID = pool.iCurID \/ GetFrameInfo
    BY PoolFrames
  <1>3. apc' \in {"hls", "send"} => apc \in {"hls", "send"}
    BY AppMoves
  <1>4. /\ PutTakesSlot \/ TakeHdrID \/ ProcessEnters \/ DestroyChannel => apc = "idle"
        /\ ReleaseAll => apc = "join"
    BY DEF PutTakesSlot, TakeHdrID, ProcessEnters, DestroyChannel, ReleaseAll, Call
  <1>5. next' = next \/ apc # "send" \/ FrameRefused
    <2>1. PutHandsOver \/ CopyHdr \/ SetParameters \/ ProcessRejects \/ ProcessEos
              => apc # "send"
      BY DEF PutHandsOver, CopyHdr, SetParameters, ProcessRejects, ProcessEos, Call
    <2> QED BY <2>1, ReturningCalls
  <1>6. next \in Nat
    BY DEF EncTypes, ThreadsAgree
  <1> QED BY <1>1, <1>2, <1>3, <1>4, <1>5, <1>6, AppMoves

\* The first parts that wait stay, when no part comes or goes.
LEMMA StatusesStay ==
  ASSUME EncTypes, [EncNext]_encVars, ~EncodePart, ~EndEncodingBegins
  PROVE  \A p : p \in Range(hw'.status) /\ p.first <=> p \in Range(hw.status) /\ p.first
  <1>0. hw.status \in Seq(PartSet \cup {EndOfStreamStatus})
        /\ EndOfStreamStatus.first = FALSE
    BY DEF EncTypes, EncVarTypes, HwSet, EndOfStreamStatus
  <1>1. CASE ReportEos
    <2>1. hw'.status = Append(hw.status, EndOfStreamStatus)
      BY <1>1 DEF ReportEos, EncTypes, EncVarTypes, HwSet
    <2>2. Range(hw'.status) = Range(hw.status) \cup {EndOfStreamStatus}
      BY <1>0, <2>1, AppendRange
    <2> QED BY <1>0, <2>2
  <1>2. CASE EndEncodingEos
    <2>1. /\ hw.status # <<>> /\ Head(hw.status) = EndOfStreamStatus
          /\ hw'.status = Tail(hw.status)
      BY <1>2 DEF EndEncodingEos, EncTypes, EncVarTypes, HwSet
    <2>2. /\ Range(hw'.status) \subseteq Range(hw.status)
          /\ Range(hw.status) \subseteq Range(hw'.status) \cup {EndOfStreamStatus}
      BY <1>0, <2>1, TailRange
    <2> QED BY <1>0, <2>2
  <1>3. CASE ~ReportEos /\ ~EndEncodingEos
    <2>1. hw'.status = hw.status
      BY <1>3, QueueMoves
    <2> QED BY <2>1
  <1> QED BY <1>1, <1>2, <1>3

LEMMA OpenElse ==
  ASSUME EncTypes, [EncNext]_encVars, ~UpdateEncoderInfos, ~WriteSections, ~EncodePart,
         ~EndEncodingBegins, ~FrameSent
  PROVE  Open' \subseteq Open /\ (~FrameRefused /\ ~DestroyChannel => Open' = Open)
  <1>1. hw.status \in Seq(PartSet \cup {EndOfStreamStatus}) /\ hw.jobs \in Seq(JobSet)
        /\ EndOfStreamStatus.first = FALSE
    BY DEF EncTypes, EncVarTypes, HwSet, EndOfStreamStatus
  <1>2. \A p : p \in Range(hw'.status) /\ p.first <=> p \in Range(hw.status) /\ p.first
    BY StatusesStay
  <1>3. Range(hw'.jobs) \subseteq Range(hw.jobs) /\ (~DestroyChannel => hw'.jobs = hw.jobs)
    <2>1. CASE hw'.jobs = hw.jobs
      BY <2>1
    <2>2. CASE DestroyChannel /\ hw'.jobs = <<>>
      BY <2>2 DEF Range
    <2> QED BY <2>1, <2>2, QueueMoves
  <1>4. cpc' = "sections" <=> cpc = "sections"
    BY CallbackMoves
  <1>5. st' = st
    BY Writers
  <1>6. /\ apc' \in {"hls", "send"} => apc \in {"hls", "send"} /\ pool'.iCurID = pool.iCurID
        /\ apc \in {"hls", "send"} /\ ~FrameRefused => apc' \in {"hls", "send"}
    BY LaunchStays
  <1>7. Open' = {id \in InfoID :
                   \/ apc' \in {"hls", "send"} /\ pool'.iCurID = id
                   \/ \E p \in Range(hw'.jobs) : p.info = id
                   \/ \E p \in Range(hw'.status) : p.first /\ p.info = id
                   \/ cpc' = "sections" /\ st'.first /\ st'.info = id}
    BY DEF Open, Range
  <1>8. Open' \subseteq Open
    BY <1>2, <1>3, <1>4, <1>5, <1>6, <1>7, OpenIs
  <1>9. ~FrameRefused /\ ~DestroyChannel => Open \subseteq Open'
    BY <1>2, <1>3, <1>4, <1>5, <1>6, <1>7, OpenIs
  <1> QED BY <1>8, <1>9

---------------------------------------------------------------------------
(* Counts of SPS and PPS *)

\* How many members of S the function f takes to x.
LEMMA TimesMove ==
  ASSUME NEW S, IsFiniteSet(S), NEW T, IsFiniteSet(T), NEW f, NEW g, NEW x
  PROVE  /\ TimesIn(f, S, x) \in Nat
         /\ T \subseteq S /\ (\A id \in T : g[id] = f[id]) => TimesIn(g, T, x) <= TimesIn(f, S, x)
         /\ T = S /\ (\A id \in T : g[id] = f[id]) => TimesIn(g, T, x) = TimesIn(f, S, x)
  <1> DEFINE A == {id \in S : f[id] = x}
             B == {id \in T : g[id] = x}
  <1>1. A \subseteq S /\ B \subseteq T
    OBVIOUS
  <1>0. IsFiniteSet(A) /\ IsFiniteSet(B)
    <2> HIDE DEF A, B
    <2> QED BY <1>1, FS_Subset
  <1>2. /\ IsFiniteSet(A) /\ Cardinality(A) \in Nat /\ Cardinality(B) \in Nat
        /\ \A c : /\ c \notin A => Cardinality(A \cup {c}) = Cardinality(A) + 1
                  /\ c \in A => Cardinality(A \ {c}) = Cardinality(A) - 1
        /\ B \subseteq A => Cardinality(B) <= Cardinality(A)
    <2> HIDE DEF A, B
    <2> QED BY <1>0, FS_CardinalityType, FS_AddElement, FS_RemoveElement, FS_Subset
  <1>3. TimesIn(f, S, x) = Cardinality(A) /\ TimesIn(g, T, x) = Cardinality(B)
    BY DEF TimesIn
  <1>4. ASSUME T \subseteq S, \A id \in T : g[id] = f[id] PROVE B \subseteq A
    BY <1>4
  <1>5. ASSUME T = S, \A id \in T : g[id] = f[id] PROVE B = A
    BY <1>5
  <1> HIDE DEF A, B
  <1> QED BY <1>2, <1>3, <1>4, <1>5

LEMMA TimesTakes ==
  ASSUME NEW S, IsFiniteSet(S), NEW T, IsFiniteSet(T), NEW f, NEW g, NEW x,
         NEW c, c \notin S, T = S \cup {c}, \A id \in S : g[id] = f[id]
  PROVE  TimesIn(g, T, x) = TimesIn(f, S, x) + Same(g[c], x)
  <1> DEFINE A == {id \in S : f[id] = x}
             B == {id \in T : g[id] = x}
  <1>1. A \subseteq S /\ B \subseteq T
    OBVIOUS
  <1>0. IsFiniteSet(A) /\ IsFiniteSet(B)
    <2> HIDE DEF A, B
    <2> QED BY <1>1, FS_Subset
  <1>2. /\ IsFiniteSet(A) /\ Cardinality(A) \in Nat /\ Cardinality(B) \in Nat
        /\ \A d : /\ d \notin A => Cardinality(A \cup {d}) = Cardinality(A) + 1
                  /\ d \in A => Cardinality(A \ {d}) = Cardinality(A) - 1
    <2> HIDE DEF A, B
    <2> QED BY <1>0, FS_CardinalityType, FS_AddElement, FS_RemoveElement
  <1>3. TimesIn(f, S, x) = Cardinality(A) /\ TimesIn(g, T, x) = Cardinality(B)
    BY DEF TimesIn
  <1>4. c \notin A /\ B = IF g[c] = x THEN A \cup {c} ELSE A
    OBVIOUS
  <1> HIDE DEF A, B
  <1>5. CASE g[c] = x
    BY <1>2, <1>3, <1>4, <1>5 DEF Same
  <1>6. CASE g[c] # x
    BY <1>2, <1>3, <1>4, <1>6 DEF Same
  <1> QED BY <1>5, <1>6

LEMMA TimesLeaves ==
  ASSUME NEW S, IsFiniteSet(S), NEW T, IsFiniteSet(T), NEW f, NEW g, NEW x,
         NEW c, c \in S, T = S \ {c}, \A id \in T : g[id] = f[id]
  PROVE  TimesIn(g, T, x) = TimesIn(f, S, x) - Same(f[c], x)
  <1> DEFINE A == {id \in S : f[id] = x}
             B == {id \in T : g[id] = x}
  <1>1. A \subseteq S /\ B \subseteq T
    OBVIOUS
  <1>0. IsFiniteSet(A) /\ IsFiniteSet(B)
    <2> HIDE DEF A, B
    <2> QED BY <1>1, FS_Subset
  <1>2. /\ IsFiniteSet(A) /\ Cardinality(A) \in Nat /\ Cardinality(B) \in Nat
        /\ \A d : /\ d \notin A => Cardinality(A \cup {d}) = Cardinality(A) + 1
                  /\ d \in A => Cardinality(A \ {d}) = Cardinality(A) - 1
    <2> HIDE DEF A, B
    <2> QED BY <1>0, FS_CardinalityType, FS_AddElement, FS_RemoveElement
  <1>3. TimesIn(f, S, x) = Cardinality(A) /\ TimesIn(g, T, x) = Cardinality(B)
    BY DEF TimesIn
  <1>4. B = A \ {c} /\ (c \in A <=> f[c] = x)
    OBVIOUS
  <1> HIDE DEF A, B
  <1>5. CASE f[c] = x
    <2>1. Cardinality(A \ {c}) = Cardinality(A) - 1 /\ Same(f[c], x) = 1
      BY <1>2, <1>4, <1>5 DEF Same
    <2> QED BY <1>3, <1>4, <2>1
  <1>6. CASE f[c] # x
    <2>1. A \ {c} = A /\ Same(f[c], x) = 0
      BY <1>4, <1>6 DEF Same
    <2>2. Cardinality(B) = Cardinality(A)
      BY <1>4, <2>1
    <2> QED BY <1>2, <1>3, <2>1, <2>2
  <1> QED BY <1>5, <1>6

\* The SPS and the PPS of the frame-info ids.
SpsIds == [id \in InfoID |-> pool.info[id].uSpsId]
PpsIds == [id \in InfoID |-> pool.info[id].uPpsId]

LEMMA OpenCounts ==
  ASSUME NEW x
  PROVE  /\ Cardinality(OpenSps(x)) = TimesIn(SpsIds, Open, x)
         /\ Cardinality(OpenPps(x)) = TimesIn(PpsIds, Open, x)
         /\ Cardinality(OpenSps(x)') = TimesIn(SpsIds', Open', x)
         /\ Cardinality(OpenPps(x)') = TimesIn(PpsIds', Open', x)
         /\ Open \in SUBSET InfoID /\ Open' \in SUBSET InfoID
  <1>1. Open \in SUBSET InfoID /\ Open' \in SUBSET InfoID
    BY DEF Open
  <1>2. /\ OpenSps(x) = {id \in Open : SpsIds[id] = x}
        /\ OpenPps(x) = {id \in Open : PpsIds[id] = x}
        /\ OpenSps(x)' = {id \in Open' : SpsIds'[id] = x}
        /\ OpenPps(x)' = {id \in Open' : PpsIds'[id] = x}
    BY <1>1 DEF OpenSps, OpenPps, SpsIds, PpsIds
  <1> QED BY <1>1, <1>2 DEF TimesIn

\* UpdateEncoderInfos sets the SPS and the PPS of a frame, no other step does.
LEMMA IdsMove ==
  ASSUME EncTypes, [EncNext]_encVars, NEW id \in InfoID
  PROVE  /\ UpdateEncoderInfos /\ id = pool.iCurID =>
                SpsIds'[id] = heads'.iPrevSps /\ PpsIds'[id] = heads'.iPrevPps
         /\ ~UpdateEncoderInfos \/ id # pool.iCurID =>
                SpsIds'[id] = SpsIds[id] /\ PpsIds'[id] = PpsIds[id]
  <1>1. /\ pool \in PoolSet /\ pool.info \in [InfoID -> InfoSet]
        /\ SpsIds[id] = pool.info[id].uSpsId /\ PpsIds[id] = pool.info[id].uPpsId
        /\ SpsIds'[id] = pool'.info[id].uSpsId /\ PpsIds'[id] = pool'.info[id].uPpsId
    BY DEF EncTypes, EncVarTypes, PoolSet, SpsIds, PpsIds
  <1>2. CASE GetFrameInfo
    <2>1. ~UpdateEncoderInfos
      BY <1>2 DEF GetFrameInfo, UpdateEncoderInfos
    <2> DEFINE x == Head(pool.free)
               c == [pool.info[x] EXCEPT !.frame = next, !.qp = Now.qp]
    <2>2. x \in InfoID
      BY <1>2, FrameInfoTaken
    <2>3. pool' = [pool EXCEPT !.iCurID = x, !.free = Tail(pool.free),
                               !.info[x].frame = next, !.info[x].qp = Now.qp]
      BY <1>1, <1>2 DEF GetFrameInfo, PoolSet
    <2> HIDE DEF x
    <2>4. pool' = [pool EXCEPT !.iCurID = x, !.free = Tail(pool.free),
                               !.info = [pool.info EXCEPT ![x] = c]]
      BY <1>1, <2>2, <2>3 DEF PoolSet, InfoSet
    <2>5. c.uSpsId = pool.info[x].uSpsId /\ c.uPpsId = pool.info[x].uPpsId
      BY <1>1, <2>2 DEF InfoSet
    <2> HIDE DEF c
    <2>6. pool'.info = [pool.info EXCEPT ![x] = c]
      BY <1>1, <2>4 DEF PoolSet
    <2>7. pool'.info[id] = IF id = x THEN c ELSE pool.info[id]
      BY <1>1, <2>6
    <2> QED BY <1>1, <2>1, <2>5, <2>7
  <1>3. CASE SetHLSInfos
    <2>1. PICK h, a : pool' = [pool EXCEPT !.info[pool.iCurID].iHDRID = h,
                                         !.info[pool.iCurID].bHDRChanged = a]
      BY <1>3 DEF SetHLSInfos
    <2>2. pool.iCurID \in InfoID /\ ~UpdateEncoderInfos
      BY <1>3 DEF SetHLSInfos, UpdateEncoderInfos, EncTypes, ThreadsAgree
    <2> DEFINE c == [pool.info[pool.iCurID] EXCEPT !.iHDRID = h, !.bHDRChanged = a]
    <2>3. pool' = [pool EXCEPT !.info = [pool.info EXCEPT ![pool.iCurID] = c]]
      BY <1>1, <2>1, <2>2 DEF PoolSet, InfoSet
    <2>4. /\ c.uSpsId = pool.info[pool.iCurID].uSpsId
          /\ c.uPpsId = pool.info[pool.iCurID].uPpsId
      BY <1>1, <2>2 DEF InfoSet
    <2> HIDE DEF c
    <2>5. pool'.info = [pool.info EXCEPT ![pool.iCurID] = c]
      BY <1>1, <2>3 DEF PoolSet
    <2>6. pool'.info[id] = IF id = pool.iCurID THEN c ELSE pool.info[id]
      BY <1>1, <2>5
    <2> QED BY <1>1, <2>2, <2>4, <2>6
  <1>4. CASE UpdateEncoderInfos
    <2>1. /\ pool' = [pool EXCEPT !.info[pool.iCurID].uSpsId = heads'.iPrevSps,
                                  !.info[pool.iCurID].uPpsId = heads'.iPrevPps,
                                  !.info[pool.iCurID].offset = chan.offset]
      BY <1>4 DEF UpdateEncoderInfos
    <2>2. pool.iCurID \in InfoID
      BY <1>4 DEF UpdateEncoderInfos, EncTypes, ThreadsAgree
    <2> DEFINE c == [pool.info[pool.iCurID] EXCEPT !.uSpsId = heads'.iPrevSps,
                         !.uPpsId = heads'.iPrevPps, !.offset = chan.offset]
    <2>3. pool' = [pool EXCEPT !.info = [pool.info EXCEPT ![pool.iCurID] = c]]
      BY <1>1, <2>1, <2>2 DEF PoolSet, InfoSet
    <2>4. c.uSpsId = heads'.iPrevSps /\ c.uPpsId = heads'.iPrevPps
      BY <1>1, <2>2 DEF InfoSet
    <2> HIDE DEF c
    <2>5. pool'.info = [pool.info EXCEPT ![pool.iCurID] = c]
      BY <1>1, <2>3 DEF PoolSet
    <2>6. pool'.info[id] = IF id = pool.iCurID THEN c ELSE pool.info[id]
      BY <1>1, <2>5
    <2> QED BY <1>1, <1>4, <2>4, <2>6
  <1>5. CASE ~GetFrameInfo /\ ~SetHLSInfos /\ ~UpdateEncoderInfos
    <2>1. pool'.info = pool.info
      BY <1>5, Writers, FrameInfoGiven
    <2> QED BY <1>1, <1>5, <2>1
  <1> QED BY <1>2, <1>3, <1>4, <1>5

\* A frame gets a reference on the SPS and on the PPS it is given, which no
\* frame referred to if they were another one's.
LEMMA SpsCount ==
  ASSUME NEW h \in HeadsSet, NEW d \in Nat, SpsFree(h, d), NEW x \in SpsID
  PROVE  /\ GetSps(h, d).sps[x].iRefCnt = h.sps[x].iRefCnt + Same(GetSps(h, d).iPrevSps, x)
         /\ GetSps(h, d).pps = h.pps /\ GetSps(h, d).iPrevPps = h.iPrevPps
         /\ h.sps[x].iRefCnt \in Int
  <1> DEFINE k == h.iPrevSps
             n == NextSps(h)
             c == [h.sps[k] EXCEPT !.iRefCnt = @ + 1]
             e == [dim |-> d, iRefCnt |-> 1, bHasBeenSent |-> FALSE]
  <1>1. k \in SpsID /\ n \in SpsID /\ h.sps \in [SpsID -> SpsSet] /\ h.sps[x].iRefCnt \in Int
    BY Ranges DEF HeadsSet, NextSps, SpsSet
  <1>2. c.iRefCnt = h.sps[k].iRefCnt + 1 /\ e.iRefCnt = 1
    BY <1>1 DEF SpsSet
  <1>3. CASE SameSps(h, d)
    <2>1. GetSps(h, d) = [h EXCEPT !.sps = [h.sps EXCEPT ![k] = c]]
      BY <1>1, <1>3 DEF GetSps, HeadsSet
    <2> HIDE DEF c
    <2>2. /\ GetSps(h, d).sps = [h.sps EXCEPT ![k] = c] /\ GetSps(h, d).iPrevSps = k
          /\ GetSps(h, d).pps = h.pps /\ GetSps(h, d).iPrevPps = h.iPrevPps
      BY <1>1, <2>1 DEF HeadsSet
    <2> HIDE DEF k
    <2> QED BY <1>1, <1>2, <2>2 DEF Same
  <1>4. CASE ~SameSps(h, d)
    <2>1. GetSps(h, d) = [h EXCEPT !.iPrevSps = n, !.sps = [h.sps EXCEPT ![n] = e]]
      BY <1>1, <1>4 DEF GetSps, HeadsSet
    <2>2. h.sps[n].iRefCnt = 0
      BY <1>4 DEF SpsFree
    <2> HIDE DEF e, n
    <2>3. /\ GetSps(h, d).sps = [h.sps EXCEPT ![n] = e] /\ GetSps(h, d).iPrevSps = n
          /\ GetSps(h, d).pps = h.pps /\ GetSps(h, d).iPrevPps = h.iPrevPps
      BY <1>1, <2>1 DEF HeadsSet
    <2> QED BY <1>1, <1>2, <2>2, <2>3 DEF Same
  <1> QED BY <1>1, <1>3, <1>4

LEMMA PpsCount ==
  ASSUME NEW h \in HeadsSet, NEW s, NEW o, PpsFree(h, s, o), NEW x \in PpsID
  PROVE  /\ GetPps(h, s, o).pps[x].iRefCnt = h.pps[x].iRefCnt + Same(GetPps(h, s, o).iPrevPps, x)
         /\ GetPps(h, s, o).sps = h.sps /\ GetPps(h, s, o).iPrevSps = h.iPrevSps
         /\ h.pps[x].iRefCnt \in Int
  <1> DEFINE k == h.iPrevPps
             n == NextPps(h)
             c == [h.pps[k] EXCEPT !.iRefCnt = @ + 1]
             e == [uSpsId |-> s, offset |-> o, iRefCnt |-> 1, bHasBeenSent |-> FALSE]
  <1>1. k \in PpsID /\ n \in PpsID /\ h.pps \in [PpsID -> PpsSet] /\ h.pps[x].iRefCnt \in Int
    BY Ranges DEF HeadsSet, NextPps, PpsSet
  <1>2. c.iRefCnt = h.pps[k].iRefCnt + 1 /\ e.iRefCnt = 1
    BY <1>1 DEF PpsSet
  <1>3. CASE SamePps(h, s, o)
    <2>1. GetPps(h, s, o) = [h EXCEPT !.pps = [h.pps EXCEPT ![k] = c]]
      BY <1>1, <1>3 DEF GetPps, HeadsSet
    <2> HIDE DEF c
    <2>2. /\ GetPps(h, s, o).pps = [h.pps EXCEPT ![k] = c] /\ GetPps(h, s, o).iPrevPps = k
          /\ GetPps(h, s, o).sps = h.sps /\ GetPps(h, s, o).iPrevSps = h.iPrevSps
      BY <1>1, <2>1 DEF HeadsSet
    <2> HIDE DEF k
    <2> QED BY <1>1, <1>2, <2>2 DEF Same
  <1>4. CASE ~SamePps(h, s, o)
    <2>1. GetPps(h, s, o) = [h EXCEPT !.iPrevPps = n, !.pps = [h.pps EXCEPT ![n] = e]]
      BY <1>1, <1>4 DEF GetPps, HeadsSet
    <2>2. h.pps[n].iRefCnt = 0
      BY <1>4 DEF PpsFree
    <2> HIDE DEF e, n
    <2>3. /\ GetPps(h, s, o).pps = [h.pps EXCEPT ![n] = e] /\ GetPps(h, s, o).iPrevPps = n
          /\ GetPps(h, s, o).sps = h.sps /\ GetPps(h, s, o).iPrevSps = h.iPrevSps
      BY <1>1, <2>1 DEF HeadsSet
    <2> QED BY <1>1, <1>2, <2>2, <2>3 DEF Same
  <1> QED BY <1>1, <1>3, <1>4

\* What a step does to the counts of SPS and of PPS.
LEMMA RefCntMoves ==
  ASSUME EncTypes, [EncNext]_encVars
  PROVE  /\ \A x \in SpsID :
              /\ heads.sps[x].iRefCnt \in Int
              /\ UpdateEncoderInfos =>
                    heads'.sps[x].iRefCnt = heads.sps[x].iRefCnt + Same(heads'.iPrevSps, x)
              /\ WriteSections /\ st.first =>
                    heads'.sps[x].iRefCnt = heads.sps[x].iRefCnt - Same(SpsIds[st.info], x)
         /\ \A x \in PpsID :
              /\ heads.pps[x].iRefCnt \in Int
              /\ UpdateEncoderInfos =>
                    heads'.pps[x].iRefCnt = heads.pps[x].iRefCnt + Same(heads'.iPrevPps, x)
              /\ WriteSections /\ st.first =>
                    heads'.pps[x].iRefCnt = heads.pps[x].iRefCnt - Same(PpsIds[st.info], x)
         /\ ~UpdateEncoderInfos /\ ~(WriteSections /\ st.first) => heads' = heads
  <1>1. /\ heads \in HeadsSet /\ chan \in ChanSet /\ pool \in PoolSet
        /\ heads.sps \in [SpsID -> SpsSet] /\ heads.pps \in [PpsID -> PpsSet]
        /\ \A x \in SpsID : heads.sps[x].iRefCnt \in Int
        /\ \A x \in PpsID : heads.pps[x].iRefCnt \in Int
    BY DEF EncTypes, EncVarTypes, HeadsSet, SpsSet, PpsSet
  <1>2. ASSUME UpdateEncoderInfos
        PROVE  /\ \A x \in SpsID :
                   heads'.sps[x].iRefCnt = heads.sps[x].iRefCnt + Same(heads'.iPrevSps, x)
               /\ \A x \in PpsID :
                   heads'.pps[x].iRefCnt = heads.pps[x].iRefCnt + Same(heads'.iPrevPps, x)
    <2> DEFINE h == GetSps(heads, chan.dim)
               s == h.iPrevSps
    <2>1. chan.dim \in Nat /\ chan.offset \in Nat
      BY <1>1 DEF ChanSet
    <2>2. h \in HeadsSet /\ SpsFree(heads, chan.dim) /\ PpsFree(h, s, chan.offset)
          /\ heads' = GetPps(h, s, chan.offset)
      BY <1>1, <1>2, <2>1, SpsTypes DEF UpdateEncoderInfos
    <2>3. /\ \A x \in SpsID : h.sps[x].iRefCnt = heads.sps[x].iRefCnt + Same(h.iPrevSps, x)
          /\ h.pps = heads.pps
      <3>1. h.pps = heads.pps
        BY <1>1, <2>1, <2>2, Ranges, SpsCount
      <3> QED BY <1>1, <2>1, <2>2, <3>1, SpsCount
    <2> HIDE DEF h, s
    <2>4. /\ \A x \in PpsID : heads'.pps[x].iRefCnt = h.pps[x].iRefCnt + Same(heads'.iPrevPps, x)
          /\ heads'.sps = h.sps /\ heads'.iPrevSps = h.iPrevSps
      BY <2>2, Ranges, PpsCount
    <2> QED BY <2>3, <2>4
  <1>3. ASSUME WriteSections, st.first
        PROVE  /\ \A x \in SpsID :
                   heads'.sps[x].iRefCnt = heads.sps[x].iRefCnt - Same(SpsIds[st.info], x)
               /\ \A x \in PpsID :
                   heads'.pps[x].iRefCnt = heads.pps[x].iRefCnt - Same(PpsIds[st.info], x)
    <2> DEFINE a == pool.info[st.info].uSpsId
               b == pool.info[st.info].uPpsId
               l == SpsOf(heads, pool.info[st.info])
               ra == Released(heads.sps[a])
               rb == Released(heads.pps[b])
    <2>1. st.info \in InfoID
      BY <1>3 DEF WriteSections, EncTypes, ThreadsAgree, Busy
    <2>2. a \in SpsID /\ b \in PpsID /\ SpsIds[st.info] = a /\ PpsIds[st.info] = b
      BY <1>1, <2>1 DEF PoolSet, InfoSet, SpsIds, PpsIds
    <2>3. ra.iRefCnt = heads.sps[a].iRefCnt - 1 /\ rb.iRefCnt = heads.pps[b].iRefCnt - 1
      BY <1>1, <2>2 DEF Released, SpsSet, PpsSet
    <2>4. heads' = [heads EXCEPT !.layerSps = l, !.sps[a] = Released(@), !.pps[b] = Released(@)]
      BY <1>3 DEF WriteSections
    <2> HIDE DEF a, b, l
    <2>5. heads' = [heads EXCEPT !.layerSps = l, !.sps = [heads.sps EXCEPT ![a] = ra],
                                 !.pps = [heads.pps EXCEPT ![b] = rb]]
      BY <1>1, <2>2, <2>4 DEF HeadsSet
    <2> HIDE DEF ra, rb
    <2>6. /\ heads'.sps = [heads.sps EXCEPT ![a] = ra]
          /\ heads'.pps = [heads.pps EXCEPT ![b] = rb]
      BY <1>1, <2>5 DEF HeadsSet
    <2>7. \A x \in SpsID : heads'.sps[x].iRefCnt = heads.sps[x].iRefCnt - Same(a, x)
      BY <1>1, <2>3, <2>6 DEF Same
    <2>8. \A x \in PpsID : heads'.pps[x].iRefCnt = heads.pps[x].iRefCnt - Same(b, x)
      BY <1>1, <2>3, <2>6 DEF Same
    <2> QED BY <2>2, <2>7, <2>8
  <1>4. ASSUME ~UpdateEncoderInfos, ~(WriteSections /\ st.first) PROVE heads' = heads
    <2>1. WriteSections \/ heads' = heads
      BY <1>4, Writers
    <2>2. WriteSections /\ ~st.first => heads' = heads
      BY DEF WriteSections
    <2> QED BY <1>4, <2>1, <2>2
  <1> QED BY <1>1, <1>2, <1>3, <1>4

\* What a step does to the frames whose SPS and PPS are in use.
LEMMA OpenMoves ==
  ASSUME EncTypes, EncFrames, EncHeads, [EncNext]_encVars
  PROVE  /\ UpdateEncoderInfos => /\ pool.iCurID \in InfoID \ Open
                                  /\ Open' = Open \cup {pool.iCurID}
         /\ WriteSections /\ st.first => st.info \in Open /\ Open' = Open \ {st.info}
         /\ ~UpdateEncoderInfos /\ ~(WriteSections /\ st.first) =>
                /\ Open' \subseteq Open
                /\ Faultless /\ hw'.alive => Open' = Open
  <1>1. FramesAgree
    BY DEF EncFrames
  <1>2. ASSUME ~UpdateEncoderInfos, ~(WriteSections /\ st.first)
        PROVE  Open' \subseteq Open /\ (Faultless /\ hw'.alive => Open' = Open)
    <2>1. CASE WriteSections
      BY <1>1, <1>2, <2>1, OpenReleased
    <2>2. CASE EncodePart \/ FrameSent
      BY <2>2, OpenEncoded, OpenSent
    <2>3. CASE EndEncodingBegins
      <3>1. Faultless => ~hw.status[1].error
        BY <2>3, StatusTaken DEF EncHeads, Faultless
      <3> QED BY <2>3, <3>1, OpenBegun
    <2>4. CASE /\ ~WriteSections /\ ~EncodePart /\ ~EndEncodingBegins /\ ~FrameSent
      <3>1. Faultless => ~FrameRefused
        BY DEF Faultless, FrameRefused
      <3>2. hw'.alive => ~DestroyChannel
        BY DriverMoves
      <3> QED BY <1>2, <2>4, <3>1, <3>2, OpenElse
    <2> QED BY <2>1, <2>2, <2>3, <2>4
  <1>3. UpdateEncoderInfos => pool.iCurID \in InfoID \ Open /\ Open' = Open \cup {pool.iCurID}
    BY <1>1, OpenTaken
  <1>4. WriteSections /\ st.first => st.info \in Open /\ Open' = Open \ {st.info}
    BY <1>1, OpenReleased
  <1> QED BY <1>2, <1>3, <1>4

LEMMA SameIs == \A x, y : Same(x, y) \in {0, 1}
  BY DEF Same

\* The counts of SPS and PPS and the frames that use them change together.
LEMMA HeadCountsStep ==
  ASSUME EncTypes, EncFrames, EncHeads, [EncNext]_encVars
  PROVE  /\ \A x \in SpsID :
              /\ heads'.sps[x].iRefCnt >= TimesIn(SpsIds', Open', x)
              /\ Faultless /\ hw'.alive => heads'.sps[x].iRefCnt = TimesIn(SpsIds', Open', x)
         /\ \A x \in PpsID :
              /\ heads'.pps[x].iRefCnt >= TimesIn(PpsIds', Open', x)
              /\ Faultless /\ hw'.alive => heads'.pps[x].iRefCnt = TimesIn(PpsIds', Open', x)
  <1> DEFINE exact == Faultless /\ hw'.alive
  <1>1. exact => Faultless /\ hw.alive
    BY DriverMoves DEF DestroyChannel
  <1>2. Open \in SUBSET InfoID /\ Open' \in SUBSET InfoID
    BY DEF Open
  <1>3. /\ \A x \in SpsID : /\ heads.sps[x].iRefCnt >= TimesIn(SpsIds, Open, x)
                            /\ exact => heads.sps[x].iRefCnt = TimesIn(SpsIds, Open, x)
        /\ \A x \in PpsID : /\ heads.pps[x].iRefCnt >= TimesIn(PpsIds, Open, x)
                            /\ exact => heads.pps[x].iRefCnt = TimesIn(PpsIds, Open, x)
    BY <1>1, OpenCounts DEF EncHeads
  <1> HIDE DEF exact
  <1> DEFINE S == Open
             T == Open'
             f == SpsIds
             g == SpsIds'
             h == PpsIds
             k == PpsIds'
             cur == pool.iCurID
  <1>7. IsFiniteSet(S) /\ IsFiniteSet(T)
    BY <1>2, FiniteSlots
  <1>8. /\ \A x \in SpsID : /\ heads.sps[x].iRefCnt >= TimesIn(f, S, x)
                            /\ exact => heads.sps[x].iRefCnt = TimesIn(f, S, x)
        /\ \A x \in PpsID : /\ heads.pps[x].iRefCnt >= TimesIn(h, S, x)
                            /\ exact => heads.pps[x].iRefCnt = TimesIn(h, S, x)
    BY <1>3
  <1>4. CASE UpdateEncoderInfos
    <2>1. cur \in InfoID /\ cur \notin S /\ T = S \cup {cur}
      BY <1>4, OpenMoves
    <2>2. /\ \A id \in S : g[id] = f[id] /\ k[id] = h[id]
          /\ g[cur] = heads'.iPrevSps /\ k[cur] = heads'.iPrevPps
      BY <1>2, <1>4, <2>1, IdsMove
    <2>3. /\ \A x \in SpsID : /\ heads.sps[x].iRefCnt \in Int
                              /\ heads'.sps[x].iRefCnt = heads.sps[x].iRefCnt + Same(g[cur], x)
          /\ \A x \in PpsID : /\ heads.pps[x].iRefCnt \in Int
                              /\ heads'.pps[x].iRefCnt = heads.pps[x].iRefCnt + Same(k[cur], x)
      BY <1>4, <2>2, RefCntMoves
    <2> HIDE DEF S, T, f, g, h, k, cur
    <2>4. \A x : /\ TimesIn(f, S, x) \in Nat /\ TimesIn(g, T, x) \in Nat
                 /\ TimesIn(h, S, x) \in Nat /\ TimesIn(k, T, x) \in Nat
      BY <1>7, TimesMove
    <2>5. \A x : TimesIn(g, T, x) = TimesIn(f, S, x) + Same(g[cur], x)
      BY <1>7, <2>1, <2>2, TimesTakes
    <2>6. \A x : TimesIn(k, T, x) = TimesIn(h, S, x) + Same(k[cur], x)
      BY <1>7, <2>1, <2>2, TimesTakes
    <2>7. ASSUME NEW x \in SpsID
          PROVE  /\ heads'.sps[x].iRefCnt >= TimesIn(g, T, x)
                 /\ exact => heads'.sps[x].iRefCnt = TimesIn(g, T, x)
      BY <1>8, <2>3, <2>4, <2>5, SameIs
    <2>8. ASSUME NEW x \in PpsID
          PROVE  /\ heads'.pps[x].iRefCnt >= TimesIn(k, T, x)
                 /\ exact => heads'.pps[x].iRefCnt = TimesIn(k, T, x)
      BY <1>8, <2>3, <2>4, <2>6, SameIs
    <2> QED BY <2>7, <2>8 DEF T, g, k, exact
  <1>5. CASE WriteSections /\ st.first
    <2> DEFINE old == st.info
    <2>1. old \in S /\ T = S \ {old}
      BY <1>5, OpenMoves
    <2>2. ~UpdateEncoderInfos
      BY <1>5 DEF UpdateEncoderInfos, WriteSections, appVars, Goes
    <2>3. (\A id \in T : g[id] = f[id]) /\ (\A id \in T : k[id] = h[id])
      BY <1>2, <2>2, IdsMove
    <2>4. /\ \A x \in SpsID : /\ heads.sps[x].iRefCnt \in Int
                              /\ heads'.sps[x].iRefCnt = heads.sps[x].iRefCnt - Same(f[old], x)
          /\ \A x \in PpsID : /\ heads.pps[x].iRefCnt \in Int
                              /\ heads'.pps[x].iRefCnt = heads.pps[x].iRefCnt - Same(h[old], x)
      BY <1>5, RefCntMoves
    <2> HIDE DEF S, T, f, g, h, k, cur, old
    <2>5. \A x : /\ TimesIn(f, S, x) \in Nat /\ TimesIn(g, T, x) \in Nat
                 /\ TimesIn(h, S, x) \in Nat /\ TimesIn(k, T, x) \in Nat
      BY <1>7, TimesMove
    <2>6. ASSUME NEW x PROVE TimesIn(g, T, x) = TimesIn(f, S, x) - Same(f[old], x)
      BY <1>7, <2>1, <2>3, TimesLeaves
    <2>7. ASSUME NEW x PROVE TimesIn(k, T, x) = TimesIn(h, S, x) - Same(h[old], x)
      BY <1>7, <2>1, <2>3, TimesLeaves
    <2>8. ASSUME NEW x \in SpsID
          PROVE  /\ heads'.sps[x].iRefCnt >= TimesIn(g, T, x)
                 /\ exact => heads'.sps[x].iRefCnt = TimesIn(g, T, x)
      BY <1>8, <2>4, <2>5, <2>6, SameIs
    <2>9. ASSUME NEW x \in PpsID
          PROVE  /\ heads'.pps[x].iRefCnt >= TimesIn(k, T, x)
                 /\ exact => heads'.pps[x].iRefCnt = TimesIn(k, T, x)
      BY <1>8, <2>4, <2>5, <2>7, SameIs
    <2> QED BY <2>8, <2>9 DEF T, g, k, exact
  <1>6. CASE ~UpdateEncoderInfos /\ ~(WriteSections /\ st.first)
    <2>1. T \subseteq S /\ (exact => T = S)
      BY <1>6, OpenMoves DEF exact
    <2>2. \A id \in T : g[id] = f[id] /\ k[id] = h[id]
      BY <1>2, <1>6, IdsMove
    <2>3. /\ heads' = heads
          /\ \A x \in SpsID : heads.sps[x].iRefCnt \in Int
          /\ \A x \in PpsID : heads.pps[x].iRefCnt \in Int
      BY <1>6, RefCntMoves
    <2> HIDE DEF S, T, f, g, h, k, cur
    <2>4. \A x : /\ TimesIn(f, S, x) \in Nat /\ TimesIn(g, T, x) \in Nat
                 /\ TimesIn(h, S, x) \in Nat /\ TimesIn(k, T, x) \in Nat
      BY <1>7, TimesMove
    <2>5. \A x : /\ TimesIn(g, T, x) <= TimesIn(f, S, x)
                 /\ exact => TimesIn(g, T, x) = TimesIn(f, S, x)
      BY <1>7, <2>1, <2>2, TimesMove
    <2>6. \A x : /\ TimesIn(k, T, x) <= TimesIn(h, S, x)
                 /\ exact => TimesIn(k, T, x) = TimesIn(h, S, x)
      BY <1>7, <2>1, <2>2, TimesMove
    <2>7. ASSUME NEW x \in SpsID
          PROVE  /\ heads'.sps[x].iRefCnt >= TimesIn(g, T, x)
                 /\ exact => heads'.sps[x].iRefCnt = TimesIn(g, T, x)
      BY <1>8, <2>3, <2>4, <2>5, SameIs
    <2>8. ASSUME NEW x \in PpsID
          PROVE  /\ heads'.pps[x].iRefCnt >= TimesIn(k, T, x)
                 /\ exact => heads'.pps[x].iRefCnt = TimesIn(k, T, x)
      BY <1>8, <2>3, <2>4, <2>6, SameIs
    <2> QED BY <2>7, <2>8 DEF T, g, k, exact
  <1> QED BY <1>4, <1>5, <1>6

\* A status with an error is there only if parts may fail.
LEMMA ErrorsStep ==
  ASSUME EncTypes, EncHeads, [EncNext]_encVars
  PROVE  \A i \in DOMAIN hw'.status : hw'.status[i].error => Errors
  <1>1. /\ hw.status \in Seq(PartSet \cup {EndOfStreamStatus})
        /\ \A i \in DOMAIN hw.status : hw.status[i].error => Errors
    BY DEF EncTypes, EncVarTypes, HwSet, EncHeads
  <1>2. CASE EncodePart
    <2>1. PICK job \in JobSet, first \in BOOLEAN, e \in BOOLEAN :
              /\ hw'.status = Append(hw.status, Status(job, first, e))
              /\ Status(job, first, e) \in PartSet /\ (e = FALSE \/ e = Errors)
      BY <1>2, PartEncoded
    <2>2. Status(job, first, e).error => Errors
      <3>1. Status(job, first, e).error = e
        BY DEF Status
      <3>2. e = FALSE \/ (e => Errors)
        BY <2>1, Zenon
      <3> QED BY <3>1, <3>2, Zenon
    <2> HIDE DEF Status
    <2> QED BY <1>1, <2>1, <2>2, AppendPlaces
  <1>3. CASE ReportEos
    <2>1. hw'.status = Append(hw.status, EndOfStreamStatus)
      BY <1>3 DEF ReportEos, EncTypes, EncVarTypes, HwSet
    <2>2. EndOfStreamStatus.error = FALSE
      BY DEF EndOfStreamStatus
    <2> QED BY <1>1, <2>1, <2>2, AppendPlaces
  <1>4. CASE hw.status # <<>> /\ hw'.status = Tail(hw.status)
    BY <1>1, <1>4, TailPlaces
  <1>5. CASE hw'.status = hw.status
    BY <1>1, <1>5
  <1> QED BY <1>2, <1>3, <1>4, <1>5, QueueMoves

LEMMA EncHeadsStep ==
  ASSUME EncTypes, EncFrames, EncHeads, [EncNext]_encVars
  PROVE  EncHeads'
  <1>1. program' = program
    BY Writers
  <1> QED BY <1>1, HeadCountsStep, ErrorsStep, OpenCounts
          DEF EncHeads, Faultless, Errors, Refusals

LEMMA EncHeadsInit == EncInit => EncHeads
  <1> SUFFICES ASSUME EncInit PROVE EncHeads
    OBVIOUS
  <1>1. Open = {}
    BY DEF EncInit, Open
  <1>2. \A x : OpenSps(x) = {} /\ OpenPps(x) = {}
    BY <1>1 DEF OpenSps, OpenPps
  <1>3. Cardinality({}) = 0
    BY FS_EmptySet
  <1>4. /\ \A x \in SpsID : heads.sps[x].iRefCnt = 0
        /\ \A x \in PpsID : heads.pps[x].iRefCnt = 0
        /\ hw.status = <<>>
    BY DEF EncInit
  <1>5. \A i \in DOMAIN hw.status : hw.status[i].error => Errors
    BY <1>4
  <1>6. /\ \A x : Cardinality(OpenSps(x)) = 0
        /\ \A x : Cardinality(OpenPps(x)) = 0
    BY <1>2, <1>3
  <1> QED BY <1>4, <1>5, <1>6 DEF EncHeads

\* The count of an SPS or of a PPS is the number of the frames that were
\* given it and whose first part has not had its headers written, where
\* nothing fails, and never less: AL_ReleaseSps and AL_ReleasePps find it
\* above zero, and a new SPS or PPS takes no place that a frame still needs.
THEOREM EncHeadsAlways == EncSpec => [](EncTypes /\ EncFrames /\ EncHeads)
  <1>1. EncInit => EncTypes /\ EncFrames /\ EncHeads
    BY EncTypesInit, EncFramesInit, EncHeadsInit
  <1>2. EncTypes /\ EncFrames /\ EncHeads /\ [EncNext]_encVars
            => (EncTypes /\ EncFrames /\ EncHeads)'
    BY EncTypesStep, EncFramesStep, EncHeadsStep
  <1> QED BY <1>1, <1>2, PTL DEF EncSpec

---------------------------------------------------------------------------
(* The order of the frames whose SPS and PPS are in use *)

\* A frame whose SPS and PPS are in use has a slot, and only the one being
\* pushed is as late as the current call.
LEMMA OpenFrames ==
  ASSUME EncTypes, FramesAgree, apc # "destroyed", NEW y \in Open
  PROVE  /\ y \in InfoID \ Free /\ FrameNo(y) \in Nat
         /\ InSource /\ y = pool.iCurID => FrameNo(y) = next
         /\ ~(InSource /\ y = pool.iCurID) => FrameNo(y) < next
         /\ \E s \in Sent : InfoOf(s) = y
  <1>1. y \in InfoID /\ next \in Nat
    BY DEF Open, EncTypes, ThreadsAgree
  <1>2. ASSUME NEW p, HasSlot(p), p.info = y
        PROVE  /\ y \notin Free /\ FrameNo(y) \in Nat /\ FrameNo(y) < next
               /\ ~(InSource /\ y = pool.iCurID) /\ \E s \in Sent : InfoOf(s) = y
    <2>1. PICK s \in Sent : SourceSent[s] = <<p.frame, p.info>> /\ p.frame < next
      BY <1>2 DEF HasSlot, HeldBy
    <2>2. FrameOf(s) = p.frame /\ InfoOf(s) = y
      BY <1>2, <2>1 DEF FrameOf, InfoOf
    <2>3. y \notin Free /\ FrameNo(y) = p.frame
      BY <2>2 DEF FramesAgree, SlotsAgree, FrameNo
    <2>4. p.frame \in Nat
      BY <2>2, SlotTypes
    <2> QED BY <1>2, <2>1, <2>2, <2>3, <2>4, SlotsOfParts
  <1>3. CASE apc \in {"hls", "send"} /\ pool.iCurID = y
    <2>1. PICK s \in Sent : SourceSent[s] = <<next, y>>
      BY <1>3 DEF FramesAgree, CurrentAgrees, InSource
    <2>2. FrameOf(s) = next /\ InfoOf(s) = y
      BY <2>1 DEF FrameOf, InfoOf
    <2>3. y \notin Free /\ FrameNo(y) = next
      BY <2>2 DEF FramesAgree, SlotsAgree, FrameNo
    <2> QED BY <1>1, <1>3, <2>2, <2>3 DEF InSource
  <1>4. CASE \E p \in Range(hw.jobs) : p.info = y
    BY <1>1, <1>2, <1>4, QueuedParts
  <1>5. CASE \E p \in Range(hw.status) : p.first /\ p.info = y
    BY <1>1, <1>2, <1>5, QueuedParts
  <1>6. CASE cpc = "sections" /\ st.first /\ st.info = y
    BY <1>1, <1>2, <1>6, QueuedParts DEF Active
  <1> QED BY <1>3, <1>4, <1>5, <1>6, OpenIs

\* Such a frame keeps its frame-info id.
LEMMA OpenFrameKept ==
  ASSUME EncTypes, FramesAgree, [EncNext]_encVars, apc # "destroyed", NEW y \in Open
  PROVE  FrameNo(y)' = FrameNo(y)
  <1>1. y \in InfoID \ Free
    BY OpenFrames
  <1>2. CASE GetFrameInfo
    <2>1. Head(pool.free) \in Free
      BY <1>2, FrameInfoTaken, TailRange DEF Free, Range
    <2> QED BY <1>1, <1>2, <2>1, FrameInfoTaken DEF FrameNo
  <1>3. CASE ~GetFrameInfo
    BY <1>1, <1>3, PoolFrames DEF FrameNo
  <1> QED BY <1>2, <1>3

\* A job is the only part of its frame, which is not the one being pushed.
LEMMA JobAlone ==
  ASSUME EncTypes, FramesAgree, apc # "destroyed", NEW i \in DOMAIN hw.jobs
  PROVE  LET y == hw.jobs[i].info
         IN  /\ y \in Open /\ FrameNo(y) = hw.jobs[i].frame
             /\ ~InCallback(y)
             /\ \A k \in DOMAIN hw.status : ~FirstOf(k, y)
             /\ \A k \in DOMAIN hw.jobs : hw.jobs[k].info = y => k = i
             /\ ~(apc \in {"hls", "send"} /\ pool.iCurID = y)
  <1> DEFINE p == hw.jobs[i]
             y == p.info
  <1>1. /\ HasSlot(p) /\ p \in Range(hw.jobs) /\ JobsDiffer
        /\ \A k \in DOMAIN hw.jobs : HasSlot(hw.jobs[k])
    BY QueuedParts DEF Range, FramesAgree, PartsInOrder
  <1>2. /\ p.info \in InfoID
        /\ \A q : HasSlot(q) /\ q.info = p.info => q.frame = p.frame
        /\ InSource => p.info # pool.iCurID
    <2> HIDE DEF p
    <2> QED BY <1>1, SlotsOfParts
  <1>3. y \in Open
    BY <1>1, <1>2, OpenIs
  <1>4. FrameNo(y) = p.frame
    <2>1. PICK s \in Sent : SourceSent[s] = <<p.frame, p.info>>
      BY <1>1 DEF HasSlot, HeldBy
    <2> QED BY <2>1 DEF FramesAgree, SlotsAgree, FrameNo, FrameOf, InfoOf
  <1>5. ~InCallback(y)
    BY <1>1, <1>2, QueuedParts DEF InCallback, Active, JobsDiffer
  <1>6. ASSUME NEW k \in DOMAIN hw.status, FirstOf(k, y) PROVE FALSE
    <2>1. HasSlot(hw.status[k]) /\ hw.status[k].info = p.info
      BY <1>6, QueuedParts DEF Range, FirstOf
    <2> QED BY <1>1, <1>2, <2>1 DEF JobsDiffer
  <1>7. ASSUME NEW k \in DOMAIN hw.jobs, hw.jobs[k].info = y PROVE k = i
    <2>1. hw.jobs[k].frame = hw.jobs[i].frame
      BY <1>1, <1>2, <1>7
    <2> QED BY <1>1, <2>1 DEF JobsDiffer
  <1> QED BY <1>2, <1>3, <1>4, <1>5, <1>6, <1>7 DEF InSource

LEMMA NotDestroyed == EncTypes /\ hw.alive => apc # "destroyed"
  BY DEF EncTypes, ThreadsAgree

\* What comes first stays so, but for a frame the firmware takes now, which
\* goes before those that still wait.
LEMMA BeforeMoves ==
  ASSUME EncTypes, EncFrames, EncHeads, [EncNext]_encVars, Faultless, apc # "destroyed",
         NEW y \in Open', NEW z, GoesBefore(z, y)'
  PROVE  \/ GoesBefore(z, y)
         \/ /\ EncodePart /\ hw.busy = <<>>
            /\ \E i \in DOMAIN hw.jobs :
                  /\ MayEncode(i) /\ hw'.jobs = JobsAfter(i)
                  /\ z = hw.jobs[i].info /\ y # z
            /\ ~InCallback(y) /\ \A j \in DOMAIN hw.status : ~FirstOf(j, y)
            /\ hw'.status[Len(hw.status) + 1].info = z
  <1> DEFINE q == hw.status
             r == hw'.status
             PartOf(p, id) == p.first /\ p.info = id
  <1>1. /\ q \in Seq(PartSet \cup {EndOfStreamStatus}) /\ EndOfStreamStatus.first = FALSE
        /\ DOMAIN q = 1 .. Len(q) /\ Len(q) \in Nat
    BY DEF EncTypes, EncVarTypes, HwSet, EndOfStreamStatus
  <1>2. /\ ~InCallback(y)'
        /\ \/ InCallback(z)'
           \/ \E i \in DOMAIN r : PartOf(r[i], z) /\ \A j \in 1 .. i : ~PartOf(r[j], y)
    BY DEF GoesBefore, FirstOf
  <1>3. GoesBefore(z, y) <=>
            /\ ~InCallback(y)
            /\ \/ InCallback(z)
               \/ \E i \in DOMAIN q : PartOf(q[i], z) /\ \A j \in 1 .. i : ~PartOf(q[j], y)
    BY DEF GoesBefore, FirstOf
  <1>4. CASE r = q /\ (InCallback(z)' => InCallback(z)) /\ ~InCallback(y)
    BY <1>2, <1>3, <1>4
  <1>5. CASE EndEncodingBegins
    <2>1. /\ q # <<>> /\ 1 \in DOMAIN q /\ r = Tail(q) /\ cpc = "wait"
          /\ st'.first = q[1].first /\ st'.info = q[1].info
      BY <1>5, StatusTaken DEF EndEncodingBegins
    <2>2. ~q[1].error
      BY <2>1 DEF EncHeads, Faultless
    <2>3. cpc' = "sections"
      BY <1>1, <1>5, <2>1, <2>2, HeadTailProperties DEF EndEncodingBegins
    <2>4. \A x : /\ ~InCallback(x)
                 /\ InCallback(x)' <=> PartOf(q[1], x)
      BY <2>1, <2>3 DEF InCallback
    <2>5. ~PartOf(q[1], y)
      BY <1>2, <2>4
    <2>6. CASE InCallback(z)'
      <3>1. PartOf(q[1], z) /\ \A j \in 1 .. 1 : ~PartOf(q[j], y)
        BY <2>4, <2>5, <2>6
      <3> QED BY <1>3, <2>1, <2>4, <3>1
    <2>7. ASSUME NEW i \in DOMAIN r, PartOf(r[i], z), \A j \in 1 .. i : ~PartOf(r[j], y)
          PROVE  GoesBefore(z, y)
      <3>1. /\ DOMAIN r = 1 .. Len(q) - 1 /\ \A j \in DOMAIN r : r[j] = q[j + 1]
        BY <1>1, <2>1, TailPlaces
      <3> HIDE DEF PartOf, q, r
      <3>2. i + 1 \in DOMAIN q /\ PartOf(q[i + 1], z)
        BY <1>1, <2>7, <3>1
      <3>3. ASSUME NEW j \in 1 .. i + 1 PROVE ~PartOf(q[j], y)
        <4>1. CASE j = 1
          BY <2>5, <4>1
        <4>2. CASE j # 1
          <5>1. j - 1 \in 1 .. i /\ j - 1 \in DOMAIN r /\ q[(j - 1) + 1] = q[j]
            BY <1>1, <2>7, <3>1, <4>2
          <5> QED BY <2>7, <3>1, <5>1
        <4> QED BY <4>1, <4>2
      <3> QED BY <1>3, <2>4, <3>2, <3>3
    <2> QED BY <1>2, <2>6, <2>7
  <1>6. CASE WriteSections
    <2>1. r = q /\ cpc = "sections" /\ cpc' = "user" /\ st' = st
      BY <1>6 DEF WriteSections
    <2>2. ~InCallback(z)'
      BY <2>1 DEF InCallback
    <2>3. ~InCallback(y)
      BY <1>6, <2>1, OpenReleased DEF InCallback, EncFrames
    <2> QED BY <1>2, <1>3, <2>1, <2>2, <2>3
  <1>7. ASSUME ~EndEncodingBegins, ~WriteSections
        PROVE  \A x : InCallback(x)' <=> InCallback(x)
    <2>1. cpc' = "sections" <=> cpc = "sections"
      BY <1>7, CallbackMoves
    <2>2. st' = st
      BY <1>7, Writers
    <2> QED BY <2>1, <2>2 DEF InCallback
  <1>8. CASE EndEncodingEos
    <2>1. q # <<>> /\ r = Tail(q) /\ q[1] = EndOfStreamStatus /\ cpc = "wait"
      BY <1>1, <1>8, HeadTailProperties DEF EndEncodingEos, EncTypes, EncVarTypes, HwSet
    <2>2. ~PartOf(q[1], y) /\ \A x : ~InCallback(x)
      BY <1>1, <2>1 DEF InCallback
    <2>3. \A x : ~InCallback(x)'
      BY <1>7, <1>8, <2>2 DEF EndEncodingEos, EndEncodingBegins, WriteSections
    <2>4. PICK i \in DOMAIN r : PartOf(r[i], z) /\ \A j \in 1 .. i : ~PartOf(r[j], y)
      BY <1>2, <2>3
    <2>5. /\ DOMAIN r = 1 .. Len(q) - 1 /\ \A j \in DOMAIN r : r[j] = q[j + 1]
      BY <1>1, <2>1, TailPlaces
    <2> HIDE DEF PartOf, q, r
    <2>6. i + 1 \in DOMAIN q /\ PartOf(q[i + 1], z)
      BY <1>1, <2>4, <2>5
    <2>7. ASSUME NEW j \in 1 .. i + 1 PROVE ~PartOf(q[j], y)
      <3>1. CASE j = 1
        BY <2>2, <3>1
      <3>2. CASE j # 1
        <4>1. j - 1 \in 1 .. i /\ j - 1 \in DOMAIN r /\ q[(j - 1) + 1] = q[j]
          BY <1>1, <2>4, <2>5, <3>2
        <4> QED BY <2>4, <2>5, <4>1
      <3> QED BY <3>1, <3>2
    <2> QED BY <1>3, <2>2, <2>6, <2>7
  <1>9. ASSUME ~EndEncodingBegins, ~WriteSections, NEW e, r = Append(q, e), ~PartOf(e, z)
        PROVE  GoesBefore(z, y)
    <2>1. /\ DOMAIN r = 1 .. Len(q) + 1 /\ r[Len(q) + 1] = e
          /\ \A i \in 1 .. Len(q) : r[i] = q[i]
      BY <1>1, <1>9, AppendPlaces
    <2>2. (InCallback(z)' <=> InCallback(z)) /\ (InCallback(y)' <=> InCallback(y))
      BY <1>7, <1>9
    <2>3. CASE InCallback(z)'
      BY <1>2, <1>3, <2>2, <2>3
    <2>4. ASSUME NEW i \in DOMAIN r, PartOf(r[i], z), \A j \in 1 .. i : ~PartOf(r[j], y)
          PROVE  GoesBefore(z, y)
      <3> HIDE DEF PartOf, q, r
      <3>1. i \in DOMAIN q /\ PartOf(q[i], z)
        BY <1>1, <1>9, <2>1, <2>4
      <3>2. \A j \in 1 .. i : ~PartOf(q[j], y)
        BY <1>1, <2>1, <2>4, <3>1
      <3> QED BY <1>2, <1>3, <2>2, <3>1, <3>2
    <2> QED BY <1>2, <2>3, <2>4
  <1>10. CASE ReportEos
    <2>1. r = Append(q, EndOfStreamStatus)
      BY <1>10 DEF ReportEos, EncTypes, EncVarTypes, HwSet
    <2>2. ~EndEncodingBegins /\ ~WriteSections
      BY <1>10 DEF ReportEos, EndEncodingBegins, WriteSections, cbVars
    <2> QED BY <1>1, <1>9, <2>1, <2>2
  <1>11. CASE EncodePart
    <2>1. PICK job \in JobSet, first \in BOOLEAN, e \in BOOLEAN :
              /\ r = Append(q, Status(job, first, e))
              /\ \/ hw.busy = <<job>> /\ first = FALSE /\ hw'.jobs = hw.jobs
                 \/ /\ hw.busy = <<>> /\ first = TRUE
                    /\ \E i \in DOMAIN hw.jobs :
                          MayEncode(i) /\ job = hw.jobs[i] /\ hw'.jobs = JobsAfter(i)
      BY <1>11, PartEncoded
    <2> DEFINE p == Status(job, first, e)
    <2>2. p.first = first /\ p.info = job.info
      BY DEF Status
    <2>3. ~EndEncodingBegins /\ ~WriteSections
      BY <1>11, <2>1, AppendPlaces, <1>1 DEF EncodePart, EndEncodingBegins, WriteSections, cbVars
    <2> HIDE DEF p
    <2>4. CASE ~PartOf(p, z)
      BY <1>9, <2>1, <2>3, <2>4 DEF p
    <2>5. CASE PartOf(p, z)
      <3>1. hw.busy = <<>> /\ first = TRUE /\ job.info = z
        BY <2>1, <2>2, <2>5
      <3>2. PICK i \in DOMAIN hw.jobs : MayEncode(i) /\ job = hw.jobs[i] /\ hw'.jobs = JobsAfter(i)
        BY <2>1, <3>1
      <3>3. /\ DOMAIN r = 1 .. Len(q) + 1 /\ r[Len(q) + 1] = p
            /\ \A k \in 1 .. Len(q) : r[k] = q[k]
        BY <1>1, <2>1, AppendPlaces DEF p
      <3>4. (InCallback(z)' <=> InCallback(z)) /\ (InCallback(y)' <=> InCallback(y))
        BY <1>7, <2>3
      <3>5. ~InCallback(y)
        BY <1>2, <3>4
      <3>6. ASSUME InCallback(z) PROVE GoesBefore(z, y)
        BY <1>3, <3>5, <3>6
      <3>7. ASSUME NEW k \in DOMAIN r, PartOf(r[k], z), \A j \in 1 .. k : ~PartOf(r[j], y)
            PROVE  GoesBefore(z, y) \/ ((\A j \in DOMAIN q : ~PartOf(q[j], y)) /\ y # z)
        <4> HIDE DEF q, r
        <4>1. CASE k \in DOMAIN q
          <5>1. PartOf(q[k], z) /\ \A j \in 1 .. k : ~PartOf(q[j], y)
            BY <1>1, <3>3, <3>7, <4>1
          <5> QED BY <1>3, <3>5, <4>1, <5>1
        <4>2. CASE k = Len(q) + 1
          <5>1. \A j \in DOMAIN q : ~PartOf(q[j], y)
            BY <1>1, <3>3, <3>7, <4>2
          <5>2. ~PartOf(p, y)
            BY <1>1, <3>3, <3>7, <4>2
          <5> QED BY <2>5, <5>1, <5>2
        <4> QED BY <1>1, <3>3, <3>7, <4>1, <4>2
      <3>8. GoesBefore(z, y) \/ ((\A j \in DOMAIN q : ~PartOf(q[j], y)) /\ y # z)
        <4> HIDE DEF q, r, PartOf
        <4>1. CASE InCallback(z)'
          BY <3>4, <3>6, <4>1
        <4>2. CASE \E k \in DOMAIN r : PartOf(r[k], z) /\ \A j \in 1 .. k : ~PartOf(r[j], y)
          BY <3>7, <4>2
        <4> QED BY <1>2, <4>1, <4>2
      <3>9. hw'.status[Len(hw.status) + 1].info = z
        BY <2>2, <3>1, <3>3
      <3> QED BY <1>11, <3>1, <3>2, <3>5, <3>8, <3>9 DEF FirstOf
    <2> QED BY <2>4, <2>5
  <1>12. CASE /\ ~EndEncodingBegins /\ ~WriteSections /\ ~EndEncodingEos /\ ~ReportEos /\ ~EncodePart
    <2>1. r = q
      BY <1>12, QueueMoves
    <2> QED BY <1>2, <1>3, <1>7, <1>12, <2>1
  <1> QED BY <1>5, <1>6, <1>8, <1>10, <1>11, <1>12

\* The jobs that restart the GOP are those left and the one taken.
LEMMA RestartsLeft ==
  ASSUME hw \in HwSet, NEW i \in DOMAIN hw.jobs, NEW id
  PROVE  (\E p \in Range(hw.jobs) : p.info = id /\ p.restart)
            <=> \/ \E p \in Range(JobsAfter(i)) : p.info = id /\ p.restart
                \/ hw.jobs[i].info = id /\ hw.jobs[i].restart
  <1> DEFINE J == hw.jobs
             K == JobsAfter(i)
  <1>1. /\ DOMAIN J = 1 .. Len(J) /\ Len(J) \in Nat /\ i \in DOMAIN J
        /\ K \in Seq(JobSet) /\ Len(K) = Len(J) - 1
    BY JobsAfterIs, LenProperties DEF HwSet
  <1>2. DOMAIN K = 1 .. Len(J) - 1
    BY <1>1, LenProperties
  <1>3. \A j \in DOMAIN K :
            LET k == IF j < i THEN j ELSE j + 1
            IN  k \in DOMAIN J /\ K[j].info = J[k].info /\ K[j].restart = J[k].restart
    BY JobsAfterIs
  <1> HIDE DEF J, K
  <1>4. ASSUME NEW k \in DOMAIN J, k # i
        PROVE  \E j \in DOMAIN K : K[j].info = J[k].info /\ K[j].restart = J[k].restart
    <2> DEFINE j == IF k < i THEN k ELSE k - 1
    <2>1. j \in DOMAIN K /\ (IF j < i THEN j ELSE j + 1) = k
      BY <1>1, <1>2, <1>4
    <2> HIDE DEF j
    <2> QED BY <1>3, <2>1
  <1>5. \A j \in DOMAIN K :
            \E k \in DOMAIN J : K[j].info = J[k].info /\ K[j].restart = J[k].restart
    BY <1>3
  <1>6. (\E k \in DOMAIN J : J[k].info = id /\ J[k].restart)
            <=> \/ \E j \in DOMAIN K : K[j].info = id /\ K[j].restart
                \/ J[i].info = id /\ J[i].restart
    BY <1>1, <1>4, <1>5
  <1> QED BY <1>6 DEF Range, J, K

LEMMA RestartsIs ==
  Restarts = {id \in Open :
                \/ apc \in {"hls", "send"} /\ pool.iCurID = id /\ (chan.restart \/ hw.fresh)
                \/ \E p \in Range(hw.jobs) : p.info = id /\ p.restart
                \/ \E p \in Range(hw.status) : p.first /\ p.info = id /\ p.idr
                \/ cpc = "sections" /\ st.first /\ st.info = id /\ st.idr}
  <1>1. \A id : (\E i \in DOMAIN hw.status : FirstOf(i, id) /\ hw.status[i].idr)
                    <=> \E p \in Range(hw.status) : p.first /\ p.info = id /\ p.idr
    BY DEF FirstOf, Range
  <1> QED BY <1>1 DEF Restarts, InCallback, Range

\* Where the parameters of the channel and of the driver's request change.
LEMMA RequestMoves ==
  ASSUME EncTypes, [EncNext]_encVars, ~FrameSent, ~FrameRefused
  PROVE  /\ chan'.restart = chan.restart \/ SetParameters
         /\ chan'.dim = chan.dim \/ (SetParameters /\ chan'.restart = TRUE)
         /\ SetParameters => apc = "idle" /\ apc' = "idle"
         /\ hw'.fresh = hw.fresh
         /\ chan.restart \in BOOLEAN /\ (chan.restart => chan'.restart)
  <1>1. chan \in ChanSet /\ hw \in HwSet
    BY DEF EncTypes, EncVarTypes
  <1>2. CASE SetParameters
    <2>1. /\ apc = "idle" /\ apc' = "idle" /\ hw' = hw
          /\ \/ chan' = [chan EXCEPT !.dim = Now.dim, !.restart = TRUE]
             \/ chan' = [chan EXCEPT !.offset = Now.offset]
      BY <1>2 DEF SetParameters, Call, Returns
    <2> QED BY <1>1, <1>2, <2>1 DEF ChanSet
  <1>3. CASE ~SetParameters
    <2>1. chan'.restart = chan.restart /\ chan'.dim = chan.dim
      <3>1. CASE ProcessEos
        BY <1>1, <3>1 DEF ProcessEos, ChanSet
      <3> QED BY <1>3, <3>1, Writers
    <2>2. hw'.fresh = hw.fresh
      <3>1. CASE PutHandsOver \/ CallbackHandsOver
        BY <1>1, <3>1 DEF PutHandsOver, CallbackHandsOver, HandOver, HwSet
      <3>2. CASE ProcessEos \/ ReportEos \/ DestroyChannel
        BY <1>1, <3>2 DEF ProcessEos, ReportEos, DestroyChannel, HwSet
      <3>3. CASE EncodePart
        BY <1>1, <3>3 DEF EncodePart, Encoded, HwSet
      <3>4. CASE EndEncodingEos \/ EndEncodingBegins
        BY <1>1, <3>4 DEF EndEncodingEos, EndEncodingBegins, HwSet
      <3> QED BY <3>1, <3>2, <3>3, <3>4, Writers
    <2> QED BY <1>1, <1>3, <2>1, <2>2 DEF ChanSet
  <1> QED BY <1>2, <1>3

\* A frame restarts the GOP or not from its request to its first part.
LEMMA RestartsMove ==
  ASSUME EncTypes, EncFrames, EncHeads, [EncNext]_encVars, Faultless, apc # "destroyed"
  PROVE  /\ UpdateEncoderInfos =>
                Restarts' = Restarts \cup (IF chan.restart \/ hw.fresh THEN {pool.iCurID} ELSE {})
         /\ ~UpdateEncoderInfos => Restarts' = Restarts \cap Open'
  <1> DEFINE Pushed(id) == apc \in {"hls", "send"} /\ pool.iCurID = id /\ (chan.restart \/ hw.fresh)
             Waiting(id) == \E p \in Range(hw.jobs) : p.info = id /\ p.restart
             Reported(id) == \E p \in Range(hw.status) : p.first /\ p.info = id /\ p.idr
             Received(id) == cpc = "sections" /\ st.first /\ st.info = id /\ st.idr
  <1>1. Restarts = {id \in Open : Pushed(id) \/ Waiting(id) \/ Reported(id) \/ Received(id)}
    BY RestartsIs
  <1>2. Restarts' = {id \in Open' : Pushed(id)' \/ Waiting(id)' \/ Reported(id)' \/ Received(id)'}
    <2>1. \A id : (\E i \in DOMAIN hw'.status : /\ hw'.status[i].first /\ hw'.status[i].info = id
                                                /\ hw'.status[i].idr)
                    <=> Reported(id)'
      BY DEF Range
    <2>2. \A id : (\E i \in DOMAIN hw'.jobs : hw'.jobs[i].info = id /\ hw'.jobs[i].restart)
                    <=> Waiting(id)'
      BY DEF Range
    <2>3. Restarts' = {id \in Open' :
                \/ Pushed(id)'
                \/ \E i \in DOMAIN hw'.jobs : hw'.jobs[i].info = id /\ hw'.jobs[i].restart
                \/ \E i \in DOMAIN hw'.status : /\ hw'.status[i].first /\ hw'.status[i].info = id
                                                /\ hw'.status[i].idr
                \/ Received(id)'}
      BY DEF Restarts, FirstOf, InCallback
    <2> HIDE DEF Pushed, Waiting, Reported, Received
    <2> QED BY <2>1, <2>2, <2>3
  <1>3. /\ hw.jobs \in Seq(JobSet) /\ hw.status \in Seq(PartSet \cup {EndOfStreamStatus})
        /\ hw \in HwSet /\ EndOfStreamStatus.first = FALSE /\ FramesAgree /\ ~FrameRefused
    BY DEF EncTypes, EncVarTypes, HwSet, EndOfStreamStatus, EncFrames, FrameRefused, Faultless
  <1>4. CASE UpdateEncoderInfos
    <2>1. /\ apc = "infos" /\ apc' = "hls" /\ hw' = hw /\ cpc' = cpc /\ st' = st /\ chan' = chan
          /\ pool'.iCurID = pool.iCurID
      BY <1>4, PoolFrames DEF UpdateEncoderInfos, GetFrameInfo, Goes, cbVars
    <2>2. /\ Open' = Open \cup {pool.iCurID} /\ pool.iCurID \in InfoID \ Open
      BY <1>3, <1>4, OpenTaken
    <2>3. \A id : /\ Pushed(id)' <=> id = pool.iCurID /\ (chan.restart \/ hw.fresh)
                  /\ ~Pushed(id)
                  /\ Waiting(id)' <=> Waiting(id)
                  /\ Reported(id)' <=> Reported(id)
                  /\ Received(id)' <=> Received(id)
      BY <2>1
    <2>4. Waiting(pool.iCurID) \/ Reported(pool.iCurID) \/ Received(pool.iCurID)
              => pool.iCurID \in Open
      BY <2>2, OpenIs
    <2> HIDE DEF Pushed, Waiting, Reported, Received
    <2> QED BY <1>1, <1>2, <1>4, <2>2, <2>3, <2>4
  <1>5. SUFFICES ASSUME ~UpdateEncoderInfos
                 PROVE  \A id \in Open' :
                            (Pushed(id)' \/ Waiting(id)' \/ Reported(id)' \/ Received(id)')
                               <=> (Pushed(id) \/ Waiting(id) \/ Reported(id) \/ Received(id))
    <2>1. ~UpdateEncoderInfos => Open' \subseteq Open
      BY OpenMoves
    <2> HIDE DEF Pushed, Waiting, Reported, Received
    <2> QED BY <1>1, <1>2, <1>4, <1>5, <2>1
  <1>6. ~FrameSent => \A id : Pushed(id)' <=> Pushed(id)
    <2>1. CASE SetParameters
      BY <2>1, RequestMoves, <1>3
    <2>2. CASE ~SetParameters /\ ~FrameSent
      BY <1>3, <1>5, <2>2, LaunchStays, RequestMoves
    <2> QED BY <2>1, <2>2 DEF SetParameters, FrameSent, Call
  <1>7. ~FrameSent /\ ~EncodePart /\ ~DestroyChannel => hw'.jobs = hw.jobs
    BY QueueMoves
  <1>8. CASE FrameSent
    <2>1. /\ hw'.jobs = Append(hw.jobs, Job) /\ hw'.status = hw.status
          /\ apc = "send" /\ apc' = "idle" /\ cpc' = cpc /\ st' = st
      BY <1>8, JobSent DEF FrameSent, Returns, cbVars
    <2>2. Job.info = pool.iCurID /\ (Job.restart <=> chan.restart \/ hw.fresh)
      BY <1>8, JobSent
    <2>3. Range(hw'.jobs) = Range(hw.jobs) \cup {Job}
      BY <1>8, JobSent
    <2>4. \A id : /\ Waiting(id)' <=> Waiting(id) \/ Pushed(id)
                  /\ ~Pushed(id)'
                  /\ Reported(id)' <=> Reported(id)
                  /\ Received(id)' <=> Received(id)
      BY <2>1, <2>2, <2>3
    <2> HIDE DEF Pushed, Waiting, Reported, Received
    <2> QED BY <2>4
  <1>9. CASE EncodePart
    <2>1. PICK job \in JobSet, first \in BOOLEAN, e \in BOOLEAN :
              /\ hw'.status = Append(hw.status, Status(job, first, e))
              /\ Status(job, first, e) \in PartSet
              /\ \/ hw.busy = <<job>> /\ first = FALSE /\ hw'.jobs = hw.jobs
                 \/ /\ hw.busy = <<>> /\ first = TRUE
                    /\ \E i \in DOMAIN hw.jobs :
                          MayEncode(i) /\ job = hw.jobs[i] /\ hw'.jobs = JobsAfter(i)
      BY <1>9, PartEncoded
    <2> DEFINE p == Status(job, first, e)
    <2>2. p.first = first /\ p.info = job.info /\ p.idr = job.restart
      BY DEF Status
    <2> HIDE DEF p
    <2>3. Range(hw'.status) = Range(hw.status) \cup {p}
      BY <1>3, <2>1, AppendRange DEF p
    <2>4. cpc' = cpc /\ st' = st /\ ~FrameSent
      BY <1>9 DEF EncodePart, FrameSent, cbVars, appVars, Returns
    <2>5. \A id : /\ Reported(id)' <=> Reported(id) \/ (first /\ job.info = id /\ job.restart)
                  /\ Received(id)' <=> Received(id)
      BY <2>2, <2>3, <2>4
    <2>6. \A id : Waiting(id) <=> Waiting(id)' \/ (first /\ job.info = id /\ job.restart)
      <3>1. CASE first = FALSE
        BY <2>1, <3>1
      <3>2. CASE first = TRUE
        <4>1. PICK i \in DOMAIN hw.jobs : job = hw.jobs[i] /\ hw'.jobs = JobsAfter(i)
          BY <2>1, <3>2
        <4>2. ASSUME NEW id PROVE Waiting(id) <=> Waiting(id)' \/ (job.info = id /\ job.restart)
          <5>1. Waiting(id) <=> \/ \E j \in Range(JobsAfter(i)) : j.info = id /\ j.restart
                                \/ hw.jobs[i].info = id /\ hw.jobs[i].restart
            BY <1>3, <4>1, RestartsLeft
          <5>2. Waiting(id)' <=> \E j \in Range(JobsAfter(i)) : j.info = id /\ j.restart
            BY <4>1
          <5> HIDE DEF Waiting
          <5> QED BY <4>1, <5>1, <5>2
        <4> HIDE DEF Waiting
        <4> QED BY <3>2, <4>2
      <3>3. first = FALSE \/ first = TRUE
        BY <2>1
      <3> QED BY <3>1, <3>2, <3>3, Zenon
    <2>7. \A id : Pushed(id)' <=> Pushed(id)
      BY <1>6, <2>4
    <2> HIDE DEF Pushed, Waiting, Reported, Received
    <2> QED BY <2>5, <2>6, <2>7
  <1>10. CASE EndEncodingBegins
    <2>1. /\ hw.status # <<>> /\ hw'.status = Tail(hw.status) /\ 1 \in DOMAIN hw.status
          /\ st'.first = hw.status[1].first /\ st'.info = hw.status[1].info
          /\ st'.idr = hw.status[1].idr /\ cpc = "wait" /\ hw'.jobs = hw.jobs
      BY <1>10, StatusTaken DEF EndEncodingBegins
    <2>2. cpc' = "sections"
      BY <1>3, <1>10, <2>1, HeadTailProperties DEF EndEncodingBegins, EncHeads, Faultless
    <2>3. /\ Range(hw'.status) \subseteq Range(hw.status)
          /\ Range(hw.status) \subseteq Range(hw'.status) \cup {hw.status[1]}
          /\ hw.status[1] \in Range(hw.status)
      BY <1>3, <2>1, TailRange, HeadTailProperties
    <2>4. \A id : /\ Reported(id) \/ Received(id) <=> Reported(id)' \/ Received(id)'
                  /\ Waiting(id)' <=> Waiting(id)
      BY <2>1, <2>2, <2>3
    <2>5. ~FrameSent
      BY <1>10 DEF EndEncodingBegins, FrameSent, appVars, Returns
    <2> HIDE DEF Pushed, Waiting, Reported, Received
    <2> QED BY <1>6, <2>4, <2>5
  <1>11. CASE WriteSections
    <2>1. /\ hw' = hw /\ ~FrameSent /\ cpc = "sections" /\ cpc' = "user"
      BY <1>11 DEF WriteSections, FrameSent, appVars, Returns
    <2>2. \A id \in Open' : ~Received(id) /\ ~Received(id)'
      BY <1>3, <1>11, <2>1, OpenReleased
    <2>3. \A id : (Waiting(id)' <=> Waiting(id)) /\ (Reported(id)' <=> Reported(id))
      BY <2>1
    <2> HIDE DEF Pushed, Waiting, Reported, Received
    <2> QED BY <1>6, <2>1, <2>2, <2>3
  <1>12. CASE /\ ~FrameSent /\ ~EncodePart /\ ~EndEncodingBegins /\ ~WriteSections
             /\ ~DestroyChannel
    <2>1. (cpc' = "sections" <=> cpc = "sections") /\ st' = st
      BY <1>12, CallbackMoves, Writers
    <2>2. \A p : p \in Range(hw'.status) /\ p.first <=> p \in Range(hw.status) /\ p.first
      BY <1>12, StatusesStay
    <2>3. \A id : /\ Waiting(id)' <=> Waiting(id)
                  /\ Reported(id)' <=> Reported(id)
                  /\ Received(id)' <=> Received(id)
      BY <1>7, <1>12, <2>1, <2>2
    <2> HIDE DEF Pushed, Waiting, Reported, Received
    <2> QED BY <1>6, <1>12, <2>3
  <1>13. CASE DestroyChannel
    <2>1. /\ apc = "idle" /\ apc' = "join" /\ cpc' = cpc /\ st' = st /\ hw'.jobs = <<>>
          /\ hw'.status = hw.status
      BY <1>3, <1>13 DEF DestroyChannel, Goes, cbVars, HwSet
    <2>2. \A id : /\ ~Pushed(id) /\ ~Pushed(id)' /\ ~Waiting(id)'
                  /\ Reported(id)' <=> Reported(id)
                  /\ Received(id)' <=> Received(id)
      BY <2>1 DEF Range
    <2>3. ASSUME NEW id \in Open', Waiting(id) PROVE FALSE
      <3>1. PICK i \in DOMAIN hw.jobs : hw.jobs[i].info = id
        BY <2>3 DEF Range
      <3>2. ~InCallback(id) /\ \A k \in DOMAIN hw.status : ~FirstOf(k, id)
        BY <1>3, <3>1, JobAlone
      <3>3. /\ DOMAIN hw'.jobs = {}
            /\ \/ \E k \in DOMAIN hw'.jobs : hw'.jobs[k].info = id
               \/ \E k \in DOMAIN hw.status : FirstOf(k, id)
               \/ InCallback(id)
        BY <2>1, <2>3 DEF Open, FirstOf, InCallback
      <3> QED BY <3>2, <3>3
    <2> HIDE DEF Pushed, Waiting, Reported, Received
    <2> QED BY <2>2, <2>3
  <1> QED BY <1>8, <1>9, <1>10, <1>11, <1>12, <1>13

---------------------------------------------------------------------------
(* Newer frames, and those that went before an older one *)

\* Which frames are newer changes with the frames in use only.
LEMMA NewerMoves ==
  ASSUME EncTypes, EncFrames, EncHeads, [EncNext]_encVars, apc # "destroyed", NEW cur, cur = pool.iCurID
  PROVE  /\ UpdateEncoderInfos =>
                /\ cur \notin Open /\ Newer(cur)' = {}
                /\ \A y \in Open : Newer(y)' = Newer(y) \cup {cur}
         /\ ~UpdateEncoderInfos => \A y \in Open' : y \in Open /\ Newer(y)' = Newer(y) \cap Open'
  <1>1. FramesAgree /\ apc # "destroyed"
    BY DEF EncFrames, EncTypes, ThreadsAgree
  <1>2. \A y \in Open : FrameNo(y)' = FrameNo(y) /\ FrameNo(y) \in Nat
    BY <1>1, OpenFrames, OpenFrameKept
  <1>3. ASSUME UpdateEncoderInfos
        PROVE  /\ cur \notin Open /\ Newer(cur)' = {}
               /\ \A y \in Open : Newer(y)' = Newer(y) \cup {cur}
    <2>1. cur \in InfoID \ Open /\ Open' = Open \cup {cur} /\ InSource /\ next \in Nat
      BY <1>1, <1>3, OpenTaken DEF UpdateEncoderInfos, InSource, EncTypes, ThreadsAgree
    <2>2. FrameNo(cur) = next
      BY <1>1, <2>1 DEF FramesAgree, CurrentAgrees, SlotsAgree, Sent, FrameNo, FrameOf, InfoOf,
                        EncTypes, ThreadsAgree
    <2>3. FrameNo(cur)' = next
      BY <1>3, <2>1, <2>2, PoolFrames DEF FrameNo, UpdateEncoderInfos, GetFrameInfo
    <2>4. \A y \in Open : FrameNo(y) < next
      BY <1>1, <2>1, OpenFrames
    <2>5. \A y : Newer(y)' = {z \in Open' : FrameNo(z)' > FrameNo(y)'}
      BY DEF Newer, FrameNo
    <2>7. \A y \in Open : Newer(y)' = Newer(y) \cup {cur}
      <3> SUFFICES ASSUME NEW y \in Open PROVE Newer(y)' = Newer(y) \cup {cur}
        OBVIOUS
      <3>1. Newer(y)' = {z \in Open \cup {cur} : FrameNo(z)' > FrameNo(y)}
        BY <1>2, <2>1, <2>5
      <3>2. FrameNo(cur)' > FrameNo(y)
        BY <1>2, <2>1, <2>3, <2>4
      <3> QED BY <1>2, <3>1, <3>2 DEF Newer
    <2>8. Newer(cur)' = {z \in Open \cup {cur} : FrameNo(z)' > next}
      BY <2>1, <2>3, <2>5
    <2>9. Newer(cur)' = {}
      BY <1>2, <2>1, <2>3, <2>4, <2>8
    <2> QED BY <2>1, <2>7, <2>9
  <1>4. ASSUME ~UpdateEncoderInfos, NEW y \in Open'
        PROVE  y \in Open /\ Newer(y)' = Newer(y) \cap Open'
    <2>1. Open' \subseteq Open
      BY <1>1, <1>4, OpenMoves
    <2>2. Newer(y)' = {z \in Open' : FrameNo(z)' > FrameNo(y)'}
      BY DEF Newer, FrameNo
    <2> QED BY <1>2, <1>4, <2>1, <2>2 DEF Newer
  <1> QED BY <1>3, <1>4

\* Those that went before a frame are as many at most, unless one more is
\* encoded before it now, which is newer and does not restart the GOP; the
\* frame was not overtaken as often as the GOP pattern reorders.
LEMMA PassedMoves ==
  ASSUME EncTypes, EncFrames, EncHeads, EncOrder, [EncNext]_encVars, Faultless,
         hw.alive, hw'.alive, NEW y \in Open, y \in Open'
  PROVE  \/ Passed(y)' \subseteq Passed(y)
         \/ \E i \in DOMAIN hw.jobs, z \in Newer(y) \ Restarts :
               /\ Passed(y)' \subseteq Passed(y) \cup {z}
               /\ EncodePart /\ hw'.jobs = JobsAfter(i)
               /\ \E j \in DOMAIN hw.jobs :
                     j < i /\ hw.jobs[j].info = y /\ hw.jobs[j].overtaken < GetMaxReordering
  <1>1. /\ FramesAgree /\ apc # "destroyed" /\ JobsInOrder
        /\ hw.jobs \in Seq(JobSet) /\ hw \in HwSet /\ next \in Nat
    BY DEF EncFrames, EncTypes, EncVarTypes, ThreadsAgree, EncOrder, HwSet
  <1>2. PICK cur : cur = pool.iCurID
    OBVIOUS
  <1>3. Passed(y)' = {z \in Newer(y)' : GoesBefore(z, y)'}
    BY DEF Passed
  <1>4. \A z : GoesBefore(z, y) /\ z \in InfoID => z \in Open
    BY DEF GoesBefore, InCallback, FirstOf, Open
  <1>5. ASSUME NEW z \in Passed(y)', GoesBefore(z, y) PROVE z \in Passed(y)
    <2>1. z \in Newer(y)' /\ Newer(y)' \subseteq Open' /\ Open' \subseteq InfoID
      BY <1>3 DEF Newer, Open
    <2>2. z \in Open
      BY <1>4, <1>5, <2>1
    <2>3. CASE UpdateEncoderInfos
      <3>1. cur \notin Open /\ Newer(y)' = Newer(y) \cup {cur}
        BY <1>1, <1>2, <2>3, NewerMoves
      <3> QED BY <1>5, <2>1, <2>2, <3>1 DEF Passed
    <2>4. CASE ~UpdateEncoderInfos
      <3>1. Newer(y)' = Newer(y) \cap Open'
        BY <1>1, <1>2, <2>4, NewerMoves
      <3> QED BY <1>5, <2>1, <3>1 DEF Passed
    <2> QED BY <2>3, <2>4
  <1>6. ASSUME NEW z \in Passed(y)', ~GoesBefore(z, y)
        PROVE  \E i \in DOMAIN hw.jobs :
                  /\ z \in Newer(y) \ Restarts
                  /\ z = hw'.status[Len(hw.status) + 1].info
                  /\ EncodePart /\ hw'.jobs = JobsAfter(i)
                  /\ \E j \in DOMAIN hw.jobs :
                        j < i /\ hw.jobs[j].info = y /\ hw.jobs[j].overtaken < GetMaxReordering
    <2>1. GoesBefore(z, y)'
      BY <1>3
    <2>2. /\ EncodePart
          /\ ~InCallback(y) /\ \A j \in DOMAIN hw.status : ~FirstOf(j, y)
          /\ hw'.status[Len(hw.status) + 1].info = z
          /\ \E i \in DOMAIN hw.jobs :
                MayEncode(i) /\ hw'.jobs = JobsAfter(i) /\ z = hw.jobs[i].info /\ y # z
      BY <1>1, <1>6, <2>1, BeforeMoves
    <2>3. PICK i \in DOMAIN hw.jobs :
                MayEncode(i) /\ hw'.jobs = JobsAfter(i) /\ z = hw.jobs[i].info /\ y # z
      BY <2>2
    <2>4. ~UpdateEncoderInfos
      BY <2>2 DEF EncodePart, UpdateEncoderInfos, Goes, appVars
    <2>5. z \in Newer(y)
      BY <1>1, <1>2, <1>3, <2>4, NewerMoves
    <2>6. FrameNo(z) > FrameNo(y) /\ FrameNo(z) = hw.jobs[i].frame
      BY <1>1, <2>3, <2>5, JobAlone DEF Newer
    <2>7. ~(apc \in {"hls", "send"} /\ pool.iCurID = y)
      <3>1. FrameNo(z) \in Nat /\ FrameNo(z) <= next
        BY <1>1, <2>5, OpenFrames DEF Newer
      <3>2. InSource /\ y = pool.iCurID => FrameNo(y) = next
        BY <1>1, OpenFrames
      <3> QED BY <1>1, <2>6, <3>1, <3>2 DEF InSource
    <2>8. PICK j \in DOMAIN hw.jobs : hw.jobs[j].info = y
      BY <2>2, <2>7 DEF Open, FirstOf, InCallback
    <2>9. FrameNo(y) = hw.jobs[j].frame
      BY <1>1, <2>8, JobAlone
    <2>10. j < i
      <3>1. j # i /\ i \in Nat /\ j \in Nat
        BY <1>1, <2>3, <2>8, LenProperties
      <3>2. ~(i < j)
        <4>1. FrameNo(y) \in Nat /\ FrameNo(z) \in Nat
          BY <1>1, <2>5, OpenFrames DEF Newer
        <4> QED BY <1>1, <2>6, <2>9, <4>1 DEF JobsInOrder
      <3> QED BY <3>1, <3>2
    <2>11. hw.jobs[j].overtaken < GetMaxReordering /\ ~hw.jobs[i].restart
      <3>1. i \in Nat /\ j \in Nat /\ j >= 1
        BY <1>1, LenProperties
      <3>2. j \in 1 .. i - 1 /\ i > 1 /\ i \in 1 .. i
        BY <2>10, <3>1
      <3> QED BY <2>3, <3>2 DEF MayEncode
    <2>12. z \notin Restarts
      <3>1. /\ ~InCallback(z) /\ \A k \in DOMAIN hw.status : ~FirstOf(k, z)
            /\ \A k \in DOMAIN hw.jobs : hw.jobs[k].info = z => k = i
            /\ ~(apc \in {"hls", "send"} /\ pool.iCurID = z)
        BY <1>1, <2>3, JobAlone
      <3> QED BY <2>11, <3>1 DEF Restarts
    <2> QED BY <2>2, <2>3, <2>5, <2>8, <2>10, <2>11, <2>12
  <1>7. CASE \A z \in Passed(y)' : GoesBefore(z, y)
    BY <1>5, <1>7
  <1>8. CASE \E z \in Passed(y)' : ~GoesBefore(z, y)
    <2>1. PICK z \in Passed(y)' : ~GoesBefore(z, y)
      BY <1>8
    <2>2. PICK i \in DOMAIN hw.jobs :
                  /\ z \in Newer(y) \ Restarts
                  /\ z = hw'.status[Len(hw.status) + 1].info
                  /\ EncodePart /\ hw'.jobs = JobsAfter(i)
                  /\ \E j \in DOMAIN hw.jobs :
                        j < i /\ hw.jobs[j].info = y /\ hw.jobs[j].overtaken < GetMaxReordering
      BY <1>6, <2>1
    <2>3. ASSUME NEW x \in Passed(y)', x \notin Passed(y) PROVE x = z
      <3>1. ~GoesBefore(x, y)
        BY <1>5, <2>3
      <3> QED BY <1>6, <2>2, <2>3, <3>1
    <2> QED BY <2>2, <2>3
  <1> QED BY <1>7, <1>8

---------------------------------------------------------------------------
(* How far the ids of a frame are behind *)

LEMMA RingBehind ==
  ASSUME NEW n \in Nat, n > 0, NEW a \in 0 .. n - 1, NEW b \in 0 .. n - 1
  PROVE  /\ (a - b) % n \in Nat
         /\ (((a + 1) % n) - b) % n <= ((a - b) % n) + 1
         /\ (b - b) % n = 0
         /\ (a + 1) % n = b => (a - b) % n = n - 1
  <1>1. (a - b) % n = IF a - b < 0 THEN a - b + n ELSE a - b
    BY RingTurn
  <1>2. (a + 1) % n = IF a + 1 >= n THEN a + 1 - n ELSE a + 1
    BY RingTurn
  <1>3. (b - b) % n = 0
    BY RingTurn
  <1> DEFINE c == (a + 1) % n
  <1>4. c \in 0 .. n - 1 /\ (c = a + 1 \/ (c = 0 /\ a = n - 1))
    BY <1>2
  <1> HIDE DEF c
  <1>5. (c - b) % n = IF c - b < 0 THEN c - b + n ELSE c - b
    BY <1>4, RingTurn
  <1>6. (c - b) % n <= ((a - b) % n) + 1
    BY <1>1, <1>4, <1>5
  <1>7. c = b => (a - b) % n = n - 1
    BY <1>1, <1>4
  <1>8. (a - b) % n \in Nat
    BY <1>1
  <1> QED BY <1>3, <1>6, <1>7, <1>8 DEF c

\* The last ids given, and the SPS they stand for.
LEMMA LastIdsMove ==
  ASSUME EncTypes, [EncNext]_encVars
  PROVE  /\ UpdateEncoderInfos =>
                /\ heads'.iPrevSps = IF SameSps(heads, chan.dim) THEN heads.iPrevSps
                                     ELSE (heads.iPrevSps + 1) % iMaxSpsIds
                /\ heads'.iPrevPps \in {heads.iPrevPps, (heads.iPrevPps + 1) % MAX_PPS_IDS}
                /\ heads'.sps[heads'.iPrevSps].dim = chan.dim
         /\ ~UpdateEncoderInfos =>
                /\ heads'.iPrevSps = heads.iPrevSps /\ heads'.iPrevPps = heads.iPrevPps
                /\ \A x \in SpsID : heads'.sps[x].dim = heads.sps[x].dim
  <1>1. /\ heads \in HeadsSet /\ chan \in ChanSet /\ pool \in PoolSet /\ heads.iPrevSps \in SpsID
        /\ heads.sps \in [SpsID -> SpsSet] /\ heads.pps \in [PpsID -> PpsSet]
    BY DEF EncTypes, EncVarTypes, HeadsSet
  <1>2. ASSUME UpdateEncoderInfos
        PROVE  /\ heads'.iPrevSps = IF SameSps(heads, chan.dim) THEN heads.iPrevSps
                                     ELSE (heads.iPrevSps + 1) % iMaxSpsIds
               /\ heads'.iPrevPps \in {heads.iPrevPps, (heads.iPrevPps + 1) % MAX_PPS_IDS}
               /\ heads'.sps[heads'.iPrevSps].dim = chan.dim
    <2> DEFINE h == GetSps(heads, chan.dim)
               s == h.iPrevSps
    <2>1. heads' = GetPps(h, s, chan.offset) /\ h \in HeadsSet /\ chan.dim \in Nat
      BY <1>1, <1>2, SpsTypes DEF UpdateEncoderInfos, ChanSet
    <2>2. /\ s = IF SameSps(heads, chan.dim) THEN heads.iPrevSps
                 ELSE (heads.iPrevSps + 1) % iMaxSpsIds
          /\ h.iPrevPps = heads.iPrevPps
          /\ h.sps[s].dim = chan.dim
      <3>1. CASE SameSps(heads, chan.dim)
        <4> DEFINE c == [heads.sps[heads.iPrevSps] EXCEPT !.iRefCnt = @ + 1]
        <4>1. h = [heads EXCEPT !.sps = [heads.sps EXCEPT ![heads.iPrevSps] = c]]
          BY <1>1, <3>1 DEF GetSps, HeadsSet
        <4>2. c.dim = chan.dim
          BY <1>1, <3>1 DEF SameSps, SpsSet
        <4> HIDE DEF c, h
        <4> QED BY <1>1, <3>1, <4>1, <4>2 DEF HeadsSet
      <3>2. CASE ~SameSps(heads, chan.dim)
        <4> DEFINE k == (heads.iPrevSps + 1) % iMaxSpsIds
                   c == [dim |-> chan.dim, iRefCnt |-> 1, bHasBeenSent |-> FALSE]
        <4>1. k \in SpsID
          BY <1>1, Ranges
        <4>2. h = [heads EXCEPT !.iPrevSps = k, !.sps = [heads.sps EXCEPT ![k] = c]]
          BY <1>1, <3>2 DEF GetSps, NextSps, HeadsSet
        <4>3. c.dim = chan.dim
          OBVIOUS
        <4> HIDE DEF c, h, k
        <4>4. h.iPrevSps = k /\ h.iPrevPps = heads.iPrevPps /\ h.sps[k] = c
          BY <1>1, <4>1, <4>2 DEF HeadsSet
        <4> QED BY <3>2, <4>3, <4>4 DEF k
      <3> QED BY <3>1, <3>2
    <2> HIDE DEF h, s
    <2>3. /\ heads'.iPrevPps \in {h.iPrevPps, (h.iPrevPps + 1) % MAX_PPS_IDS}
          /\ heads'.iPrevSps = h.iPrevSps /\ heads'.sps = h.sps
      BY <2>1 DEF GetPps, NextPps, HeadsSet
    <2> QED BY <2>2, <2>3 DEF s
  <1>3. ASSUME ~UpdateEncoderInfos
        PROVE  /\ heads'.iPrevSps = heads.iPrevSps /\ heads'.iPrevPps = heads.iPrevPps
               /\ \A x \in SpsID : heads'.sps[x].dim = heads.sps[x].dim
    <2>1. CASE WriteSections /\ st.first
      <3> DEFINE a == pool.info[st.info].uSpsId
                 b == pool.info[st.info].uPpsId
                 l == SpsOf(heads, pool.info[st.info])
                 ra == Released(heads.sps[a])
                 rb == Released(heads.pps[b])
      <3>1. st.info \in InfoID
        BY <2>1 DEF WriteSections, EncTypes, ThreadsAgree, Busy
      <3>2. a \in SpsID /\ b \in PpsID
        BY <1>1, <3>1 DEF PoolSet, InfoSet
      <3>3. heads' = [heads EXCEPT !.layerSps = l, !.sps[a] = Released(@), !.pps[b] = Released(@)]
        BY <2>1 DEF WriteSections
      <3>4. ra.dim = heads.sps[a].dim
        BY <1>1, <3>2 DEF Released, SpsSet
      <3> HIDE DEF a, b, l
      <3>5. heads' = [heads EXCEPT !.layerSps = l, !.sps = [heads.sps EXCEPT ![a] = ra],
                                   !.pps = [heads.pps EXCEPT ![b] = rb]]
        BY <1>1, <3>2, <3>3 DEF HeadsSet
      <3> HIDE DEF ra, rb
      <3>6. /\ heads'.sps = [heads.sps EXCEPT ![a] = ra]
            /\ heads'.iPrevSps = heads.iPrevSps /\ heads'.iPrevPps = heads.iPrevPps
        BY <1>1, <3>5 DEF HeadsSet
      <3> QED BY <1>1, <3>4, <3>6
    <2>2. CASE ~(WriteSections /\ st.first)
      BY <1>3, <2>2, RefCntMoves
    <2> QED BY <2>1, <2>2
  <1> QED BY <1>2, <1>3

\* A frame falls behind by a place when another one is given new ids.
LEMMA BehindMoves ==
  ASSUME EncTypes, [EncNext]_encVars, NEW cur, cur = pool.iCurID, NEW y \in InfoID
  PROVE  /\ PpsBehind(y) \in Nat /\ SpsBehind(y) \in Nat
         /\ PpsBehind(y)' \in Nat /\ SpsBehind(y)' \in Nat
         /\ UpdateEncoderInfos /\ y # cur =>
                /\ PpsBehind(y)' <= PpsBehind(y) + 1
                /\ SpsBehind(y)' <= SpsBehind(y) + 1
                /\ SameSps(heads, chan.dim) => SpsBehind(y)' = SpsBehind(y)
         /\ UpdateEncoderInfos /\ y = cur => PpsBehind(y)' = 0 /\ SpsBehind(y)' = 0
         /\ ~UpdateEncoderInfos => PpsBehind(y)' = PpsBehind(y) /\ SpsBehind(y)' = SpsBehind(y)
  <1> DEFINE s == SpsIds[y]
             p == PpsIds[y]
             t == SpsIds'[y]
             q == PpsIds'[y]
             N == iMaxSpsIds
             M == MAX_PPS_IDS
             a == heads.iPrevSps
             b == heads.iPrevPps
             c == heads'.iPrevSps
             d == heads'.iPrevPps
  <1>1. /\ pool \in PoolSet /\ heads \in HeadsSet /\ pool' \in PoolSet /\ heads' \in HeadsSet
        /\ a \in 0 .. N - 1 /\ b \in 0 .. M - 1 /\ c \in 0 .. N - 1 /\ d \in 0 .. M - 1
    BY PoolType, HeadsType DEF EncTypes, EncVarTypes, HeadsSet, SpsID, PpsID
  <1>2. /\ s = pool.info[y].uSpsId /\ p = pool.info[y].uPpsId
        /\ t = pool'.info[y].uSpsId /\ q = pool'.info[y].uPpsId
    BY DEF SpsIds, PpsIds
  <1>3. /\ s \in 0 .. N - 1 /\ t \in 0 .. N - 1 /\ p \in 0 .. M - 1 /\ q \in 0 .. M - 1
    BY <1>1, <1>2 DEF PoolSet, InfoSet, SpsID, PpsID
  <1>4. /\ PpsBehind(y) = (b - p) % M /\ PpsBehind(y)' = (d - q) % M
        /\ SpsBehind(y) = (a - s) % N /\ SpsBehind(y)' = (c - t) % N
    BY <1>2 DEF PpsBehind, SpsBehind
  <1>5. N \in Nat /\ N > 0 /\ M \in Nat /\ M > 0
    BY EncAssumption DEF MAX_PPS_IDS
  <1>6. /\ UpdateEncoderInfos =>
                /\ c = IF SameSps(heads, chan.dim) THEN a ELSE (a + 1) % N
                /\ d \in {b, (b + 1) % M}
        /\ ~UpdateEncoderInfos => c = a /\ d = b
    BY LastIdsMove
  <1>7. /\ UpdateEncoderInfos /\ y = cur => t = c /\ q = d
        /\ ~UpdateEncoderInfos \/ y # cur => t = s /\ q = p
    BY IdsMove
  <1> HIDE DEF s, p, t, q, a, b, c, d, N, M
  <1>8. /\ (b - p) % M \in Nat /\ (a - s) % N \in Nat /\ (d - q) % M \in Nat /\ (c - t) % N \in Nat
        /\ (((b + 1) % M) - p) % M <= ((b - p) % M) + 1
        /\ (((a + 1) % N) - s) % N <= ((a - s) % N) + 1
        /\ (q - q) % M = 0 /\ (t - t) % N = 0
    BY <1>1, <1>3, <1>5, RingBehind
  <1>9. UpdateEncoderInfos /\ y # cur =>
                /\ PpsBehind(y)' <= PpsBehind(y) + 1
                /\ SpsBehind(y)' <= SpsBehind(y) + 1
                /\ SameSps(heads, chan.dim) => SpsBehind(y)' = SpsBehind(y)
    <2> SUFFICES ASSUME UpdateEncoderInfos, y # cur
                 PROVE  /\ (d - q) % M <= ((b - p) % M) + 1
                        /\ (c - t) % N <= ((a - s) % N) + 1
                        /\ SameSps(heads, chan.dim) => (c - t) % N = (a - s) % N
      BY <1>4
    <2>1. q = p /\ t = s /\ (d = b \/ d = (b + 1) % M)
      BY <1>6, <1>7
    <2>2. (d - q) % M <= ((b - p) % M) + 1
      BY <1>8, <2>1
    <2>3. (SameSps(heads, chan.dim) /\ c = a) \/ (~SameSps(heads, chan.dim) /\ c = (a + 1) % N)
      BY <1>6
    <2> QED BY <1>8, <2>1, <2>2, <2>3
  <1>10. UpdateEncoderInfos /\ y = cur => PpsBehind(y)' = 0 /\ SpsBehind(y)' = 0
    BY <1>4, <1>7, <1>8
  <1>11. ~UpdateEncoderInfos => PpsBehind(y)' = PpsBehind(y) /\ SpsBehind(y)' = SpsBehind(y)
    BY <1>4, <1>6, <1>7
  <1> QED BY <1>4, <1>8, <1>9, <1>10, <1>11

---------------------------------------------------------------------------
(* The ids of a frame are never far behind *)

LEMMA IdCounts ==
  ASSUME NEW S \in SUBSET InfoID
  PROVE  /\ Cardinality(S) \in Nat
         /\ \A T \in SUBSET S : Cardinality(T) <= Cardinality(S)
         /\ \A x : x \notin S => Cardinality(S \cup {x}) = Cardinality(S) + 1
         /\ \A x : x \in S => Cardinality(S \ {x}) = Cardinality(S) - 1
         /\ Cardinality({}) = 0 /\ \A x : Cardinality({x}) = 1
  BY FiniteSlots, FS_Subset, FS_AddElement, FS_RemoveElement, FS_EmptySet, FS_Singleton

\* What a step does to the frames newer than y and to those that passed it.
LEMMA AroundMoves ==
  ASSUME EncTypes, EncFrames, EncHeads, EncOrder, [EncNext]_encVars, Faultless,
         hw.alive, hw'.alive, NEW y \in Open, y \in Open', NEW cur, cur = pool.iCurID
  PROVE  \/ /\ UpdateEncoderInfos /\ cur \notin Open
            /\ Newer(y)' = Newer(y) \cup {cur} /\ Passed(y)' \subseteq Passed(y)
         \/ /\ ~UpdateEncoderInfos /\ WriteSections /\ st.first /\ st.info \in Passed(y)
            /\ Newer(y)' = Newer(y) \ {st.info}
            /\ Passed(y)' \subseteq Passed(y) \ {st.info}
         \/ /\ ~UpdateEncoderInfos
            /\ Newer(y)' = Newer(y) /\ Passed(y)' \subseteq Passed(y)
         \/ /\ ~UpdateEncoderInfos
            /\ Newer(y)' = Newer(y)
            /\ \E i \in DOMAIN hw.jobs, z \in Newer(y) \ Restarts :
                  /\ Passed(y)' \subseteq Passed(y) \cup {z}
                  /\ EncodePart /\ hw'.jobs = JobsAfter(i)
                  /\ \E j \in DOMAIN hw.jobs :
                        j < i /\ hw.jobs[j].info = y /\ hw.jobs[j].overtaken < GetMaxReordering
  <1>1. /\ Passed(y)' \subseteq Newer(y)' /\ Passed(y) \subseteq Newer(y)
        /\ Newer(y) \subseteq Open
    BY DEF Passed, Newer
  <1>2. EncodePart => ~UpdateEncoderInfos /\ ~(WriteSections /\ st.first)
    BY DEF EncodePart, UpdateEncoderInfos, WriteSections, Goes, appVars, cbVars
  <1>3. CASE UpdateEncoderInfos
    <2>1. cur \notin Open /\ Newer(y)' = Newer(y) \cup {cur}
      BY <1>3, NewerMoves, NotDestroyed
    <2> QED BY <1>2, <1>3, <2>1, PassedMoves
  <1>4. CASE ~UpdateEncoderInfos /\ WriteSections /\ st.first
    <2>1. st.info \in Open /\ Open' = Open \ {st.info} /\ Newer(y)' = Newer(y) \cap Open'
      BY <1>4, OpenMoves, NewerMoves, NotDestroyed
    <2>2. Newer(y)' = Newer(y) \ {st.info}
      BY <1>1, <2>1
    <2>3. Passed(y)' \subseteq Passed(y)
      BY <1>2, <1>4, PassedMoves
    <2>4. st.info \in Newer(y) => st.info \in Passed(y)
      <3>1. cpc = "sections" /\ y # st.info
        BY <1>4, <2>1 DEF WriteSections
      <3> QED BY <1>4, <3>1 DEF Passed, GoesBefore, InCallback
    <2>5. CASE st.info \in Newer(y)
      BY <1>1, <1>4, <2>2, <2>3, <2>4, <2>5
    <2>6. CASE st.info \notin Newer(y)
      BY <1>4, <2>2, <2>3, <2>6
    <2> QED BY <2>5, <2>6
  <1>5. CASE ~UpdateEncoderInfos /\ ~(WriteSections /\ st.first)
    <2>1. Open' = Open /\ Newer(y)' = Newer(y) \cap Open'
      BY <1>5, OpenMoves, NewerMoves, NotDestroyed
    <2>2. Newer(y)' = Newer(y)
      BY <1>1, <2>1
    <2> QED BY <1>5, <2>2, PassedMoves
  <1> QED BY <1>3, <1>4, <1>5

\* How far a PPS is behind, with those that passed, does not grow faster than
\* the frames pushed after it, but by one when the frame is overtaken.
Overtaken(y) ==
    \E i \in DOMAIN hw.jobs :
        /\ EncodePart /\ hw'.jobs = JobsAfter(i)
        /\ \E j \in DOMAIN hw.jobs :
              j < i /\ hw.jobs[j].info = y /\ hw.jobs[j].overtaken < GetMaxReordering
LEMMA NearMoves ==
  ASSUME EncTypes, EncFrames, EncHeads, EncOrder, [EncNext]_encVars, Faultless,
         hw.alive, hw'.alive, NEW y \in Open, y \in Open', NEW n \in Nat,
         PpsBehind(y) + Cardinality(Passed(y)) <= Cardinality(Newer(y)) + n
  PROVE  \/ PpsBehind(y)' + Cardinality(Passed(y)') <= Cardinality(Newer(y)') + n
         \/ /\ PpsBehind(y)' + Cardinality(Passed(y)') <= Cardinality(Newer(y)') + n + 1
            /\ Overtaken(y)
  <1>1. PICK cur : cur = pool.iCurID
    OBVIOUS
  <1>2. y \in InfoID
    BY DEF Open
  <1> DEFINE b == PpsBehind(y)
             c == PpsBehind(y)'
             P == Passed(y)
             Q == Passed(y)'
             V == Newer(y)
             W == Newer(y)'
             O == Overtaken(y)
  <1>3. /\ b \in Nat /\ c \in Nat
        /\ UpdateEncoderInfos /\ cur \notin Open => c <= b + 1
        /\ ~UpdateEncoderInfos => c = b
    BY <1>1, <1>2, BehindMoves
  <1>4. b + Cardinality(P) <= Cardinality(V) + n
    OBVIOUS
  <1>5. \/ UpdateEncoderInfos /\ cur \notin Open /\ W = V \cup {cur} /\ Q \subseteq P
        \/ ~UpdateEncoderInfos /\ st.info \in P /\ W = V \ {st.info} /\ Q \subseteq P \ {st.info}
        \/ ~UpdateEncoderInfos /\ W = V /\ Q \subseteq P
        \/ ~UpdateEncoderInfos /\ W = V /\ O /\ \E z \in V : Q \subseteq P \cup {z}
    BY <1>1, AroundMoves DEF Overtaken
  <1>6. /\ V \in SUBSET InfoID /\ W \in SUBSET InfoID /\ P \in SUBSET InfoID
        /\ Q \in SUBSET InfoID /\ V \subseteq Open /\ P \subseteq V
    BY DEF Open, Newer, Passed
  <1> HIDE DEF b, c, P, Q, V, W, O
  <1>7. /\ Cardinality(V) \in Nat /\ Cardinality(W) \in Nat
        /\ Cardinality(P) \in Nat /\ Cardinality(Q) \in Nat
        /\ Q \subseteq P => Cardinality(Q) <= Cardinality(P)
    BY <1>6, IdCounts
  <1>8. CASE UpdateEncoderInfos /\ cur \notin Open /\ W = V \cup {cur} /\ Q \subseteq P
    <2>1. Cardinality(W) = Cardinality(V) + 1
      BY <1>6, <1>8, IdCounts
    <2> QED BY <1>3, <1>4, <1>7, <1>8, <2>1 DEF Q, W, c
  <1>9. CASE /\ ~UpdateEncoderInfos /\ st.info \in P /\ W = V \ {st.info}
             /\ Q \subseteq P \ {st.info}
    <2>1. st.info \in V /\ P \ {st.info} \in SUBSET InfoID
      BY <1>6, <1>9
    <2>2. /\ Cardinality(W) = Cardinality(V) - 1
          /\ Cardinality(P \ {st.info}) = Cardinality(P) - 1
          /\ Cardinality(Q) <= Cardinality(P \ {st.info})
      BY <1>6, <1>9, <2>1, IdCounts
    <2> QED BY <1>3, <1>4, <1>7, <1>9, <2>2 DEF Q, W, c
  <1>10. CASE ~UpdateEncoderInfos /\ W = V /\ Q \subseteq P
    BY <1>3, <1>4, <1>7, <1>10 DEF Q, W, c
  <1>11. CASE ~UpdateEncoderInfos /\ W = V /\ O /\ \E z \in V : Q \subseteq P \cup {z}
    <2>1. PICK z \in V : Q \subseteq P \cup {z}
      BY <1>11
    <2>2. Cardinality(Q) <= Cardinality(P) + 1
      <3>1. CASE Q \subseteq P
        BY <1>7, <3>1
      <3>2. CASE ~(Q \subseteq P)
        <4>1. z \notin P /\ P \cup {z} \in SUBSET InfoID
          BY <1>6, <2>1, <3>2
        <4>2. Cardinality(P \cup {z}) = Cardinality(P) + 1
          BY <1>6, <4>1, IdCounts
        <4> QED BY <2>1, <4>1, <4>2, IdCounts
      <3> QED BY <3>1, <3>2
    <2> QED BY <1>3, <1>4, <1>7, <1>11, <2>2 DEF Q, W, c, O
  <1> QED BY <1>5, <1>8, <1>9, <1>10, <1>11

LEMMA ReorderingIsNat == GetMaxReordering \in Nat
  <1> DEFINE S == {n \in {1, 3, 7, 15} : n <= uNumB}
  <1>1. S \in SUBSET (1 .. 15)
    OBVIOUS
  <1>2. IsFiniteSet(1 .. 15)
    <2>1. 1 \in Int /\ 15 \in Int
      OBVIOUS
    <2>2. \A a \in Int, b \in Int : IsFiniteSet(a .. b)
      BY FS_Interval
    <2> QED BY <2>1, <2>2
  <1>3. Cardinality(S) \in Nat
    BY <1>1, <1>2, FS_Subset, FS_CardinalityType
  <1> QED BY <1>3 DEF GetMaxReordering, GetMaxReordering_PyramidalGop

LEMMA PpsNearKept ==
  ASSUME EncTypes, EncFrames, EncHeads, EncOrder, [EncNext]_encVars, Faultless,
         hw.alive, hw'.alive, NEW y \in Open'
  PROVE  PpsBehind(y)' + Cardinality(Passed(y)') <= Cardinality(Newer(y)') + GetMaxReordering
  <1>1. PICK cur : cur = pool.iCurID
    OBVIOUS
  <1>2. /\ y \in InfoID /\ Newer(y)' \in SUBSET InfoID /\ Passed(y)' \in SUBSET InfoID
        /\ Passed(y)' \subseteq Newer(y)'
    BY DEF Open, Newer, Passed
  <1>3. GetMaxReordering \in Nat
    BY ReorderingIsNat
  <1>4. CASE y \notin Open
    <2>1. UpdateEncoderInfos /\ y = cur
      BY <1>1, <1>4, OpenMoves
    <2>2. Newer(y)' = {} /\ Passed(y)' = {}
      BY <1>1, <1>2, <2>1, NewerMoves, NotDestroyed
    <2>3. PpsBehind(y)' = 0
      BY <1>1, <1>2, <2>1, BehindMoves
    <2> QED BY <1>2, <1>3, <2>2, <2>3, IdCounts
  <1>5. CASE y \in Open
    <2>1. PpsBehind(y) + Cardinality(Passed(y)) <= Cardinality(Newer(y)) + GetMaxReordering
      BY <1>5 DEF EncOrder, PpsNear
    <2>2. CASE ~Overtaken(y)
      BY <1>3, <1>5, <2>1, <2>2, NearMoves
    <2>3. CASE Overtaken(y)
      <3>1. PICK j \in DOMAIN hw.jobs :
                hw.jobs[j].info = y /\ hw.jobs[j].overtaken < GetMaxReordering
        BY <2>3 DEF Overtaken
      <3>2. PICK n : n = hw.jobs[j].overtaken
        OBVIOUS
      <3>3. n \in Nat /\ n < GetMaxReordering
        <4>1. hw.jobs[j] \in JobSet
          BY ElementOfSeq, LenProperties DEF EncTypes, EncVarTypes, HwSet
        <4> QED BY <3>1, <3>2, <4>1 DEF JobSet
      <3>4. PpsBehind(y) + Cardinality(Passed(y)) <= Cardinality(Newer(y)) + n
        BY <3>1, <3>2 DEF EncOrder, PpsNear
      <3> DEFINE c == PpsBehind(y)' + Cardinality(Passed(y)')
                 w == Cardinality(Newer(y)')
      <3>5. c <= w + n \/ c <= w + n + 1
        BY <1>5, <3>3, <3>4, NearMoves
      <3>6. c \in Nat /\ w \in Nat
        <4>1. PpsBehind(y)' \in Nat
          BY <1>1, <1>2, BehindMoves
        <4>2. Cardinality(Passed(y)') \in Nat /\ w \in Nat
          BY <1>2, IdCounts
        <4> QED BY <4>1, <4>2
      <3> HIDE DEF c, w
      <3>7. c <= w + GetMaxReordering
        BY <1>3, <3>3, <3>5, <3>6
      <3> QED BY <3>7 DEF c, w
    <2> QED BY <2>2, <2>3
  <1> QED BY <1>4, <1>5

LEMMA SpsNearKept ==
  ASSUME EncTypes, EncFrames, EncHeads, EncOrder, [EncNext]_encVars, Faultless,
         hw.alive, hw'.alive, NEW y \in Open', NEW cur, cur = pool.iCurID
  PROVE  /\ SpsBehind(y)' <= Cardinality(Newer(y)' \cap Restarts')
         /\ Passed(y)' \cap Restarts' = {}
  <1>1. /\ Open \subseteq InfoID /\ Open' \subseteq InfoID /\ Restarts \subseteq Open
        /\ Newer(y) \in SUBSET InfoID /\ Newer(y)' \in SUBSET InfoID
        /\ Passed(y)' \subseteq Newer(y)' /\ Newer(y) \subseteq Open
        /\ Newer(y)' \subseteq Open'
    BY DEF Open, Newer, Passed, Restarts
  <1>2. y \in InfoID
    BY <1>1
  <1>3. CASE y \notin Open
    <2>1. UpdateEncoderInfos /\ y = cur
      BY <1>3, OpenMoves
    <2>2. Newer(y)' = {} /\ Passed(y)' = {}
      BY <1>1, <2>1, NewerMoves, NotDestroyed
    <2>3. SpsBehind(y)' = 0
      BY <1>2, <2>1, BehindMoves
    <2>4. Newer(y)' \cap Restarts' = {}
      BY <2>2
    <2> QED BY <1>1, <2>2, <2>3, <2>4, IdCounts
  <1>4. CASE y \in Open
    <2> DEFINE b == SpsBehind(y)
               c == SpsBehind(y)'
               P == Passed(y)
               Q == Passed(y)'
               V == Newer(y)
               W == Newer(y)'
               R == Restarts
               T == Restarts'
               new == chan.restart \/ hw.fresh
    <2>1. /\ b \in Nat /\ c \in Nat
          /\ UpdateEncoderInfos /\ cur \notin Open => c <= b + 1 /\ (~new => c = b)
          /\ ~UpdateEncoderInfos => c = b
      BY <1>2, <1>4, BehindMoves DEF EncOrder, SpsNear
    <2>2. b <= Cardinality(V \cap R) /\ P \cap R = {}
      BY <1>4 DEF EncOrder, SpsNear
    <2>3. \/ UpdateEncoderInfos /\ cur \notin Open /\ W = V \cup {cur} /\ Q \subseteq P
          \/ ~UpdateEncoderInfos /\ st.info \in P /\ W = V \ {st.info} /\ Q \subseteq P \ {st.info}
          \/ ~UpdateEncoderInfos /\ W = V /\ Q \subseteq P
          \/ ~UpdateEncoderInfos /\ W = V /\ \E z \in V \ R : Q \subseteq P \cup {z}
      BY <1>4, AroundMoves
    <2>4. /\ UpdateEncoderInfos => T = R \cup (IF new THEN {cur} ELSE {})
          /\ ~UpdateEncoderInfos => T = R \cap Open'
      BY RestartsMove, NotDestroyed
    <2>5. /\ V \in SUBSET InfoID /\ W \in SUBSET InfoID /\ V \subseteq Open /\ R \subseteq Open
          /\ W \subseteq Open' /\ P \subseteq V
      BY <1>1 DEF Passed
    <2> HIDE DEF b, c, P, Q, V, W, R, T, new
    <2>6. CASE UpdateEncoderInfos /\ cur \notin Open /\ W = V \cup {cur} /\ Q \subseteq P
      <3>1. Q \cap T = {}
        BY <2>2, <2>4, <2>5, <2>6
      <3>2. CASE ~new
        <4>1. W \cap T = V \cap R
          BY <2>4, <2>5, <2>6, <3>2
        <4>2. c <= Cardinality(V \cap R)
          BY <2>1, <2>2, <2>6, <3>2
        <4> QED BY <3>1, <4>1, <4>2 DEF Q, W, c, T
      <3>3. CASE new
        <4>1. W \cap T = (V \cap R) \cup {cur} /\ cur \notin V \cap R
          BY <2>4, <2>5, <2>6, <3>3
        <4> DEFINE X == V \cap R
        <4>2. X \in SUBSET InfoID /\ cur \notin X /\ b <= Cardinality(X)
          BY <2>2, <2>5, <4>1
        <4> HIDE DEF X
        <4>3. Cardinality(X \cup {cur}) = Cardinality(X) + 1 /\ Cardinality(X) \in Nat
          BY <4>2, IdCounts
        <4>4. c <= Cardinality(X \cup {cur})
          BY <2>1, <2>6, <4>2, <4>3
        <4>5. W \cap T = X \cup {cur}
          BY <4>1 DEF X
        <4> QED BY <3>1, <4>4, <4>5 DEF Q, W, c, T
      <3> QED BY <3>2, <3>3
    <2>7. CASE ~UpdateEncoderInfos
      <3>1. W \cap T = V \cap R
        BY <2>2, <2>3, <2>4, <2>5, <2>7
      <3>2. Q \cap T = {}
        BY <2>2, <2>3, <2>4, <2>5, <2>7
      <3>3. c <= Cardinality(V \cap R)
        BY <2>1, <2>2, <2>7
      <3> QED BY <3>1, <3>2, <3>3 DEF Q, W, c, T
    <2> QED BY <2>3, <2>6, <2>7
  <1> QED BY <1>3, <1>4

\* A job that waits is the one just sent, or it waited before and was overtaken
\* as often at least, and no more than the GOP pattern reorders.
LEMMA JobsLeft ==
  ASSUME EncTypes, EncFrames, [EncNext]_encVars, hw'.alive, NEW j \in DOMAIN hw'.jobs,
         \A k \in DOMAIN hw.jobs : hw.jobs[k].overtaken <= GetMaxReordering
  PROVE  \/ FrameSent /\ hw'.jobs[j] = Job
         \/ \E k \in DOMAIN hw.jobs :
               /\ hw.jobs[k].info = hw'.jobs[j].info
               /\ hw.jobs[k].overtaken <= hw'.jobs[j].overtaken
               /\ hw'.jobs[j].overtaken <= GetMaxReordering
  <1>1. /\ hw.jobs \in Seq(JobSet) /\ hw \in HwSet
        /\ DOMAIN hw.jobs = 1 .. Len(hw.jobs) /\ Len(hw.jobs) \in Nat
    BY LenProperties DEF EncTypes, EncVarTypes, HwSet
  <1>2. \A k \in DOMAIN hw.jobs : hw.jobs[k].overtaken \in Nat
    <2> SUFFICES ASSUME NEW k \in DOMAIN hw.jobs PROVE hw.jobs[k].overtaken \in Nat
      OBVIOUS
    <2>1. hw.jobs[k] \in JobSet
      BY <1>1, ElementOfSeq
    <2> QED BY <2>1 DEF JobSet
  <1>3. CASE FrameSent
    <2>1. hw'.jobs = Append(hw.jobs, Job)
      BY <1>3, JobSent
    <2>2. /\ DOMAIN hw'.jobs = 1 .. Len(hw.jobs) + 1 /\ hw'.jobs[Len(hw.jobs) + 1] = Job
          /\ \A k \in 1 .. Len(hw.jobs) : hw'.jobs[k] = hw.jobs[k]
      BY <1>1, <2>1, AppendPlaces
    <2>3. CASE j \in 1 .. Len(hw.jobs)
      BY <1>1, <1>2, <2>2, <2>3
    <2>4. CASE j = Len(hw.jobs) + 1
      BY <1>3, <2>2, <2>4
    <2> QED BY <1>1, <2>2, <2>3, <2>4
  <1>4. CASE EncodePart
    <2>1. \/ hw'.jobs = hw.jobs
          \/ \E i \in DOMAIN hw.jobs : MayEncode(i) /\ hw'.jobs = JobsAfter(i)
      BY <1>4, PartEncoded
    <2>2. ASSUME NEW i \in DOMAIN hw.jobs, MayEncode(i), hw'.jobs = JobsAfter(i)
          PROVE  \E k \in DOMAIN hw.jobs :
                    /\ hw.jobs[k].info = hw'.jobs[j].info
                    /\ hw.jobs[k].overtaken <= hw'.jobs[j].overtaken
                    /\ hw'.jobs[j].overtaken <= GetMaxReordering
      <3>1. PICK k : k = IF j < i THEN j ELSE j + 1
        OBVIOUS
      <3>2. /\ k \in DOMAIN hw.jobs /\ hw'.jobs[j].info = hw.jobs[k].info
            /\ hw'.jobs[j].overtaken = IF j < i THEN hw.jobs[k].overtaken + 1
                                       ELSE hw.jobs[k].overtaken
        BY <1>1, <2>2, <3>1, JobsAfterIs
      <3>3. ASSUME j < i PROVE hw.jobs[k].overtaken < GetMaxReordering
        <4>1. k \in 1 .. i - 1
          BY <1>1, <3>1, <3>2, <3>3
        <4> QED BY <2>2, <4>1 DEF MayEncode
      <3> QED BY <1>2, <3>2, <3>3, ReorderingIsNat
    <2> QED BY <1>2, <2>1, <2>2
  <1>5. CASE ~FrameSent /\ ~EncodePart
    <2>1. hw'.jobs = hw.jobs
      BY <1>5, QueueMoves, DriverMoves
    <2> QED BY <1>2, <2>1
  <1> QED BY <1>3, <1>4, <1>5

LEMMA JobsInOrderStep ==
  ASSUME EncTypes, EncFrames, JobsInOrder, [EncNext]_encVars, hw'.alive
  PROVE  JobsInOrder'
  <1>1. hw.jobs \in Seq(JobSet) /\ hw \in HwSet /\ FramesAgree /\ next \in Nat
    BY DEF EncTypes, EncVarTypes, HwSet, EncFrames, ThreadsAgree
  <1>2. /\ DOMAIN hw.jobs = 1 .. Len(hw.jobs) /\ Len(hw.jobs) \in Nat
        /\ \A i \in DOMAIN hw.jobs : hw.jobs[i] \in JobSet
    BY <1>1, LenProperties, ElementOfSeq
  <1>3. CASE FrameSent
    <2>1. hw'.jobs = Append(hw.jobs, Job) /\ Job.frame = next /\ apc = "send"
      BY <1>3, JobSent DEF FrameSent
    <2>2. \A i \in DOMAIN hw.jobs : hw.jobs[i].frame < next
      BY <1>1, <2>1 DEF FramesAgree, PartsHeld, HasSlot, HeldBy
    <2>3. /\ DOMAIN hw'.jobs = 1 .. Len(hw.jobs) + 1 /\ hw'.jobs[Len(hw.jobs) + 1] = Job
          /\ \A i \in 1 .. Len(hw.jobs) : hw'.jobs[i] = hw.jobs[i]
      BY <1>1, <2>1, AppendPlaces
    <2>4. ASSUME NEW i \in DOMAIN hw'.jobs, NEW j \in DOMAIN hw'.jobs, i < j
          PROVE  hw'.jobs[i].frame < hw'.jobs[j].frame
      <3>1. i \in DOMAIN hw.jobs /\ hw'.jobs[i] = hw.jobs[i]
        BY <1>2, <2>3, <2>4
      <3>2. CASE j \in DOMAIN hw.jobs
        BY <1>2, <2>3, <2>4, <3>1, <3>2 DEF JobsInOrder
      <3>3. CASE j = Len(hw.jobs) + 1
        BY <2>1, <2>2, <2>3, <3>1, <3>3
      <3> QED BY <1>2, <2>3, <3>2, <3>3
    <2> QED BY <2>4 DEF JobsInOrder
  <1>4. CASE EncodePart
    <2>1. hw'.jobs = hw.jobs \/ \E i \in DOMAIN hw.jobs : hw'.jobs = JobsAfter(i)
      BY <1>4, PartEncoded
    <2>2. ASSUME NEW n \in DOMAIN hw.jobs, hw'.jobs = JobsAfter(n),
                 NEW i \in DOMAIN hw'.jobs, NEW j \in DOMAIN hw'.jobs, i < j
          PROVE  hw'.jobs[i].frame < hw'.jobs[j].frame
      <3> DEFINE k == IF i < n THEN i ELSE i + 1
                 l == IF j < n THEN j ELSE j + 1
      <3>1. /\ k \in DOMAIN hw.jobs /\ hw'.jobs[i].frame = hw.jobs[k].frame
            /\ l \in DOMAIN hw.jobs /\ hw'.jobs[j].frame = hw.jobs[l].frame
        BY <1>1, <2>2, JobsAfterIs
      <3>2. i \in Nat /\ j \in Nat /\ n \in Nat
        BY <1>2, <2>2 DEF JobsAfter
      <3>3. k < l
        BY <2>2, <3>2
      <3> QED BY <3>1, <3>3 DEF JobsInOrder
    <2>3. CASE hw'.jobs = hw.jobs
      BY <2>3 DEF JobsInOrder
    <2>4. CASE \E i \in DOMAIN hw.jobs : hw'.jobs = JobsAfter(i)
      BY <2>2, <2>4 DEF JobsInOrder
    <2> QED BY <2>1, <2>3, <2>4
  <1>5. CASE ~FrameSent /\ ~EncodePart
    <2>1. hw'.jobs = hw.jobs
      BY <1>5, QueueMoves, DriverMoves
    <2> QED BY <2>1 DEF JobsInOrder
  <1> QED BY <1>3, <1>4, <1>5

\* While a job waits no more frames have gone before it than have overtaken it.
LEMMA JobsNearKept ==
  ASSUME EncTypes, EncFrames, EncHeads, EncOrder, [EncNext]_encVars, Faultless,
         hw.alive, hw'.alive, NEW j \in DOMAIN hw'.jobs, NEW y, y = hw'.jobs[j].info
  PROVE  /\ hw'.jobs[j].overtaken <= GetMaxReordering
         /\ PpsBehind(y)' + Cardinality(Passed(y)')
                <= Cardinality(Newer(y)') + hw'.jobs[j].overtaken
  <1>1. PICK cur : cur = pool.iCurID
    OBVIOUS
  <1>2. PICK m : m = hw'.jobs[j].overtaken
    OBVIOUS
  <1>3. FramesAgree /\ apc # "destroyed" /\ PpsNear /\ hw \in HwSet /\ hw' \in HwSet
    BY HwType DEF EncFrames, EncTypes, EncVarTypes, ThreadsAgree, EncOrder
  <1>4. hw'.jobs[j] \in JobSet /\ \A k \in DOMAIN hw.jobs : hw.jobs[k] \in JobSet
    BY <1>3, ElementOfSeq, LenProperties DEF HwSet
  <1>5. y \in Open' /\ y \in InfoID /\ m \in Nat
    BY <1>2, <1>4 DEF JobSet, Open
  <1>6. /\ Newer(y)' \in SUBSET InfoID /\ Passed(y)' \in SUBSET InfoID
        /\ Passed(y)' \subseteq Newer(y)'
    BY DEF Open, Newer, Passed
  <1>7. PpsBehind(y)' \in Nat
    BY <1>1, <1>5, BehindMoves
  <1>8. Cardinality(Passed(y)') \in Nat /\ Cardinality(Newer(y)') \in Nat
    BY <1>6, IdCounts
  <1>9. \A k \in DOMAIN hw.jobs : hw.jobs[k].overtaken <= GetMaxReordering
    BY <1>3 DEF PpsNear
  <1>10. CASE FrameSent /\ hw'.jobs[j] = Job
    <2>1. y = cur /\ m = 0 /\ apc = "send" /\ ~UpdateEncoderInfos
      BY <1>1, <1>2, <1>10, JobSent DEF FrameSent, UpdateEncoderInfos
    <2>2. PpsBehind(y) = 0 /\ y \in Open
      BY <1>1, <1>3, <1>5, <2>1 DEF PpsNear, Open
    <2>3. PpsBehind(y)' = 0
      BY <1>5, <2>1, <2>2, BehindMoves
    <2>4. Newer(y) = {}
      <3>1. FrameNo(y) = next /\ next \in Nat
        BY <1>1, <1>3, <2>1, <2>2, OpenFrames DEF InSource, EncTypes, ThreadsAgree
      <3>2. \A z \in Open : FrameNo(z) \in Nat /\ FrameNo(z) <= next
        BY <1>3, OpenFrames, <3>1
      <3> QED BY <3>1, <3>2 DEF Newer
    <2>5. Newer(y)' = {} /\ Passed(y)' = {}
      BY <1>5, <1>6, <2>1, <2>4, NewerMoves
    <2>6. 0 <= GetMaxReordering
      BY ReorderingIsNat
    <2> QED BY <1>2, <2>1, <2>3, <2>5, <2>6, IdCounts
  <1>11. CASE ~(FrameSent /\ hw'.jobs[j] = Job)
    <2>1. PICK k \in DOMAIN hw.jobs :
                hw.jobs[k].info = y /\ hw.jobs[k].overtaken <= m /\ m <= GetMaxReordering
      BY <1>2, <1>9, <1>11, JobsLeft
    <2>2. PICK n : n = hw.jobs[k].overtaken
      OBVIOUS
    <2>3. n \in Nat /\ n <= m /\ y \in Open
      BY <1>4, <1>5, <2>1, <2>2 DEF JobSet, Open
    <2>4. PpsBehind(y) + Cardinality(Passed(y)) <= Cardinality(Newer(y)) + n
      BY <1>3, <2>1, <2>2 DEF PpsNear
    <2>5. ASSUME Overtaken(y) PROVE m = n + 1
      <3>1. PICK i \in DOMAIN hw.jobs, l \in DOMAIN hw.jobs :
                hw'.jobs = JobsAfter(i) /\ l < i /\ hw.jobs[l].info = y
        BY <2>5 DEF Overtaken
      <3>2. PICK o : o = IF j < i THEN j ELSE j + 1
        OBVIOUS
      <3>3. /\ o \in DOMAIN hw.jobs /\ hw.jobs[o].info = y
            /\ m = IF j < i THEN hw.jobs[o].overtaken + 1 ELSE hw.jobs[o].overtaken
        BY <1>2, <1>3, <3>1, <3>2, JobsAfterIs
      <3>4. o = k /\ l = k
        BY <1>3, <2>1, <3>1, <3>3, JobAlone
      <3>5. j \in Nat /\ i \in Nat
        BY <1>3, LenProperties DEF HwSet
      <3>6. j < i
        BY <3>1, <3>2, <3>4, <3>5
      <3> QED BY <2>2, <3>3, <3>4, <3>6
    <2> DEFINE c == PpsBehind(y)' + Cardinality(Passed(y)')
               w == Cardinality(Newer(y)')
    <2>6. c <= w + n \/ (c <= w + n + 1 /\ Overtaken(y))
      BY <1>5, <2>3, <2>4, NearMoves
    <2>7. c \in Nat /\ w \in Nat
      BY <1>7, <1>8
    <2> HIDE DEF c, w
    <2>8. c <= w + m
      BY <1>5, <2>3, <2>5, <2>6, <2>7
    <2> QED BY <1>2, <2>1, <2>8 DEF c, w
  <1> QED BY <1>10, <1>11

\* The frame being pushed has the last ids, and the SPS of the channel is the
\* last one unless the next frame restarts the GOP.
LEMMA LastIdsKept ==
  ASSUME EncTypes, EncFrames, EncHeads, EncOrder, [EncNext]_encVars, Faultless,
         hw.alive, hw'.alive, NEW cur, cur = pool'.iCurID
  PROVE  /\ apc' \in {"hls", "send"} => PpsBehind(cur)' = 0 /\ SameSps(heads', chan'.dim)
         /\ SameSps(heads', chan'.dim) \/ chan'.restart \/ hw'.fresh
  <1>1. /\ heads \in HeadsSet /\ heads' \in HeadsSet /\ chan \in ChanSet
        /\ heads.iPrevSps \in SpsID /\ ~FrameRefused
        /\ apc \in {"hls", "send"} => pool.iCurID \in InfoID
    BY HeadsType DEF EncTypes, EncVarTypes, ThreadsAgree, HeadsSet, FrameRefused, Faultless
  <1>2. /\ apc \in {"hls", "send"} => PpsBehind(pool.iCurID) = 0 /\ SameSps(heads, chan.dim)
        /\ SameSps(heads, chan.dim) \/ chan.restart \/ hw.fresh
    BY DEF EncOrder, PpsNear, SpsNear
  <1>3. CASE UpdateEncoderInfos
    <2>1. cur = pool.iCurID /\ chan' = chan /\ cur \in InfoID
      BY <1>3, PoolFrames DEF UpdateEncoderInfos, GetFrameInfo, EncTypes, ThreadsAgree
    <2>2. PpsBehind(cur)' = 0
      BY <1>3, <2>1, BehindMoves
    <2>3. SameSps(heads', chan'.dim)
      BY <1>3, <2>1, LastIdsMove DEF SameSps
    <2> QED BY <2>2, <2>3
  <1>4. CASE ~UpdateEncoderInfos
    <2>1. \A d : SameSps(heads', d) <=> SameSps(heads, d)
      BY <1>1, <1>4, LastIdsMove DEF SameSps
    <2>2. CASE FrameSent
      <3>1. apc = "send" /\ apc' = "idle" /\ chan'.dim = chan.dim
        BY <1>1, <2>2 DEF FrameSent, Returns, ChanSet
      <3> QED BY <1>2, <2>1, <3>1
    <2>3. CASE ~FrameSent
      <3>1. /\ chan'.restart = chan.restart \/ SetParameters
            /\ chan'.dim = chan.dim \/ (SetParameters /\ chan'.restart = TRUE)
            /\ SetParameters => apc = "idle" /\ apc' = "idle"
            /\ hw'.fresh = hw.fresh
            /\ chan.restart => chan'.restart
        BY <1>1, <2>3, RequestMoves
      <3>2. apc' \in {"hls", "send"} => apc \in {"hls", "send"} /\ cur = pool.iCurID
        BY <1>4, <2>3, LaunchStays
      <3>3. ASSUME apc' \in {"hls", "send"} PROVE PpsBehind(cur)' = 0
        BY <1>1, <1>2, <1>4, <3>2, <3>3, BehindMoves
      <3> QED BY <1>2, <2>1, <3>1, <3>2, <3>3
    <2> QED BY <2>2, <2>3
  <1> QED BY <1>3, <1>4

LEMMA EncOrderInit == EncInit => EncOrder
  <1> SUFFICES ASSUME EncInit PROVE EncOrder
    OBVIOUS
  <1>1. /\ hw.jobs = <<>> /\ apc = "idle" /\ hw.fresh = TRUE
    BY DEF EncInit
  <1>2. Open = {}
    BY DEF EncInit, Open
  <1> QED BY <1>1, <1>2 DEF EncOrder, JobsInOrder, PpsNear, SpsNear

LEMMA EncOrderStep ==
  ASSUME EncTypes, EncFrames, EncHeads, EncOrder, [EncNext]_encVars
  PROVE  EncOrder'
  <1> SUFFICES ASSUME Faultless, hw.alive, hw'.alive
               PROVE  JobsInOrder' /\ PpsNear' /\ SpsNear'
    <2>1. program' = program /\ (hw'.alive => hw.alive)
      BY Writers, DriverMoves DEF DestroyChannel
    <2> QED BY <2>1 DEF EncOrder, Faultless, Refusals, Errors
  <1>1. JobsInOrder'
    BY JobsInOrderStep DEF EncOrder
  <1>2. PICK cur : cur = pool.iCurID
    OBVIOUS
  <1>3. \A y \in Open' :
           /\ PpsBehind(y)' + Cardinality(Passed(y)')
                  <= Cardinality(Newer(y)') + GetMaxReordering
           /\ SpsBehind(y)' <= Cardinality(Newer(y)' \cap Restarts')
           /\ Passed(y)' \cap Restarts' = {}
    BY <1>2, PpsNearKept, SpsNearKept
  <1>4. ASSUME NEW j \in DOMAIN hw'.jobs
        PROVE  /\ hw'.jobs[j].overtaken <= GetMaxReordering
               /\ PpsBehind(hw.jobs[j].info)' + Cardinality(Passed(hw.jobs[j].info)')
                      <= Cardinality(Newer(hw.jobs[j].info)') + hw'.jobs[j].overtaken
    <2>1. PICK y : y = hw'.jobs[j].info
      OBVIOUS
    <2>2. /\ hw'.jobs[j].overtaken <= GetMaxReordering
          /\ PpsBehind(y)' + Cardinality(Passed(y)')
                 <= Cardinality(Newer(y)') + hw'.jobs[j].overtaken
      BY <2>1, JobsNearKept
    <2>3. /\ Passed(hw.jobs[j].info)' = Passed(y)' /\ Newer(hw.jobs[j].info)' = Newer(y)'
          /\ PpsBehind(hw.jobs[j].info)' = PpsBehind(y)'
      BY <2>1 DEF Passed, Newer, PpsBehind, GoesBefore, InCallback, FirstOf, FrameNo
    <2> QED BY <2>2, <2>3
  <1>5. /\ apc' \in {"hls", "send"} => PpsBehind(pool.iCurID)' = 0 /\ SameSps(heads', chan'.dim)
        /\ SameSps(heads', chan'.dim) \/ chan'.restart \/ hw'.fresh
    <2>1. PICK y : y = pool'.iCurID
      OBVIOUS
    <2>2. PpsBehind(pool.iCurID)' = PpsBehind(y)'
      BY <2>1 DEF PpsBehind
    <2> QED BY <2>1, <2>2, LastIdsKept
  <1>6. PpsNear'
    BY <1>3, <1>4, <1>5 DEF PpsNear
  <1>7. SpsNear'
    BY <1>3, <1>5 DEF SpsNear, SameSps
  <1> QED BY <1>1, <1>6, <1>7

---------------------------------------------------------------------------
(* No frame-info id is lost *)

Named == IF apc = "source" THEN 1 ELSE 0
Handed == IF cpc = "give" THEN 1 ELSE 0
LEMMA IdsInUseIs ==
  /\ IdsInUse = Cardinality(Sent) + Named + Handed
  /\ IdsInUse' = Cardinality(Sent') + Named' + Handed'
  /\ Cardinality(Sent) \in Nat /\ Named \in Nat /\ Handed \in Nat
  /\ Cardinality(Sent') \in Nat /\ Named' \in Nat /\ Handed' \in Nat
  BY SentFinite DEF IdsInUse, Named, Handed

LEMMA AllIdsKnownInit == EncInit => AllIdsKnown
  <1> SUFFICES ASSUME EncInit PROVE AllIdsKnown
    OBVIOUS
  <1>1. Sent = {} /\ apc = "idle" /\ cpc = "wait"
    BY FramesInit DEF EncInit
  <1>2. Len(pool.free) = ENC_MAX_CMD
    <2> DEFINE f == [k \in 1 .. ENC_MAX_CMD |-> k - 1]
    <2>1. ENC_MAX_CMD \in Nat /\ f \in [1 .. ENC_MAX_CMD -> Int]
      BY Ranges
    <2>2. DOMAIN f = 1 .. ENC_MAX_CMD /\ f \in Seq(Int)
      BY <2>1, FunctionIsSeq
    <2>3. pool.free = f
      BY DEF EncInit
    <2> HIDE DEF f
    <2> QED BY <2>1, <2>2, <2>3, LenProperties
  <1>3. Cardinality({}) = 0
    BY FS_EmptySet
  <1> QED BY <1>1, <1>2, <1>3, Ranges DEF AllIdsKnown, IdsInUse

LEMMA AllIdsKnownStep ==
  ASSUME EncTypes, FramesAgree, AllIdsKnown, [EncNext]_encVars
  PROVE  AllIdsKnown'
  <1>1. program' = program
    BY Writers
  <1> SUFFICES ASSUME ~Refusals, apc' # "destroyed"
               PROVE  Len(pool'.free) + IdsInUse' = ENC_MAX_CMD
    BY <1>1 DEF AllIdsKnown, Refusals
  <1>2. /\ ~FrameRefused /\ apc # "destroyed" /\ ~ReleaseAll
        /\ pool.free \in Seq(InfoID) /\ ENC_MAX_CMD \in Nat
    <2>1. apc = "destroyed" => apc' = apc
      BY NothingAfterDestroy DEF encVars, appVars
    <2> QED BY <2>1, Ranges
            DEF FrameRefused, ReleaseAll, Goes, EncTypes, EncVarTypes, PoolSet
  <1>3. Len(pool.free) + IdsInUse = ENC_MAX_CMD /\ Len(pool.free) \in Nat
    BY <1>2, LenProperties DEF AllIdsKnown
  <1>4. CASE GetFrameInfo
    <2>1. /\ Len(pool'.free) = Len(pool.free) - 1
      BY <1>4, FrameInfoTaken, TailRange
    <2>2. /\ apc = "info" /\ apc' = "source" /\ cpc' = cpc /\ SourceSent' = SourceSent
      BY <1>4 DEF GetFrameInfo, Goes, cbVars
    <2>3. Named = 0 /\ Named' = 1 /\ Handed' = Handed /\ Sent' = Sent
      BY <2>2 DEF Named, Handed, Sent
    <2> QED BY <1>2, <1>3, <2>1, <2>3, IdsInUseIs
  <1>5. CASE IdsGivenBack
    <2>1. st.info \in InfoID
      BY <1>5 DEF IdsGivenBack, EncTypes, ThreadsAgree, Busy
    <2>2. Len(pool'.free) = Len(pool.free) + 1
      BY <1>5, <2>1, FrameInfoGiven, AppendRange
    <2>3. cpc = "give" /\ cpc' = "post" /\ apc' = apc /\ SourceSent' = SourceSent
      BY <1>5 DEF IdsGivenBack, CallbackGoes, appVars
    <2>4. Handed = 1 /\ Handed' = 0 /\ Named' = Named /\ Sent' = Sent
      BY <2>3 DEF Named, Handed, Sent
    <2> QED BY <1>2, <1>3, <2>2, <2>4, IdsInUseIs
  <1>6. CASE AddSourceSent
    <2>1. apc = "source" /\ apc' = "infos" /\ cpc' = cpc /\ pool' = pool
      BY <1>6 DEF AddSourceSent, Goes, cbVars
    <2>2. Named = 1 /\ Named' = 0 /\ Handed' = Handed
      BY <2>1 DEF Named, Handed
    <2>3. Cardinality(Sent') = Cardinality(Sent) + 1
      BY <1>2, <1>6, <2>1, SentMoves DEF SourceReleased, CallbackGoes
    <2> QED BY <1>2, <1>3, <2>1, <2>2, <2>3, IdsInUseIs
  <1>7. CASE SourceReleased
    <2>1. cpc = "source" /\ cpc' = "give" /\ apc' = apc /\ pool' = pool
      BY <1>7 DEF SourceReleased, CallbackGoes, appVars
    <2>2. Handed = 0 /\ Handed' = 1 /\ Named' = Named
      BY <2>1 DEF Named, Handed
    <2>3. Cardinality(Sent') = Cardinality(Sent) - 1
      BY <1>2, <1>7, <2>1, SentMoves DEF AddSourceSent, Goes
    <2> QED BY <1>2, <1>3, <2>1, <2>2, <2>3, IdsInUseIs
  <1>8. CASE ~GetFrameInfo /\ ~IdsGivenBack /\ ~AddSourceSent /\ ~SourceReleased
    <2>1. pool'.free = pool.free
      BY <1>8, PoolFrames
    <2>2. Cardinality(Sent') = Cardinality(Sent)
      BY <1>2, <1>8, SentMoves
    <2>3. /\ PutTakesSlot \/ TakeHdrID \/ ProcessEnters \/ DestroyChannel => apc = "idle"
          /\ ReleaseAll => apc = "join"
      BY DEF PutTakesSlot, TakeHdrID, ProcessEnters, DestroyChannel, ReleaseAll, Call
    <2>4. Named' = Named
      BY <1>8, <2>3, AppMoves DEF Named
    <2>5. Handed' = Handed
      BY <1>8, CallbackMoves DEF Handed
    <2> QED BY <1>2, <1>3, <2>1, <2>2, <2>4, <2>5, IdsInUseIs
  <1> QED BY <1>4, <1>5, <1>6, <1>7, <1>8

\* Where nothing fails, the PPS of a frame whose headers are not written is
\* behind the last PPS given by at most the number of frames pushed after it
\* and as many places more as frames of the GOP may pass it (GetMaxReordering:
\* one in the default GOP, up to four in a pyramid), and its SPS by at most
\* the number of those that restart the GOP, which pass nothing; and every
\* frame-info id is free or has a token.
THEOREM EncPoolsAlways == EncSpec => [](EncTypes /\ EncFrames /\ EncHeads /\ EncPools)
  <1> DEFINE Inv == EncTypes /\ EncFrames /\ EncHeads /\ EncPools
  <1>1. EncInit => Inv
    BY EncTypesInit, EncFramesInit, EncHeadsInit, EncOrderInit, AllIdsKnownInit DEF EncPools
  <1>2. Inv /\ [EncNext]_encVars => Inv'
    BY EncTypesStep, EncFramesStep, EncHeadsStep, EncOrderStep, AllIdsKnownStep
       DEF EncPools, EncFrames
  <1> QED BY <1>1, <1>2, PTL DEF EncSpec

---------------------------------------------------------------------------
(* A token is enough *)

\* A set that a function reaches from S is no larger than S.
LEMMA ReachedIsSmaller ==
  ASSUME NEW S, IsFiniteSet(S), NEW f, NEW T, \A t \in T : \E s \in S : f[s] = t
  PROVE  IsFiniteSet(T) /\ Cardinality(T) \in Nat /\ Cardinality(T) <= Cardinality(S)
  <1> DEFINE U == {f[s] : s \in S}
             g == [s \in S |-> f[s]]
  <1>1. g \in Surjection(S, U)
    BY DEF Surjection
  <1>2. T \in SUBSET U
    OBVIOUS
  <1> HIDE DEF U, g
  <1>3. IsFiniteSet(U) /\ Cardinality(U) <= Cardinality(S)
    BY <1>1, FS_Surjection
  <1>4. IsFiniteSet(T) /\ Cardinality(T) <= Cardinality(U)
    BY <1>2, <1>3, FS_Subset
  <1>5. Cardinality(S) \in Nat /\ Cardinality(T) \in Nat /\ Cardinality(U) \in Nat
    BY <1>3, <1>4, FS_CardinalityType
  <1> QED BY <1>3, <1>4, <1>5

\* The frames in flight, and those that the callback is giving back, have a
\* token each.
LEMMA FewFrames ==
  ASSUME EncTypes, EncFrames, apc # "destroyed"
  PROVE  /\ Cardinality(Sent) \in Nat
         /\ Cardinality(Sent) + (IF apc \in {"info", "source"} THEN 1 ELSE 0) + Handed
                <= AL_MAX_NUM_B_PICT + 2
         /\ \A T : (\A id \in T : \E s \in Sent : InfoOf(s) = id)
                       => Cardinality(T) \in Nat /\ Cardinality(T) <= Cardinality(Sent)
  <1>1. PendingEncodings \in Nat /\ PendingEncodings + Taken <= ENC_MAX_CMD - 1
        /\ ENC_MAX_CMD \in Nat
    BY Ranges DEF EncFrames, TokensAgree
  <1>2. ENC_MAX_CMD = AL_MAX_NUM_B_PICT + 3 /\ AL_MAX_NUM_B_PICT \in Nat
    BY EncAssumption DEF ENC_MAX_CMD
  <1>3. Handed <= Giving /\ Handed \in Nat
    BY DEF Handed, Giving
  <1>4. Cardinality(Sent) \in Nat /\ Taken = Cardinality(Sent) + Pushing + Giving
        /\ Giving \in Nat /\ Pushing \in Nat
    BY TakenIs
  <1>5. ASSUME NEW T, \A id \in T : \E s \in Sent : InfoOf(s) = id
        PROVE  Cardinality(T) \in Nat /\ Cardinality(T) <= Cardinality(Sent)
    <2> DEFINE f == [s \in Sent |-> InfoOf(s)]
    <2>1. \A t \in T : \E s \in Sent : f[s] = t
      BY <1>5
    <2> HIDE DEF f
    <2> QED BY <2>1, ReachedIsSmaller, SentFinite
  <1>6. Cardinality(Sent) + Pushing + Handed <= AL_MAX_NUM_B_PICT + 2
    BY <1>1, <1>2, <1>3, <1>4
  <1> QED BY <1>4, <1>5, <1>6 DEF Pushing

LEMMA NewerAreFew ==
  ASSUME EncTypes, EncFrames, apc = "infos", NEW y \in Open
  PROVE  Cardinality(Newer(y)) \in Nat /\ Cardinality(Newer(y)) <= AL_MAX_NUM_B_PICT
  <1>1. FramesAgree /\ apc # "destroyed" /\ InSource
    BY DEF EncFrames, InSource
  <1>2. \E s \in Sent : InfoOf(s) = pool.iCurID
    BY <1>1 DEF FramesAgree, CurrentAgrees, InfoOf
  <1>3. \A z \in Open : (\E s \in Sent : InfoOf(s) = z) /\ FrameNo(z) \in Nat
    BY <1>1, OpenFrames
  <1>4. pool.iCurID \notin Open
    <2>1. \A p : HasSlot(p) => p.info # pool.iCurID
      BY <1>1, SlotsOfParts
    <2> QED BY <1>1, <2>1, QueuedParts, OpenIs DEF Active
  <1>5. Newer(y) \subseteq Open /\ y \notin Newer(y)
    BY <1>3 DEF Newer
  <1>6. Open \subseteq InfoID /\ pool.iCurID \in InfoID
    BY <1>1 DEF Open, InSource, EncTypes, ThreadsAgree
  <1> DEFINE V == Newer(y)
             c == pool.iCurID
             W == V \cup {y}
             X == W \cup {c}
  <1>7. \A id \in X : \E s \in Sent : InfoOf(s) = id
    BY <1>2, <1>3, <1>5
  <1>8. V \in SUBSET InfoID /\ W \in SUBSET InfoID /\ y \notin V /\ c \notin W
    BY <1>4, <1>5, <1>6
  <1> HIDE DEF V, c, X
  <1>9. Cardinality(X) <= Cardinality(Sent) /\ Cardinality(Sent) \in Nat
        /\ Cardinality(Sent) + Handed <= AL_MAX_NUM_B_PICT + 2
        /\ Cardinality(X) \in Nat
    BY <1>1, <1>7, FewFrames DEF InSource, Handed
  <1>10. Cardinality(W) = Cardinality(V) + 1 /\ Cardinality(V) \in Nat
    BY <1>8, IdCounts
  <1> HIDE DEF W
  <1>11. Cardinality(X) = Cardinality(W) + 1
    BY <1>8, IdCounts DEF X
  <1>12. AL_MAX_NUM_B_PICT \in Nat /\ Handed \in Nat
    BY EncAssumption DEF Handed
  <1>13. Cardinality(V) <= AL_MAX_NUM_B_PICT
    BY <1>9, <1>10, <1>11, <1>12
  <1> QED BY <1>10, <1>13 DEF V

\* The ids after the last ones given are not those of a frame whose headers
\* are not written.
LEMMA NextIdsUnused ==
  ASSUME EncTypes, EncFrames, EncHeads, EncOrder, Faultless, apc = "infos"
  PROVE  /\ GetMaxReordering <= 2 => heads.pps[(heads.iPrevPps + 1) % MAX_PPS_IDS].iRefCnt = 0
         /\ iMaxSpsIds >= AL_MAX_NUM_B_PICT + 2 =>
                heads.sps[(heads.iPrevSps + 1) % iMaxSpsIds].iRefCnt = 0
  <1> DEFINE N == iMaxSpsIds
             M == MAX_PPS_IDS
             B == AL_MAX_NUM_B_PICT
             R == GetMaxReordering
             x == (heads.iPrevSps + 1) % N
             z == (heads.iPrevPps + 1) % M
  <1>1. hw.alive /\ PpsNear /\ SpsNear /\ pool \in PoolSet
    BY DEF EncTypes, EncVarTypes, ThreadsAgree, EncOrder
  <1>2. /\ heads.iPrevSps \in SpsID /\ heads.iPrevPps \in PpsID /\ x \in SpsID /\ z \in PpsID
    BY Ranges DEF EncTypes, EncVarTypes, HeadsSet
  <1>3. N \in Nat /\ N > 0 /\ M = B + 4 /\ B \in Nat /\ M \in Nat /\ M > 0 /\ R \in Nat
    BY EncAssumption, ReorderingIsNat DEF MAX_PPS_IDS
  <1>4. ASSUME NEW y \in Open
        PROVE  /\ pool.info[y].uSpsId \in SpsID /\ pool.info[y].uPpsId \in PpsID
               /\ PpsBehind(y) <= B + R /\ SpsBehind(y) <= B
    <2>1. y \in InfoID
      BY DEF Open
    <2>2. pool.info[y].uSpsId \in SpsID /\ pool.info[y].uPpsId \in PpsID
      BY <1>1, <2>1 DEF PoolSet, InfoSet
    <2>3. Cardinality(Newer(y)) \in Nat /\ Cardinality(Newer(y)) <= B
      BY NewerAreFew
    <2>4. /\ PpsBehind(y) + Cardinality(Passed(y)) <= Cardinality(Newer(y)) + R
          /\ SpsBehind(y) <= Cardinality(Newer(y) \cap Restarts)
      BY <1>1 DEF PpsNear, SpsNear
    <2>5. Cardinality(Passed(y)) \in Nat /\ Cardinality(Newer(y) \cap Restarts) \in Nat
          /\ Cardinality(Newer(y) \cap Restarts) <= Cardinality(Newer(y))
      <3>1. Newer(y) \in SUBSET InfoID /\ Passed(y) \in SUBSET InfoID
            /\ Newer(y) \cap Restarts \in SUBSET InfoID
            /\ Newer(y) \cap Restarts \in SUBSET Newer(y)
        BY DEF Newer, Passed, Open
      <3> QED BY <3>1, IdCounts
    <2>6. PpsBehind(y) \in Int /\ SpsBehind(y) \in Int
      <3>1. heads.iPrevPps - pool.info[y].uPpsId \in Int
            /\ heads.iPrevSps - pool.info[y].uSpsId \in Int
        BY <1>2, <2>2 DEF PpsID, SpsID
      <3> QED BY <1>3, <3>1 DEF PpsBehind, SpsBehind
    <2>7. PpsBehind(y) <= B + R
      BY <1>3, <2>3, <2>4, <2>5, <2>6
    <2>8. SpsBehind(y) <= B
      BY <1>3, <2>3, <2>4, <2>5, <2>6
    <2> QED BY <2>2, <2>7, <2>8
  <1>5. ASSUME R <= 2 PROVE heads.pps[z].iRefCnt = 0
    <2>1. ASSUME NEW y \in OpenPps(z) PROVE FALSE
      <3>1. y \in Open /\ pool.info[y].uPpsId = z
        BY <2>1 DEF OpenPps
      <3>2. PpsBehind(y) = (heads.iPrevPps - z) % M
        BY <3>1 DEF PpsBehind
      <3>3. (heads.iPrevPps - z) % M = M - 1
        BY <1>2, <1>3, RingBehind DEF PpsID
      <3>4. PpsBehind(y) <= B + R
        BY <1>4, <3>1
      <3> QED BY <1>3, <1>5, <3>2, <3>3, <3>4
    <2>2. OpenPps(z) = {}
      BY <2>1
    <2> QED BY <1>1, <1>2, <2>2, FS_EmptySet DEF EncHeads
  <1>6. ASSUME N >= B + 2 PROVE heads.sps[x].iRefCnt = 0
    <2>1. ASSUME NEW y \in OpenSps(x) PROVE FALSE
      <3>1. y \in Open /\ pool.info[y].uSpsId = x
        BY <2>1 DEF OpenSps
      <3>2. SpsBehind(y) = (heads.iPrevSps - x) % N
        BY <3>1 DEF SpsBehind
      <3>3. (heads.iPrevSps - x) % N = N - 1
        BY <1>2, <1>3, RingBehind DEF SpsID
      <3> QED BY <1>3, <1>4, <1>6, <3>1, <3>2, <3>3
    <2>2. OpenSps(x) = {}
      BY <2>1
    <2> QED BY <1>1, <1>2, <2>2, FS_EmptySet DEF EncHeads
  <1> QED BY <1>5, <1>6

LEMMA HeadersAreFree ==
  ASSUME EncTypes, EncFrames, EncHeads, EncOrder, Faultless,
         iMaxSpsIds >= AL_MAX_NUM_B_PICT + 2, GetMaxReordering <= 2
  PROVE  HeadersFree
  <1> SUFFICES ASSUME apc = "infos" PROVE HeadersFree
    BY DEF HeadersFree
  <1> DEFINE h == GetSps(heads, chan.dim)
  <1>1. heads \in HeadsSet /\ chan.dim \in Nat /\ 0 \in SpsID
    BY Ranges DEF EncTypes, EncVarTypes, ChanSet
  <1>2. SpsFree(heads, chan.dim)
    BY NextIdsUnused DEF SpsFree, NextSps
  <1>3. h.pps = heads.pps /\ h.iPrevPps = heads.iPrevPps
    BY <1>1, <1>2, SpsCount
  <1>4. h.pps[NextPps(h)].iRefCnt = 0
    BY <1>3, NextIdsUnused DEF NextPps
  <1> HIDE DEF h
  <1>5. \A s, o : PpsFree(h, s, o)
    BY <1>4 DEF PpsFree
  <1> QED BY <1>2, <1>5 DEF HeadersFree, h

\* Ids of the pools, slots of SourceSent and HDR SEIs.
LEMMA IdsLeft ==
  ASSUME EncTypes, EncFrames, AllIdsKnown, ~Refusals
  PROVE  /\ apc = "info" => pool.free # <<>>
         /\ apc = "source" => FreeSlots # {}
  <1>1. AL_MAX_NUM_B_PICT \in Nat \ {0} /\ AL_MAX_LOOK_AHEAD \in Nat
    BY EncAssumption
  <1>2. ASSUME apc = "info" PROVE pool.free # <<>>
    <2>1. Len(pool.free) + IdsInUse = AL_MAX_NUM_B_PICT + 3
      BY <1>2 DEF AllIdsKnown, ENC_MAX_CMD
    <2>2. Cardinality(Sent) + 1 + Handed <= AL_MAX_NUM_B_PICT + 2
      BY <1>2, FewFrames
    <2>3. Named = 0
      BY <1>2 DEF Named
    <2>4. Len(pool.free) \in Nat
      BY LenProperties DEF EncTypes, EncVarTypes, PoolSet
    <2>5. Len(pool.free) # 0
      BY <1>1, <2>1, <2>2, <2>3, <2>4, IdsInUseIs
    <2> QED BY <2>5
  <1>3. ASSUME apc = "source", FreeSlots = {} PROVE FALSE
    <2>1. Sent = 1 .. AL_MAX_SOURCE_BUFFER
      BY <1>3 DEF Sent, FreeSlots, SourceSlot
    <2>2. Cardinality(Sent) + 1 + Handed <= AL_MAX_NUM_B_PICT + 2 /\ Handed \in Nat
          /\ Cardinality(Sent) \in Nat
      BY <1>3, FewFrames DEF Handed
    <2>3. AL_MAX_SOURCE_BUFFER = AL_MAX_NUM_B_PICT * 2 + AL_MAX_LOOK_AHEAD + 1
      BY DEF AL_MAX_SOURCE_BUFFER
    <2>4. AL_MAX_SOURCE_BUFFER \in Nat /\ AL_MAX_SOURCE_BUFFER >= AL_MAX_NUM_B_PICT + 2
      BY <1>1, <2>3
    <2>5. Cardinality(Sent) = AL_MAX_SOURCE_BUFFER
      BY <2>1, <2>4, FS_Interval
    <2> QED BY <1>1, <2>2, <2>4, <2>5
  <1> QED BY <1>2, <1>3

LEMMA HdrIdLeft ==
  ASSUME EncTypes, EncFrames, HdrCounts, ~Refusals, apc # "destroyed"
  PROVE  DropCurrent(hdr).free # <<>>
  <1> SUFFICES ASSUME DropCurrent(hdr).free = <<>> PROVE FALSE
    OBVIOUS
  <1> DEFINE f == [id \in Holding |-> pool.info[id].iHDRID]
             T == Holding \ (IF cpc = "give" THEN {st.info} ELSE {})
  <1>1. ASSUME NEW h \in HdrID PROVE \E id \in Holding : f[id] = h
    <2>1. /\ HdrFree(DropCurrent(hdr))
          /\ DropCurrent(hdr).refs[h] = hdr.refs[h] - Same(hdr.cur, h)
      BY <1>1, Dropped
    <2>2. DropCurrent(hdr).refs[h] # 0
      BY <1>1, <2>1 DEF HdrFree, Range
    <2>3. hdr.refs[h] = UsersOf(h)
      BY <1>1, UsersIs DEF HdrCounts
    <2>4. UsersOf(h) = Cardinality(HoldingHdr(h)) + Same(hdr.cur, h)
      BY DEF UsersOf
    <2>5. Cardinality(HoldingHdr(h)) \in Nat /\ Same(hdr.cur, h) \in {0, 1}
      BY HoldersFinite, SameIs
    <2>6. Cardinality(HoldingHdr(h)) # 0
      BY <2>1, <2>2, <2>3, <2>4, <2>5
    <2>7. HoldingHdr(h) # {}
      BY <2>6, FS_EmptySet
    <2> QED BY <2>7 DEF HoldingHdr
  <1>2. Holding \in SUBSET InfoID /\ T \in SUBSET InfoID
    BY DEF Holding
  <1>3. \A id \in T : \E s \in Sent : InfoOf(s) = id
    BY DEF Holding
  <1>4. cpc = "give" => Holding \subseteq T \cup {st.info} /\ st.info \notin T
    OBVIOUS
  <1>5. cpc # "give" => Holding = T
    OBVIOUS
  <1> HIDE DEF f, T
  <1>6. Cardinality(T) \in Nat /\ Cardinality(T) + Handed <= AL_MAX_NUM_B_PICT + 2
        /\ Handed \in Nat
    <2>1. Cardinality(T) \in Nat /\ Cardinality(T) <= Cardinality(Sent)
      BY <1>3, FewFrames
    <2>2. Cardinality(Sent) + Handed <= AL_MAX_NUM_B_PICT + 2
      BY FewFrames, EncAssumption DEF Handed
    <2>3. Handed \in Nat
      BY DEF Handed
    <2> QED BY <2>1, <2>2, <2>3, FewFrames, EncAssumption
  <1>7. Cardinality(HdrID) <= Cardinality(Holding)
    BY <1>1, <1>2, FiniteSlots, ReachedIsSmaller
  <1>8. Cardinality(HdrID) = AL_MAX_NUM_B_PICT + 3
    <2>1. AL_MAX_NUM_B_PICT \in Nat
      BY EncAssumption
    <2> QED BY <2>1, FS_Interval DEF HdrID, ENC_MAX_CMD
  <1>9. Cardinality(Holding) \in Nat /\ Cardinality(Holding) <= Cardinality(T) + Handed
    <2>1. CASE cpc = "give"
      <3> DEFINE W == T \cup {st.info}
      <3>1. Holding \in SUBSET W /\ Handed = 1
        BY <1>4, <2>1 DEF Handed
      <3>2. Cardinality(W) = Cardinality(T) + 1 /\ IsFiniteSet(W)
        BY <1>2, <1>4, <2>1, IdCounts, FiniteSlots, FS_AddElement
      <3> HIDE DEF W
      <3>3. Cardinality(Holding) <= Cardinality(W)
        BY <3>1, <3>2, FS_Subset
      <3> QED BY <1>2, <3>1, <3>2, <3>3, IdCounts
    <2>2. CASE cpc # "give"
      BY <1>5, <1>6, <2>2 DEF Handed
    <2> QED BY <2>1, <2>2
  <1> QED BY <1>6, <1>7, <1>8, <1>9, EncAssumption

LEMMA HeadersInUse ==
  ASSUME EncTypes, EncHeads, cpc = "sections", st.first
  PROVE  /\ heads.sps[pool.info[st.info].uSpsId].iRefCnt > 0
         /\ heads.pps[pool.info[st.info].uPpsId].iRefCnt > 0
  <1> DEFINE x == pool.info[st.info].uSpsId
             z == pool.info[st.info].uPpsId
  <1>1. st.info \in InfoID /\ pool \in PoolSet
    BY DEF EncTypes, EncVarTypes, ThreadsAgree, Busy
  <1>2. x \in SpsID /\ z \in PpsID
    BY <1>1 DEF PoolSet, InfoSet
  <1>3. st.info \in OpenSps(x) /\ st.info \in OpenPps(z)
    BY <1>1 DEF OpenSps, OpenPps, Open
  <1>4. OpenSps(x) \in SUBSET InfoID /\ OpenPps(z) \in SUBSET InfoID
    BY DEF OpenSps, OpenPps, Open
  <1>5. heads.sps[x].iRefCnt \in Int /\ heads.pps[z].iRefCnt \in Int
    BY <1>2 DEF EncTypes, EncVarTypes, HeadsSet, SpsSet, PpsSet
  <1> HIDE DEF x, z
  <1>6. /\ Cardinality(OpenSps(x)) \in Nat /\ Cardinality(OpenSps(x)) # 0
        /\ Cardinality(OpenPps(z)) \in Nat /\ Cardinality(OpenPps(z)) # 0
    BY <1>3, <1>4, FiniteSlots, FS_EmptySet
  <1>7. /\ heads.sps[x].iRefCnt >= Cardinality(OpenSps(x))
        /\ heads.pps[z].iRefCnt >= Cardinality(OpenPps(z))
    BY <1>2 DEF EncHeads
  <1>8. heads.sps[x].iRefCnt > 0
    BY <1>5, <1>6, <1>7
  <1>9. heads.pps[z].iRefCnt > 0
    BY <1>5, <1>6, <1>7
  <1> QED BY <1>8, <1>9 DEF x, z

\* With a token in hand, where nothing fails, GetNextPoolId finds a frame-info
\* id and an HDR id and AddSourceSent a slot; and with a GOP pattern that
\* overtakes no frame more than twice (PoolsSuffice) AL_GetSps and AL_GetPps
\* find the next id unused, whatever the application changes.  The ring of SPS
\* must hold one id for each frame the firmware may hold back, the one it takes
\* and the one being pushed.
THEOREM PoolsAreEnough ==
  iMaxSpsIds >= AL_MAX_NUM_B_PICT + 2 => (EncSpec => []PoolsSuffice)
  <1> DEFINE Inv == EncTypes /\ EncFrames /\ EncHdr /\ EncHeads /\ EncPools
  <1>1. EncInit => Inv
    BY EncTypesInit, EncFramesInit, EncHdrInit, EncHeadsInit, EncOrderInit, AllIdsKnownInit
       DEF EncPools
  <1>2. Inv /\ [EncNext]_encVars => Inv'
    BY EncTypesStep, EncFramesStep, EncHdrStep, EncHeadsStep, EncOrderStep, AllIdsKnownStep
       DEF EncPools, EncFrames
  <1>3. ASSUME iMaxSpsIds >= AL_MAX_NUM_B_PICT + 2, Inv PROVE PoolsSuffice
    <2> SUFFICES ASSUME Faultless PROVE PoolsSuffice
      BY DEF PoolsSuffice
    <2>1. GetMaxReordering <= 2 => HeadersFree
      BY <1>3, HeadersAreFree DEF EncPools
    <2>2. /\ apc = "info" => pool.free # <<>>
          /\ apc = "source" => FreeSlots # {}
      BY <1>3, IdsLeft DEF EncPools, Faultless
    <2>3. Call("hdr") => DropCurrent(hdr).free # <<>>
      BY <1>3, HdrIdLeft DEF Call, EncHdr, Faultless
    <2>4. cpc = "sections" /\ st.first =>
              /\ heads.sps[pool.info[st.info].uSpsId].iRefCnt > 0
              /\ heads.pps[pool.info[st.info].uPpsId].iRefCnt > 0
      BY <1>3, HeadersInUse
    <2> QED BY <2>1, <2>2, <2>3, <2>4 DEF PoolsSuffice
  <1> HIDE DEF Inv
  <1>4. iMaxSpsIds >= AL_MAX_NUM_B_PICT + 2 => (Inv => PoolsSuffice)
    BY <1>3
  <1>5. CASE iMaxSpsIds >= AL_MAX_NUM_B_PICT + 2
    <2>1. Inv => PoolsSuffice
      BY <1>4, <1>5
    <2> QED BY <1>1, <1>2, <2>1, PTL DEF EncSpec
  <1> QED BY <1>5
=============================================================================
