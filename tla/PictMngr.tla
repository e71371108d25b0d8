------------------------------ MODULE PictMngr ------------------------------
(***************************************************************************)
(* What the two decoders do with the decoded picture buffer, picture after *)
(* picture: the picture order count (Avc_PictMngr.c, HevcDecoder.c), gaps  *)
(* of frame_num, the reference lists, marking and bumping.  The pictures   *)
(* come from IdealDpb, whose Slices are those of a conforming stream, and  *)
(* which this module implements.                                           *)
(***************************************************************************)
EXTENDS Dpb

CONSTANTS
    Streams,     \* see IdealDpb
    Restricted   \* TRUE: the stream avoids what Careful excludes

VARIABLES
    d,       \* the DPB
    poc,     \* its fields for the picture order count, and the decoder's flags
    built,   \* HEVC: the reference list of the last picture
    sps, slice, stream

vars == <<d, poc, built, sps, slice, stream>>

---------------------------------------------------------------------------
(* The pictures held, as the abstract buffer sees them. *)

View(n) ==
    LET node == d.nodes[n]
    IN  [pic |-> node.pic, mark |-> node.mark, wait |-> node.out, real |-> ~node.bNonExisting,
         idx |-> IF sps.codec = "AVC" /\ node.mark = "long" THEN node.lt ELSE 0,
         fn |-> IF sps.codec = "AVC" /\ node.mark = "short" THEN node.frameNum ELSE 0,
         late |-> IF sps.codec = "HEVC" THEN node.latency ELSE 0]
Held == {View(n) : n \in Range(d.poc)}

Ideal == INSTANCE IdealDpb WITH held <- Held, shown <- d.output

---------------------------------------------------------------------------
(* Picture order count *)

\* Distance in picture order count of two pictures shown one after the other.
Step == CASE sps.order = "free" -> 3 [] sps.order \in {"decode", "paired"} -> 2

Base(s) == IF Ideal!NewSequence(s) THEN s.pic.di ELSE stream.base
Lsb(s) == (Step * (s.pic.di - Base(s))) % MaxPocLsb

\* The MSB for lsb, given those of the picture before (both codecs).
Msb(lsb, prevMsb, prevLsb) ==
    IF lsb < prevLsb /\ prevLsb - lsb >= MaxPocLsb \div 2 THEN prevMsb + MaxPocLsb
    ELSE IF lsb > prevLsb /\ lsb - prevLsb > MaxPocLsb \div 2 THEN prevMsb - MaxPocLsb
    ELSE prevMsb

\* AL_sGetPocType0.  After MMCO 5 the count of the last picture is taken as it
\* was before MMCO 5 reset it.
GetPocType0(p, e, s) ==
    LET prevMsb == IF s.nut = "IDR" \/ e.bLastHasMMCO5 THEN 0 ELSE p.iPrevPocMSB
        prevLsb == IF s.nut = "IDR" THEN 0
                   ELSE IF e.bLastHasMMCO5 THEN p.iTopFieldOrderCnt ELSE p.iPrevPocLSB
        msb     == Msb(Lsb(s), prevMsb, prevLsb)
    IN  [p EXCEPT !.iTopFieldOrderCnt = msb + Lsb(s),
                  !.iPrevPocLSB = IF s.ref THEN Lsb(s) ELSE @,
                  !.iPrevPocMSB = IF s.ref THEN msb ELSE @]

\* iFrameNumOffset of types 1 and 2, with the reset after MMCO 5.
AfterMMCO5(p, e, s) ==
    IF s.nut # "IDR" /\ e.bLastHasMMCO5
    THEN [p EXCEPT !.iPrevFrameNumOffset = 0, !.iPrevFrameNum = 0] ELSE p

\* (Mutant: the offset is kept when frame_num wraps.)
FrameNumOffsetKept(p, s) == IF s.nut = "IDR" THEN 0 ELSE p.iPrevFrameNumOffset

FrameNumOffset(p, s) ==
    IF s.nut = "IDR" THEN 0
    ELSE IF p.iPrevFrameNum > s.fn THEN p.iPrevFrameNumOffset + MaxFrameNum
    ELSE p.iPrevFrameNumOffset

\* AL_sGetPocType1, with offset_for_ref_frame = <<4>> and
\* offset_for_non_ref_pic = -2: pictures that are not references precede the
\* last reference.
GetPocType1(p, e, s) ==
    LET q      == AfterMMCO5(p, e, s)
        offset == FrameNumOffset(q, s)
        abs    == IF ~s.ref /\ offset + s.fn > 0 THEN offset + s.fn - 1 ELSE offset + s.fn
    IN  [q EXCEPT !.iPrevFrameNumOffset = offset,
                  !.iTopFieldOrderCnt = 4 * abs - (IF s.ref THEN 0 ELSE 2)]

\* AL_sGetPocType2
GetPocType2(p, e, s) ==
    LET q      == AfterMMCO5(p, e, s)
        offset == FrameNumOffset(q, s)
    IN  [q EXCEPT !.iPrevFrameNumOffset = offset,
                  !.iTopFieldOrderCnt = IF s.nut = "IDR" THEN 0
                                        ELSE 2 * (offset + s.fn) - (IF s.ref THEN 0 ELSE 1)]

\* AL_sCalculatePOC, for frames: the top field is never after the bottom one.
CalculatePOC(p, e, s) ==
    CASE sps.order = "free"   -> GetPocType0(p, e, s)
      [] sps.order = "paired" -> GetPocType1(p, e, s)
      [] sps.order = "decode" -> GetPocType2(p, e, s)

\* AL_AVC_Dpb_SetCurrentPOC
SetCurrentPOC(p, e, s) ==
    LET q == CalculatePOC(p, e, s) IN [q EXCEPT !.iCurFramePOC = q.iTopFieldOrderCnt]

---------------------------------------------------------------------------
(* AVC *)

\* What the slice header says, from what the encoder means: pictures are named
\* by the difference of their frame numbers.
NodeOf(pic) == CHOOSE n \in Range(d.poc) : d.nodes[n].pic = pic
Diff(s, pic) == LET m == (s.fn - d.nodes[NodeOf(pic)].frameNum) % MaxFrameNum
                IN  IF m = 0 THEN MaxFrameNum ELSE m
Header(s) ==
    [idr |-> s.nut = "IDR", frame_num |-> s.fn, long_term_reference_flag |-> s.ltFlag,
     mmco |-> [i \in DOMAIN s.cmds |->
                  [op |-> s.cmds[i].op, idx |-> s.cmds[i].idx,
                   diff |-> IF s.cmds[i].op \in {1, 3} THEN Diff(s, s.cmds[i].pic) ELSE 0]]]

uNumRef == IF sps.codec = "AVC" THEN sps.numRef
           ELSE IF sps.maxDec < sps.numRef THEN sps.maxDec ELSE sps.numRef
Limit == Ideal!RefLimit

\* AL_AVC_PictMngr_Fill_Gap_In_FrameNum: frames without a buffer, references,
\* one per missing frame number.
HasGap(p, s) == /\ s.nut # "IDR" /\ s.fn # p.iPrevFrameNum
                /\ s.fn # (p.iPrevFrameNum + 1) % MaxFrameNum
                /\ sps.gaps # {0}

Fill(st, i, s, h) ==
    LET fn      == (st.poc.iPrevFrameNum + 1) % MaxFrameNum
        unused  == [s EXCEPT !.fn = fn]
        counted == CalculatePOC(st.poc, st.d, unused)
        placed  == Insert(st.d, [pic |-> [n |-> stream.n + i, di |-> 0], lsb |-> 0,
                                 iFramePOC |-> counted.iTopFieldOrderCnt, mark |-> "short",
                                 out |-> FALSE, bNonExisting |-> TRUE])
    IN  [poc |-> [counted EXCEPT !.iPrevFrameNum = fn],
         d |-> AVC_Cleanup(MarkingProcess(placed, [h EXCEPT !.frame_num = fn], FALSE, Limit),
                           uNumRef)]

Fill_Gap_In_FrameNum(st, s, h) ==
    IF ~HasGap(st.poc, s) THEN st
    ELSE FoldLeft(LAMBDA e, i : Fill(e, i, s, h), st,
                  [i \in 1 .. (s.fn - st.poc.iPrevFrameNum - 1) % MaxFrameNum |-> i])

\* AL_AVC_Dpb_EndParsing: a reference with the picture's own count goes.
EndParsing(e, iCurFramePOC) ==
    LET later == IncrementPicLatency(e, iCurFramePOC)
        same  == SearchPOC(later, iCurFramePOC)
        gone  == IF same = AL_BAD_INDEX THEN later
                 ELSE RemoveNode(IF later.nodes[same].out THEN Display(later, same) ELSE later, same)
    IN  [gone EXCEPT !.bLastHasMMCO5 = FALSE]

\* updatePictManager
InsertAvc(e, p, s) ==
    Insert(e, [pic |-> s.pic, lsb |-> 0, iFramePOC |-> p.iCurFramePOC, out |-> TRUE,
               bNonExisting |-> FALSE,
               mark |-> IF ~s.ref THEN "unused" ELSE IF s.ltFlag THEN "long" ELSE "short"])

UpdatePictManager(st, s, h) ==
    LET flushed == IF s.nut = "IDR" THEN Flush(st.d) ELSE st.d
        placed  == InsertAvc(EndParsing(flushed, st.poc.iCurFramePOC), st.poc, s)
        marked  == IF s.ref THEN MarkingProcess(placed, h, h.mmco # <<>>, Limit) ELSE placed
    IN  [d |-> AVC_Cleanup(marked, uNumRef),
         poc |-> IF s.ref /\ marked.bLastHasMMCO5
                 THEN [st.poc EXCEPT !.iPrevFrameNum = 0, !.iCurFramePOC = 0]
                 ELSE [st.poc EXCEPT !.iPrevFrameNum = s.fn]]

\* decodeSliceData, to the reference lists: constructRefPicList numbers them.
Prepared(s) ==
    LET st == Fill_Gap_In_FrameNum([d |-> d, poc |-> SetCurrentPOC(poc, d, s)], s, Header(s))
    IN  [st EXCEPT !.d = PictNumberProcess(@, s.fn)]

DecodeAvc(s) ==
    LET st == UpdatePictManager(Prepared(s), s, Header(s))
    IN  d' = st.d /\ poc' = st.poc /\ UNCHANGED built

---------------------------------------------------------------------------
(* HEVC *)

IsRap(s) == s.nut \in {"IDR", "CRA"}

\* calculatePocBasic
CalculatePocBasic(p, s, uNoRaslOutputFlag) ==
    LET prevLsb == p.iPrevPOC % MaxPocLsb
        msb     == IF IsRap(s) /\ uNoRaslOutputFlag THEN 0
                   ELSE Msb(Lsb(s), p.iPrevPOC - prevLsb, prevLsb)
        cur     == IF s.nut = "IDR" THEN 0 ELSE msb + Lsb(s)
    IN  [p EXCEPT !.iCurFramePOC = cur,
                  !.iPrevPOC = IF s.nut \in {"RASL", "TRAIL_N"} THEN @ ELSE cur]

\* AL_HEVC_Dpb_InitRefPictSet: the node of each entry, before any mark changes.
\* A long term entry has its MSB when another reference has the same LSB.
PocOf(cur, s, pic) == cur + Step * (pic.di - s.pic.di)
EntryNode(e, cur, s, pic) ==
    LET lsb == PocOf(cur, s, pic) % MaxPocLsb
        one == Cardinality({n \in Range(e.dec) : IsRef(e, n) /\ e.nodes[n].iFramePOC % MaxPocLsb = lsb}) = 1
    IN  IF pic \in s.rps.lt /\ one THEN SearchPocLsb(e, lsb)
        ELSE SearchPOC(e, PocOf(cur, s, pic))

MarkSet(e, nodes, mark) ==
    FoldLeft(LAMBDA f, n : SetMarkingFlag(f, n, mark), e,
             SetToSeq(nodes \ {AL_BAD_INDEX}))

InitRefPictSet(e, cur, s) ==
    LET Entries(P) == {EntryNode(e, cur, s, pic) : pic \in P}
        none       == s.rps.cur \cup s.rps.foll \cup s.rps.lt = {}
        cleared    == MarkSet(e, Range(e.poc), "unused")
    IN  IF ~IsRap(s) /\ none THEN e
        ELSE MarkSet(MarkSet(cleared, Entries(s.rps.lt), "long"),
                     Entries(s.rps.cur \cup s.rps.foll), "short")

\* AL_HEVC_PictMngr_ClearDPB.  Its three passes: every node in POC order while
\* too many pictures are held; again, with the number the references leave; and
\* the node of least POC.
FullPass(e, full, Gone(_, _)) ==
    LET Visit(f, n) ==
            IF f.uCountPic < full THEN f
            ELSE LET g == IF f.nodes[n].out THEN Display(f, n) ELSE f
                 IN  IF ~IsRef(g, n) /\ Gone(g, n) THEN RemoveNode(g, n) ELSE g
    IN  FoldLeft(Visit, e, e.poc)

SmallerOf(a, b) == IF a < b THEN a ELSE b
LargerOf(a, b) == IF a > b THEN a ELSE b

ClearDPB(e, bClearRef, bNoOutputPrior) ==
    LET flushed == IF ~bClearRef THEN e
                   ELSE Flush(IF bNoOutputPrior THEN ClearOutput(e) ELSE e)
        cleaned == HEVC_Cleanup(flushed, sps.maxLatency, sps.numReorder)
        first   == FullPass(cleaned, sps.maxDec, LAMBDA f, n : ~f.nodes[n].out)
        full    == SmallerOf(LargerOf(sps.maxDec, first.uCountRef + 1), uNumRef + 1)
        second  == FullPass(first, full,
                            LAMBDA f, n : f.nodes[n].iFramePOC < f.iLastDisplayedPOC)
    IN  IF second.uCountPic >= full THEN RemoveNode(second, Head(second.poc)) ELSE second

\* (Mutant: long term pictures come before the later ones.)
BuildListLongFirst(e, before, after, lt) ==
    [i \in 1 .. Len(before \o lt \o after) |->
        LET n == (before \o lt \o after)[i] IN IF n = AL_BAD_INDEX THEN Head(e.poc) ELSE n]

\* AL_HEVC_Dpb_BuildPictureList, list 0 with an entry for each picture the
\* current one uses: earlier pictures, later ones, long term ones; the head of
\* the DPB stands in for a missing one.
BuildPictureList(e, before, after, lt) ==
    [i \in 1 .. Len(before \o after \o lt) |->
        LET n == (before \o after \o lt)[i] IN IF n = AL_BAD_INDEX THEN Head(e.poc) ELSE n]

\* The encoder lists the nearest pictures first.
Nearest(P, s) == SetToSortSeq(P, LAMBDA a, b :
    (IF a.di < s.pic.di THEN s.pic.di - a.di ELSE a.di - s.pic.di)
      < (IF b.di < s.pic.di THEN s.pic.di - b.di ELSE b.di - s.pic.di))
Lists(e, cur, s) ==
    LET Nodes(P) == LET q == Nearest(P, s) IN [i \in DOMAIN q |-> EntryNode(e, cur, s, q[i])]
    IN  [before |-> Nodes({p \in s.rps.cur : p.di < s.pic.di}),
         after |-> Nodes({p \in s.rps.cur : p.di > s.pic.di}), lt |-> Nodes(s.rps.lt)]

\* AL_HEVC_PictMngr_EndFrame
EndFrame(e, cur, s) ==
    LET room  == RemoveHeadFrame(e, uNumRef)
        older == IF s.out THEN IncrementPicLatency(room, cur) ELSE room
    IN  HEVC_Cleanup(Insert(older, [pic |-> s.pic, iFramePOC |-> cur, lsb |-> Lsb(s),
                                    mark |-> "short", out |-> s.out, bNonExisting |-> FALSE]),
                     sps.maxLatency, sps.numReorder)

\* decodeSliceData and endFrame: one picture.
DecodeHevc(s) ==
    LET noRasl == IF IsRap(s) THEN poc.bIsFirstPicture \/ s.nut = "IDR" ELSE poc.uNoRaslOutputFlag
        counted == CalculatePocBasic([poc EXCEPT !.uNoRaslOutputFlag = noRasl], s, noRasl)
        cur    == counted.iCurFramePOC
        marked == InitRefPictSet(d, cur, s)
        lists  == Lists(d, cur, s)
        ready  == ClearDPB(marked, IsRap(s) /\ noRasl, s.nut = "CRA" \/ s.noOut)
        list   == BuildPictureList(ready, lists.before, lists.after, lists.lt)
    IN  IF s.nut = "RASL" /\ poc.uNoRaslOutputFlag THEN UNCHANGED <<d, poc, built>>
        ELSE /\ d' = EndFrame(ready, cur, s)
             /\ poc' = [counted EXCEPT !.bIsFirstPicture = FALSE]
             /\ built' = [i \in DOMAIN list |-> ready.nodes[list[i]].pic]

---------------------------------------------------------------------------
(* The streams the restricted runs decode. *)

\* A picture becomes a long term reference when every other long term reference
\* was decoded before it, and no node that is no longer a reference had its
\* index; and a reference follows a picture with MMCO 5.
Careful(s) ==
    /\ \A i \in DOMAIN s.cmds :
           LET c == s.cmds[i]
           IN  /\ c.op = 3 => /\ \A n \in Range(d.dec) : IsLong(d, n) => d.nodes[n].pic.n < c.pic.n
                              /\ \A n \in Range(d.dec) : d.nodes[n].lt = c.idx => IsLong(d, n)
    /\ d.bLastHasMMCO5 => s.ref

Decode(s) ==
    /\ Restricted => Careful(s)
    /\ IF sps.codec = "AVC" THEN DecodeAvc(s) ELSE DecodeHevc(s)
    /\ slice' = s /\ stream' = Ideal!After(s) /\ UNCHANGED sps

\* AL_PictMngr_Flush at the end of the stream.
EndOfStream ==
    /\ stream.pics > 0 /\ slice.nut # "end"
    /\ d' = Flush(d) /\ slice' = [nut |-> "end"]
    /\ UNCHANGED <<poc, built, sps, stream>>

Init ==
    /\ sps \in Streams /\ d = InitDpb /\ built = <<>>
    /\ poc = [iPrevPocMSB |-> 0, iPrevPocLSB |-> 0, iTopFieldOrderCnt |-> 0, iPrevPOC |-> 0,
              iPrevFrameNum |-> -1, iPrevFrameNumOffset |-> 0, iCurFramePOC |-> 0,
              bIsFirstPicture |-> TRUE, uNoRaslOutputFlag |-> FALSE]
    /\ slice = Ideal!NoSlice /\ stream = Ideal!Begin

Next == \/ EndOfStream
        \/ LET st == [held |-> Held, shown |-> d.output]
           IN  \E s \in Ideal!Slices(st) : Decode(s)
Spec == Init /\ [][Next]_vars

---------------------------------------------------------------------------
(* Properties *)

TypeOK ==
    /\ Range(d.poc) \subseteq Node /\ Range(d.dec) \subseteq Node
    /\ \A n \in Node : d.nodes[n].mark \in {"unused", "short", "long"} /\ d.nodes[n].out \in BOOLEAN
    /\ d.uCountRef \in 0 .. AL_REF_MNGR_MAX_BUF_SIZE
    /\ d.uCountPic \in 0 .. AL_REF_MNGR_MAX_BUF_SIZE
    /\ d.uNumOutputPic \in 0 .. AL_REF_MNGR_MAX_BUF_SIZE
    /\ d.waiting \in Node \cup {AL_BAD_INDEX}

\* AL_Dpb_PictNumberProcess numbers "each reference picture", and the marking
\* and the lists see no others: each is in the decoding order.
EveryReferenceIsListed == {n \in Node : IsRef(d, n)} \subseteq Range(d.dec)

\* No node is lost: each reference and each picture to show is in both lists,
\* and the counts the bumping decides with are those of the nodes.
NoNodeIsLost ==
    /\ EveryReferenceIsListed
    /\ {n \in Node : d.nodes[n].out} \subseteq Range(d.dec)
    /\ Range(d.dec) = Range(d.poc)
    /\ Len(d.dec) = Cardinality(Range(d.dec)) /\ Len(d.poc) = Len(d.dec)
    /\ d.uCountRef = Cardinality({n \in Node : IsRef(d, n)})
    /\ d.uNumOutputPic = Cardinality({n \in Node : d.nodes[n].out})
    /\ d.uCountPic = Len(d.poc)

\* A picture id names one reference: it is free, or it belongs to the node that
\* the hardware is told of; and every reference with a picture has one.
PicIdsAreExact ==
    /\ Len(d.freeIds) = Cardinality(Range(d.freeIds))
    /\ \A i \in PicId :
           IF i \in Range(d.freeIds) THEN d.idNode[i] = AL_BAD_INDEX
           ELSE d.idNode[i] \in Range(d.dec) /\ d.nodes[d.idNode[i]].picId = i
    /\ \A n \in Range(d.dec) :
           IsRef(d, n) /\ ~d.nodes[n].bNonExisting => /\ d.nodes[n].picId \in PicId
                                                      /\ d.idNode[d.nodes[n].picId] = n

\* The order of the list by picture order count is the order of display.
PocOrderIsDisplayOrder ==
    \A i, j \in DOMAIN d.poc :
        (i < j /\ d.nodes[d.poc[i]].out /\ d.nodes[d.poc[j]].out)
            => d.nodes[d.poc[i]].pic.di < d.nodes[d.poc[j]].pic.di

---------------------------------------------------------------------------
(* The reference lists a next picture gets. *)

Pics(e, nodes) == [i \in DOMAIN nodes |-> e.nodes[nodes[i]].pic]
ByIdx(H) == LET q == SetToSortSeq(Ideal!Longs(H), LAMBDA a, b : a.idx < b.idx)
            IN  [i \in DOMAIN q |-> q[i].pic]
Sorted(P, Before(_, _)) == SetToSortSeq(P, Before)

\* List 0 of a P slice: short term references, last decoded first, then long
\* term references by index.
IdealP == Sorted({p.pic : p \in Ideal!Shorts(Held)}, LAMBDA a, b : a.n > b.n) \o ByIdx(Held)
PListIsIdeal == sps.codec = "AVC" => Pics(d, InitPSlice_RefList(d)) = IdealP

\* The lists of a B slice shown at rank di: the nearest before, then the
\* nearest after, then long term references; the other way round for list 1,
\* which never equals list 0 when it has two entries.
IdealB(di) ==
    LET before == Sorted({p.pic : p \in {q \in Ideal!Shorts(Held) : q.pic.di < di}},
                         LAMBDA a, b : a.di > b.di)
        after  == Sorted({p.pic : p \in {q \in Ideal!Shorts(Held) : q.pic.di > di}},
                         LAMBDA a, b : a.di < b.di)
        l0     == before \o after \o ByIdx(Held)
        l1     == after \o before \o ByIdx(Held)
    IN  <<l0, IF Len(l0) > 1 /\ l0 = l1 THEN <<l1[2], l1[1]>> \o SubSeq(l1, 3, Len(l1)) ELSE l1>>
BListsAreIdeal ==
    sps.codec = "AVC" /\ sps.gaps = {0} /\ Held # {} =>
        \A di \in Ideal!Ranks(Held, FALSE) :
            LET s == Ideal!AvcSlice("P", FALSE, Ideal!NextFn(0), di, 0, FALSE, <<>>)
                e == Prepared(s)
                l == InitBSlice_RefList(e.d, e.poc.iCurFramePOC)
            IN  di > stream.base /\ ~d.bLastHasMMCO5
                    => <<Pics(e.d, l[1]), Pics(e.d, l[2])>> = IdealB(di)

\* Two modification commands put the pictures they ask for first, whatever
\* the way the numbers go round, and keep the others in order.
Asked(e, s, r, p, idc) ==
    LET node == e.nodes[p]
        diff == (IF idc = 0 THEN r.pred - node.frameNum ELSE node.frameNum - r.pred) % MaxFrameNum
    IN  IF node.mark = "long" THEN ModifLongTerm(e, r, Len(InitPSlice_RefList(e)), node.lt)
        ELSE ModifShortTerm(e, r, Len(InitPSlice_RefList(e)), s, idc,
                            IF diff = 0 THEN MaxFrameNum ELSE diff)
ModifiedListIsIdeal ==
    sps.codec = "AVC" =>
        LET fn   == Ideal!NextFn(0)
            e    == PictNumberProcess(d, fn)
            list == InitPSlice_RefList(e)
        IN  \A p, q \in Range(list), idc \in 0 .. 1 :
               LET r0 == [array |-> Array(list), at |-> 0, pred |-> fn]
                   r2 == Asked(e, fn, Asked(e, fn, r0, p, idc), q, 1 - idc)
               IN  p # q => [i \in 1 .. Len(list) |-> r2.array[i - 1]]
                                = <<p, q>> \o SelectSeq(list, LAMBDA n : n \notin {p, q})

\* The reference list of an HEVC picture is the one its reference picture set
\* describes: no entry is replaced, or found under another number.
RpsListIsIdeal ==
    sps.codec = "HEVC" /\ built # <<>> /\ slice.nut \notin {"end", "IDR", "CRA"}
        /\ ~(slice.nut = "RASL" /\ stream.noRasl)
        => built = Nearest({p \in slice.rps.cur : p.di < slice.pic.di}, slice)
                   \o Nearest({p \in slice.rps.cur : p.di > slice.pic.di}, slice)
                   \o Nearest(slice.rps.lt, slice)

\* The DPB does what a decoded picture buffer promises: the same pictures are
\* held, marked the same way, and shown in the same order at the same picture.
FollowsDpbSpecification == Ideal!IdealSpec
=============================================================================
