-------------------------------- MODULE Dpb --------------------------------
(***************************************************************************)
(* The decoded picture buffer (lib_parsing/DPB.c) as operators on a record *)
(* d.  A node of the DPB is a member of Node and keeps its index for life; *)
(* two lists run through the nodes, in POC order and in decoding order.    *)
(*                                                                         *)
(* A list of links is a sequence of nodes here.  The list in order of POC  *)
(* LSB is not kept: it is the decoding order sorted by LSB, and the stable *)
(* insertion of sApiInsert makes the first match of AL_Dpb_SearchPocLsb    *)
(* the first in decoding order.  The fifo of frames to display and the     *)
(* references on buffers are in DecodeFlow; here the pictures shown are    *)
(* appended to d.output.                                                   *)
(***************************************************************************)
EXTENDS Integers, SequencesExt

CONSTANTS
    AL_MAX_REF,               \* number of picture ids
    AL_REF_MNGR_MAX_BUF_SIZE  \* number of nodes

ASSUME DpbAssumption ==
    /\ AL_MAX_REF \in Nat \ {0}
    /\ AL_REF_MNGR_MAX_BUF_SIZE \in Nat /\ AL_REF_MNGR_MAX_BUF_SIZE > AL_MAX_REF

Node == 0 .. AL_REF_MNGR_MAX_BUF_SIZE - 1
PicId == 0 .. AL_MAX_REF - 1
AL_BAD_INDEX == -1
INT32_MAX == 99999     \* larger than every number of a picture
INT32_MIN == -99999

\* AL_MAX_FRAME_NUM with log2_max_frame_num_minus4 = 0, and the largest
\* pic_order_cnt_lsb with log2_max_pic_order_cnt_lsb_minus4 = 0.
MaxFrameNum == 16
MaxPocLsb == 16

\* uCountRef, uCountPic and uNumOutputPic are uint8_t.
Decr(c) == (c + 255) % 256

NoNodePic == [n |-> 0, di |-> 0]

\* AL_Dpb_sResetNodeInfo.  pic names the picture in the node, NoNodePic when it
\* is reset (bIsReset).  lt stands for iLongTermFrameIdx and iLongTermPicNum,
\* equal for every long term reference once PictNumberProcess has run, and
\* picNum for iPicNum and iFrameNumberWrap.
ResetNode ==
    [pic |-> NoNodePic, iFramePOC |-> 0, lsb |-> 0, mark |-> "unused", out |-> FALSE,
     picId |-> AL_BAD_INDEX, frameNum |-> INT32_MAX, picNum |-> INT32_MAX,
     lt |-> INT32_MAX, bNonExisting |-> FALSE, latency |-> 0]

\* sApiInit
InitDpb ==
    [nodes |-> [n \in Node |-> ResetNode], poc |-> <<>>, dec |-> <<>>,
     freeIds |-> [i \in 1 .. AL_MAX_REF |-> i - 1],
     idNode |-> [i \in PicId |-> AL_BAD_INDEX], waiting |-> AL_BAD_INDEX,
     uCountRef |-> 0, uCountPic |-> 0, uNumOutputPic |-> 0, cur |-> 0,
     iMaxLongTermFrameIdx |-> INT32_MAX, bLastHasMMCO5 |-> FALSE,
     iLastDisplayedPOC |-> INT32_MIN, output |-> <<>>]

IsRef(d, n) == d.nodes[n].mark # "unused"
IsShort(d, n) == d.nodes[n].mark = "short"
IsLong(d, n) == d.nodes[n].mark = "long"
Listed(list, Test(_)) == SelectSeq(list, Test)

---------------------------------------------------------------------------
(* Picture ids *)

\* AL_Dpb_sReleasePicID
ReleasePicID(d, id) ==
    IF id = AL_BAD_INDEX THEN d
    ELSE [d EXCEPT !.idNode[id] = AL_BAD_INDEX, !.freeIds = Append(@, id)]

\* (Mutant: a removed picture leaves the waiting one without an id.)
FillNobody(d) == d

\* AL_Dpb_sFillWaitingPicture, when a picture waits and an id is free.
FillWaitingPicture(d) ==
    IF d.waiting = AL_BAD_INDEX \/ d.freeIds = <<>> THEN d
    ELSE [d EXCEPT !.nodes[d.waiting].picId = Last(d.freeIds),
                   !.idNode[Last(d.freeIds)] = d.waiting,
                   !.freeIds = Front(@), !.waiting = AL_BAD_INDEX]

---------------------------------------------------------------------------
(* Output *)

\* (Mutant: the output flag stays.)
ShowKeepsFlag(d, n) ==
    [d EXCEPT !.uNumOutputPic = Decr(@), !.output = Append(@, d.nodes[n].pic)]

Show(d, n) ==
    LET shown == [d EXCEPT !.nodes[n].out = FALSE, !.uNumOutputPic = Decr(@)]
    IN  IF d.nodes[n].bNonExisting THEN shown
        ELSE [shown EXCEPT !.output = Append(@, d.nodes[n].pic),
                           !.iLastDisplayedPOC = d.nodes[n].iFramePOC]

Position(list, n) == SelectInSeq(list, LAMBDA m : m = n)

\* AL_Dpb_Display: every node to output up to n in POC order.  (The recursion
\* on an earlier node finds nothing left before it.)
Display(d, n) ==
    FoldLeft(Show, d, Listed(SubSeq(d.poc, 1, Position(d.poc, n)),
                             LAMBDA m : d.nodes[m].out))

\* AL_Dpb_ClearOutput
ClearOutput(d) ==
    [d EXCEPT !.uNumOutputPic = 0,
              !.nodes = [n \in Node |-> IF Contains(d.poc, n)
                                        THEN [d.nodes[n] EXCEPT !.out = FALSE]
                                        ELSE d.nodes[n]]]

\* AL_Dpb_sBeginNewSeq
BeginNewSeq(d) == [d EXCEPT !.iLastDisplayedPOC = INT32_MIN]

---------------------------------------------------------------------------
(* Removal and insertion *)

\* AL_Dpb_Remove, with the three RemoveFrom...List.
RemoveNode(d, n) ==
    FillWaitingPicture(
        ReleasePicID(
            [d EXCEPT !.poc = Remove(@, n), !.dec = Remove(@, n),
                      !.uCountRef = IF IsRef(d, n) THEN Decr(@) ELSE @,
                      !.uCountPic = Decr(@), !.nodes[n] = ResetNode,
                      !.waiting = IF @ = n THEN AL_BAD_INDEX ELSE @],
            d.nodes[n].picId))

\* AL_Dpb_RemoveHead
RemoveHead(d) ==
    RemoveNode(IF d.nodes[Head(d.poc)].out THEN Display(d, Head(d.poc)) ELSE d, Head(d.poc))

\* sApiFlush
Flush(d) == BeginNewSeq(FoldLeft(LAMBDA e, n : RemoveHead(e), d, d.poc))

\* AL_Dpb_sGetNextFreeNode
FreeNodes(d) == {n \in Node : ~IsRef(d, n) /\ ~d.nodes[n].out}

\* sApiInsert: a free node, with a picture id or waiting for one, into the
\* lists.  Without a free node the picture is ignored.
InsertInPlace(d, n, p) ==
    LET named == ~p.bNonExisting /\ d.freeIds # <<>>
        after == {i \in DOMAIN d.poc : d.nodes[d.poc[i]].iFramePOC > p.iFramePOC}
        at    == IF after = {} THEN Len(d.poc) + 1
                 ELSE CHOOSE i \in after : \A j \in after : i <= j
    IN  [d EXCEPT
            !.nodes[n] = [ResetNode EXCEPT
                             !.pic = p.pic, !.iFramePOC = p.iFramePOC, !.lsb = p.lsb,
                             !.mark = p.mark, !.out = p.out,
                             !.bNonExisting = p.bNonExisting,
                             !.picId = IF named THEN Last(d.freeIds) ELSE AL_BAD_INDEX],
            !.idNode = IF named THEN [@ EXCEPT ![Last(d.freeIds)] = n] ELSE @,
            !.freeIds = IF named THEN Front(@) ELSE @,
            !.waiting = IF named \/ p.bNonExisting THEN @ ELSE n,
            !.cur = n,
            !.poc = InsertAt(@, at, n), !.dec = Append(@, n),
            !.uCountRef = IF p.mark # "unused" THEN @ + 1 ELSE @,
            !.uCountPic = @ + 1,
            !.uNumOutputPic = IF p.out THEN @ + 1 ELSE @]

Insert(d, p) ==
    IF FreeNodes(d) = {} THEN d
    ELSE LET n == CHOOSE n \in FreeNodes(d) : \A m \in FreeNodes(d) : n <= m
         IN  InsertInPlace(IF d.nodes[n].pic # NoNodePic THEN RemoveNode(d, n) ELSE d, n, p)

---------------------------------------------------------------------------
(* AVC: numbers and marking of the reference pictures *)

\* (Mutant: frame numbers do not wrap.)
PictNumberNoWrap(d, frame_num) ==
    [d EXCEPT !.nodes = [n \in Node |->
        IF IsShort(d, n) /\ Contains(d.dec, n)
        THEN [d.nodes[n] EXCEPT !.picNum = d.nodes[n].frameNum] ELSE d.nodes[n]]]

\* AL_Dpb_PictNumberProcess: the nodes of the decoding order list.
PictNumberProcess(d, frame_num) ==
    LET Wrap(f) == IF f > frame_num THEN f - MaxFrameNum ELSE f
    IN  [d EXCEPT !.nodes = [n \in Node |->
            IF IsShort(d, n) /\ Contains(d.dec, n)
            THEN [d.nodes[n] EXCEPT !.picNum = Wrap(d.nodes[n].frameNum)] ELSE d.nodes[n]]]

\* (Mutant: the reference is still counted.)
SetPicToUnusedCounted(d, n) ==
    ReleasePicID([d EXCEPT !.nodes[n].mark = "unused", !.nodes[n].picId = AL_BAD_INDEX],
                 d.nodes[n].picId)

\* AL_Dpb_sSetPicToUnused
SetPicToUnused(d, n) ==
    ReleasePicID([d EXCEPT !.nodes[n].mark = "unused", !.nodes[n].picId = AL_BAD_INDEX,
                           !.uCountRef = Decr(@)],
                 d.nodes[n].picId)

\* AL_Dpb_sSlidingWindowMarking.  Without a short term reference the node is
\* tMinPicId's initial value, 0.
SlidingWindowMarking(d, limit) ==
    LET shorts == SelectSeq(d.dec, LAMBDA n : IsShort(d, n))
        least  == {i \in DOMAIN shorts : \A j \in DOMAIN shorts :
                      \/ d.nodes[shorts[i]].picNum < d.nodes[shorts[j]].picNum
                      \/ d.nodes[shorts[i]].picNum = d.nodes[shorts[j]].picNum /\ i <= j}
        n      == IF shorts = <<>> THEN 0 ELSE shorts[CHOOSE i \in least : TRUE]
    IN  IF Len(SelectSeq(d.dec, LAMBDA m : IsRef(d, m))) <= limit THEN d
        ELSE IF d.nodes[n].bNonExisting
             THEN RemoveNode([d EXCEPT !.nodes[n].mark = "unused", !.uCountRef = Decr(@)], n)
             ELSE SetPicToUnused(d, n)

\* AL_Dpb_sSwitchLongTermPlace: node n, now a long term reference, goes before
\* the first long term reference with a larger number.  The head of the list
\* does not follow when n is the head: what was between is no longer listed.
SwitchLongTermPlace(d, n) ==
    LET larger == {i \in DOMAIN d.dec : /\ d.dec[i] # n /\ IsLong(d, d.dec[i])
                                        /\ d.nodes[d.dec[i]].lt > d.nodes[n].lt}
        at     == CHOOSE i \in larger : \A j \in larger : i <= j
        before == SubSeq(d.dec, 1, at - 1)
    IN  IF larger = {} THEN d
        ELSE [d EXCEPT !.dec =
                (IF Head(d.dec) = n THEN <<n>> ELSE Append(Remove(before, n), n))
                \o Remove(SubSeq(d.dec, at, Len(d.dec)), n)]

\* The commands: [op, diff, idx], diff for difference_of_pic_nums_minus1 + 1,
\* idx for a long term picture number or frame index, or MMCO 4's largest
\* index plus 1.
PicNumX(d, c) == d.nodes[d.cur].picNum - c.diff

ForListed(d, Test(_), Op(_, _)) == FoldLeft(Op, d, SelectSeq(d.dec, Test))

\* AL_Dpb_sShortTermToUnused
ShortTermToUnused(d, c) ==
    LET found == SelectSeq(d.dec, LAMBDA n : IsShort(d, n) /\ d.nodes[n].picNum = PicNumX(d, c))
    IN  IF found = <<>> THEN d ELSE SetPicToUnused(d, Head(found))

\* AL_Dpb_sLongTermToUnused
LongTermToUnused(d, c) ==
    ForListed(d, LAMBDA n : IsLong(d, n) /\ d.nodes[n].lt = c.idx, SetPicToUnused)

\* AL_Dpb_sLongTermFrameIdxToAShortTerm: the last nodes of the list with the
\* index and with the number, whatever their marking.
ToLongTerm(d, n, idx) ==
    SwitchLongTermPlace([d EXCEPT !.nodes[n].mark = "long", !.nodes[n].lt = idx], n)

LongTermFrameIdxToAShortTerm(d, c) ==
    LET hasIdx == SelectSeq(d.dec, LAMBDA n : d.nodes[n].lt = c.idx)
        hasNum == SelectSeq(d.dec, LAMBDA n : d.nodes[n].picNum = PicNumX(d, c))
        frees  == hasIdx # <<>> /\ hasNum # <<>> /\ Last(hasIdx) # Last(hasNum)
                  /\ IsRef(d, Last(hasIdx))
        e      == IF frees THEN SetPicToUnused(d, Last(hasIdx)) ELSE d
    IN  IF hasNum = <<>> THEN d ELSE ToLongTerm(e, Last(hasNum), c.idx)

\* AL_Dpb_sDecodingMaxLongTermFrameIdx
DecodingMaxLongTermFrameIdx(d, c) ==
    [ForListed(d, LAMBDA n : IsLong(d, n) /\ d.nodes[n].lt < INT32_MAX
                             /\ d.nodes[n].lt > c.idx - 1, SetPicToUnused)
        EXCEPT !.iMaxLongTermFrameIdx = IF c.idx = 0 THEN INT32_MAX ELSE c.idx - 1]

\* AL_Dpb_sSetAllPicAsUnused
SetAllPicAsUnused(d) ==
    LET Drop(e, n) == RemoveNode(IF e.nodes[n].bNonExisting THEN e ELSE Display(e, n), n)
        left       == ForListed(d, LAMBDA n : n # d.cur, Drop)
    IN  BeginNewSeq([left EXCEPT !.nodes[d.cur].iFramePOC = 0, !.nodes[d.cur].frameNum = 0,
                                 !.iMaxLongTermFrameIdx = INT32_MAX, !.bLastHasMMCO5 = TRUE])

\* AL_Dpb_sAssignLongTermFrameIdx
AssignLongTermFrameIdx(d, c) == ToLongTerm(LongTermToUnused(d, c), d.cur, c.idx)

\* AL_Dpb_sAdaptiveMemoryControlMarking
Mmco(d, c) ==
    CASE c.op = 1 -> ShortTermToUnused(d, c)
      [] c.op = 2 -> LongTermToUnused(d, c)
      [] c.op = 3 -> LongTermFrameIdxToAShortTerm(d, c)
      [] c.op = 4 -> DecodingMaxLongTermFrameIdx(d, c)
      [] c.op = 5 -> SetAllPicAsUnused(d)
      [] c.op = 6 -> AssignLongTermFrameIdx(d, c)
AdaptiveMemoryControlMarking(d, mmco) == FoldLeft(Mmco, d, mmco)

\* AL_Dpb_MarkingProcess.  A picture keeps the memory_management_control_
\* operations of its slice even where adaptive marking is off.
MarkingProcess(d, s, adaptive, limit) ==
    LET numbered == [d EXCEPT !.nodes[d.cur].frameNum = s.frame_num]
        idr      == IF s.long_term_reference_flag
                    THEN [numbered EXCEPT !.nodes[d.cur].lt = 0, !.iMaxLongTermFrameIdx = 0]
                    ELSE [numbered EXCEPT !.iMaxLongTermFrameIdx = INT32_MAX]
        counted  == PictNumberProcess(numbered, s.frame_num)
        marked   == IF adaptive THEN AdaptiveMemoryControlMarking(counted, s.mmco) ELSE counted
        slid     == SlidingWindowMarking(marked, limit)
        failed6  == (\E i \in DOMAIN s.mmco : s.mmco[i].op = 6) /\ ~IsLong(slid, d.cur)
    IN  IF s.idr THEN idr
        ELSE IF failed6 THEN [slid EXCEPT !.nodes[d.cur].mark = "short",
                                          !.nodes[d.cur].lt = INT32_MAX]
        ELSE slid

\* AL_Dpb_AVC_Cleanup
AVC_Cleanup(d, uNumRef) ==
    LET Useless(e, n) == IF ~IsRef(e, n) /\ ~e.nodes[n].out THEN RemoveNode(e, n) ELSE e
        Full(e)       == e.uCountRef > uNumRef \/ e.uCountPic > uNumRef
        Bump(e, n)    == IF Full(e) /\ ~IsRef(e, n) THEN RemoveNode(Display(e, n), n) ELSE e
        swept         == FoldLeft(Useless, d, d.poc)
    IN  FillWaitingPicture(FoldLeft(Bump, swept, swept.poc))

---------------------------------------------------------------------------
(* AVC: the initial reference lists and their modification *)

LongTerms(d) == SelectSeq(d.dec, LAMBDA n : IsLong(d, n))

\* (Mutant: short term references in decoding order.)
OldestFirst(d) == SelectSeq(d.dec, LAMBDA n : IsShort(d, n)) \o LongTerms(d)

\* AL_Dpb_InitPSlice_RefList
InitPSlice_RefList(d) == Reverse(SelectSeq(d.dec, LAMBDA n : IsShort(d, n))) \o LongTerms(d)

\* (Mutant: list 1 stays equal to list 0.)
InitBNoSwap(d, iCurFramePOC) ==
    LET Side(Test(_)) == SelectSeq(d.poc, LAMBDA n : IsShort(d, n) /\ Test(d.nodes[n].iFramePOC))
        less  == Reverse(Side(LAMBDA o : o < iCurFramePOC))
        great == Side(LAMBDA o : o >= iCurFramePOC)
    IN  <<less \o great \o LongTerms(d), great \o less \o LongTerms(d)>>

\* AL_Dpb_InitBSlice_RefList: <<list 0, list 1>>
InitBSlice_RefList(d, iCurFramePOC) ==
    LET less  == Reverse(SelectSeq(d.poc, LAMBDA n : /\ IsShort(d, n)
                                                     /\ d.nodes[n].iFramePOC < iCurFramePOC))
        great == SelectSeq(d.poc, LAMBDA n : /\ IsShort(d, n)
                                             /\ d.nodes[n].iFramePOC >= iCurFramePOC)
        l0    == less \o great \o LongTerms(d)
        l1    == great \o less \o LongTerms(d)
        swap  == Len(l0) > 1 /\ l0 = l1
    IN  <<l0, IF swap THEN <<l1[2], l1[1]>> \o SubSeq(l1, 3, Len(l1)) ELSE l1>>

\* A reference list: an array, AL_BAD_INDEX where there is no node.
Array(list) == [u \in 0 .. AL_MAX_REF |-> IF u < Len(list) THEN list[u + 1] ELSE AL_BAD_INDEX]

\* The node n found goes to place at of the num first entries; Same tells the
\* entries that are it, and leave their place.
MoveTo(array, num, at, found, Same(_)) ==
    LET shifted == [u \in DOMAIN array |-> IF u > at /\ u <= num THEN array[u - 1] ELSE array[u]]
        put     == [shifted EXCEPT ![at] = Head(found)]
        kept    == SelectSeq([i \in 1 .. num - at |-> put[at + i]], LAMBDA n : ~Same(n))
    IN  IF found = <<>> THEN [array |-> shifted, at |-> at]
        ELSE [array |-> [u \in DOMAIN put |-> IF u - at \in DOMAIN kept THEN kept[u - at] ELSE put[u]],
              at |-> at + 1]

\* AL_Dpb_ModifShortTerm: the picture whose number is diff below (idc 0) or
\* above (idc 1) the one asked before, pred.
PicNumNoWrap(pred, idc, diff) ==
    CASE idc = 0 -> IF pred - diff < 0 THEN pred - diff + MaxFrameNum ELSE pred - diff
      [] idc = 1 -> IF pred + diff >= MaxFrameNum THEN pred + diff - MaxFrameNum ELSE pred + diff

\* (Mutant: the number asked for does not wrap.)
ModifShortNoWrap(d, r, num, frame_num, idc, diff) ==
    LET picNum   == PicNumNoWrap(r.pred, idc, diff)
        Asked(n) == n # AL_BAD_INDEX /\ IsShort(d, n) /\ d.nodes[n].picNum = picNum
        moved    == MoveTo(r.array, num, r.at, SelectSeq(d.dec, Asked), Asked)
    IN  [array |-> moved.array, at |-> moved.at, pred |-> picNum]

ModifShortTerm(d, r, num, frame_num, idc, diff) ==
    LET noWrap  == PicNumNoWrap(r.pred, idc, diff)
        picNum  == IF noWrap > frame_num THEN noWrap - MaxFrameNum ELSE noWrap
        Asked(n) == n # AL_BAD_INDEX /\ IsShort(d, n) /\ d.nodes[n].picNum = picNum
        moved   == MoveTo(r.array, num, r.at, SelectSeq(d.dec, Asked), Asked)
    IN  [array |-> moved.array, at |-> moved.at, pred |-> noWrap]

\* AL_Dpb_ModifLongTerm.  (AL_Dpb_sLongTermPicNumF gives other nodes a number
\* no long term picture has, as long as iMaxLongTermFrameIdx is set.)
ModifLongTerm(d, r, num, idx) ==
    LET Asked(n) == n # AL_BAD_INDEX /\ IsLong(d, n) /\ d.nodes[n].lt = idx
        moved    == MoveTo(r.array, num, r.at, SelectSeq(d.dec, Asked), Asked)
    IN  [array |-> moved.array, at |-> moved.at, pred |-> r.pred]

---------------------------------------------------------------------------
(* HEVC *)

\* AL_Dpb_SetMarkingFlag
SetMarkingFlag(d, n, mark) ==
    [d EXCEPT !.nodes[n].mark = mark,
              !.uCountRef = IF IsRef(d, n) /\ mark = "unused" THEN Decr(@)
                            ELSE IF ~IsRef(d, n) /\ mark # "unused" THEN @ + 1 ELSE @]

FirstOr(found) == IF found = <<>> THEN AL_BAD_INDEX ELSE Head(found)

\* AL_Dpb_SearchPOC
SearchPOC(d, iPOC) ==
    FirstOr(SelectSeq(d.poc, LAMBDA n : /\ d.nodes[n].iFramePOC = iPOC /\ IsRef(d, n)
                                        /\ ~d.nodes[n].bNonExisting))

\* AL_Dpb_SearchPocLsb
SearchPocLsb(d, lsb) == FirstOr(SelectSeq(d.dec, LAMBDA n : d.nodes[n].lsb = lsb /\ IsRef(d, n)))

\* AL_Dpb_IncrementPicLatency, for every picture.
IncrementPicLatency(d, iCurFramePOC) ==
    [d EXCEPT !.nodes = [n \in Node |->
        IF Contains(d.poc, n) /\ d.nodes[n].iFramePOC > iCurFramePOC
        THEN [d.nodes[n] EXCEPT !.latency = @ + 1] ELSE d.nodes[n]]]

\* AL_Dpb_HEVC_Cleanup
HEVC_Cleanup(d, uMaxLatency, MaxNumOutput) ==
    LET Step(e, n) ==
            LET f == IF e.nodes[n].out /\ \/ e.nodes[n].latency >= uMaxLatency
                                          \/ e.uNumOutputPic > MaxNumOutput
                     THEN Display(e, n) ELSE e
            IN  IF ~IsRef(f, n) /\ ~f.nodes[n].out THEN RemoveNode(f, n) ELSE f
    IN  FoldLeft(Step, d, d.poc)

\* AL_HEVC_Dpb_RemoveHeadFrame
RemoveHeadFrame(d, uNumRef) == IF d.uCountPic >= uNumRef THEN RemoveHead(d) ELSE d
=============================================================================
