------------------------------ MODULE IdealDpb ------------------------------
(***************************************************************************)
(* What the decoded picture buffer promises (AL_DPB_NORMAL, "Follow DPB    *)
(* specification"): which pictures are held, how each is marked, and which *)
(* are shown, in which order and when.  No node, list, identifier, count   *)
(* or picture order count appears: pictures are a set, and each carries di,*)
(* its rank in the order of display as the encoder meant it.               *)
(*                                                                         *)
(* The module is also the environment: Slices is the set of the pictures a *)
(* conforming stream may continue with.                                    *)
(***************************************************************************)
EXTENDS Integers, Sequences, FiniteSets

CONSTANTS
    Streams,    \* the sequence parameter sets, with the tools the stream uses
                \* and pics, the number of its pictures
    MaxFrameNum \* frame_num is modulo this

VARIABLES
    sps,     \* the stream's
    held,    \* pictures of the DPB: [pic, mark, idx, fn, wait, late, real]
    shown,   \* pictures given to the application, in order
    slice,   \* the last slice
    stream   \* position of the stream

idealVars == <<sps, held, shown, slice, stream>>

NoSlice == [nut |-> "none"]
Begin == [pics |-> 0, n |-> 0, prevFn |-> 0, base |-> 0, last |-> 0, max |-> 0,
          prevRef |-> TRUE, noRasl |-> FALSE, cra |-> -1]

---------------------------------------------------------------------------
(* Output *)

Waiting(H) == {p \in H : p.wait}
Refs(H) == {p \in H : p.mark # "unused"}
Useful(H) == {p \in H : p.wait \/ p.mark # "unused"}

\* The first waiting picture is shown; a picture nothing needs any more leaves.
Bump(st) ==
    LET p == CHOOSE p \in Waiting(st.held) :
                 \A q \in Waiting(st.held) : p.pic.di <= q.pic.di
    IN  [held  |-> Useful((st.held \ {p}) \cup {[p EXCEPT !.wait = FALSE]}),
         shown |-> Append(st.shown, p.pic)]

BumpWhile(Over(_), st) ==
    LET bump[i \in 0 .. Cardinality(Waiting(st.held))] ==
            IF i = 0 THEN st
            ELSE IF Over(bump[i - 1].held) THEN Bump(bump[i - 1]) ELSE bump[i - 1]
    IN  bump[Cardinality(Waiting(st.held))]

BumpAll(st) == BumpWhile(LAMBDA H : TRUE, st)

\* Room for one more among n.
MakeRoom(st, n) == BumpWhile(LAMBDA H : Cardinality(H) >= n,
                             [st EXCEPT !.held = Useful(@)])

---------------------------------------------------------------------------
(* AVC *)

Shorts(H) == {p \in H : p.mark = "short"}
Longs(H) == {p \in H : p.mark = "long"}
Unmark(H, P) == (H \ P) \cup {[p EXCEPT !.mark = "unused", !.idx = 0, !.fn = 0] : p \in P}

RefLimit == IF sps.numRef < sps.maxRefFrames THEN sps.numRef ELSE sps.maxRefFrames

\* Sliding window: the oldest short term reference makes room for one more.
Slide(H) ==
    IF Cardinality(Refs(H)) < RefLimit \/ Shorts(H) = {} THEN H
    ELSE Unmark(H, {p \in Shorts(H) : \A q \in Shorts(H) : p.pic.n <= q.pic.n})

\* One memory management command, on the pictures held before the current one.
Command(H, c) ==
    CASE c.op = 1 -> Unmark(H, {p \in Shorts(H) : p.pic = c.pic})
      [] c.op = 2 -> Unmark(H, {p \in Longs(H) : p.idx = c.idx})
      [] c.op = 3 -> LET G == Unmark(H, {p \in Longs(H) : p.idx = c.idx})
                         p == CHOOSE p \in G : p.pic = c.pic
                     IN  (G \ {p}) \cup {[p EXCEPT !.mark = "long", !.idx = c.idx, !.fn = 0]}
      [] c.op = 4 -> Unmark(H, {p \in Longs(H) : p.idx > c.idx - 1})
      [] c.op = 6 -> Unmark(H, {p \in Longs(H) : p.idx = c.idx})

Commands(H, cmds) ==
    LET done[i \in 0 .. Len(cmds)] == IF i = 0 THEN H ELSE Command(done[i - 1], cmds[i])
    IN  done[Len(cmds)]

HasOp(cmds, op) == \E i \in DOMAIN cmds : cmds[i].op = op

NewPicture(s) ==
    LET lt  == {s.cmds[i].idx : i \in {i \in DOMAIN s.cmds : s.cmds[i].op = 6}}
               \cup (IF s.ltFlag THEN {0} ELSE {})
    IN  [pic |-> s.pic, wait |-> s.out, late |-> 0, real |-> TRUE,
         mark |-> IF ~s.ref THEN "unused" ELSE IF lt # {} THEN "long" ELSE "short",
         idx |-> IF s.ref /\ lt # {} THEN CHOOSE i \in lt : TRUE ELSE 0,
         fn |-> IF s.ref /\ lt = {} /\ ~HasOp(s.cmds, 5) THEN s.fn ELSE 0]

\* The frames a gap of frame_num stands for: references without a picture.
FillGap(st0, s) ==
    LET Missing(i) == [pic |-> [n |-> stream.n + i, di |-> 0], mark |-> "short", idx |-> 0,
                       fn |-> (stream.prevFn + i) % MaxFrameNum, wait |-> FALSE, late |-> 0,
                       real |-> FALSE]
        filled[i \in 0 .. s.gap] ==
            IF i = 0 THEN st0
            ELSE LET st == MakeRoom([filled[i - 1] EXCEPT !.held = Slide(@)], sps.numRef)
                 IN  [st EXCEPT !.held = @ \cup {Missing(i)}]
    IN  filled[s.gap]

Marked(H, s) ==
    IF ~s.ref THEN H ELSE IF s.cmds = <<>> THEN Slide(H) ELSE Commands(H, s.cmds)

\* A picture that is not a reference and would be shown at once is not stored.
StoreAvc(st, s) ==
    LET new   == NewPicture(s)
        all   == [st EXCEPT !.held = Useful(@) \cup {new}]
    IN  BumpWhile(LAMBDA H : Cardinality(H) > sps.numRef, all)

DecodedAvc(st0, s) ==
    LET st == FillGap(st0, s)
    IN  IF s.nut = "IDR" \/ HasOp(s.cmds, 5)
        THEN [held |-> {NewPicture(s)}, shown |-> BumpAll(st).shown]
        ELSE StoreAvc([st EXCEPT !.held = Marked(@, s)], s)

---------------------------------------------------------------------------
(* HEVC *)

\* s.rps: the pictures the current one keeps, [cur, foll, lt].
Kept(s) == s.rps.cur \cup s.rps.foll \cup s.rps.lt

ApplyRps(H, s) ==
    {[p EXCEPT !.mark = IF p.mark = "unused" \/ p.pic \notin Kept(s) THEN "unused"
                        ELSE IF p.pic \in s.rps.lt THEN "long" ELSE "short"] : p \in H}

Late(H) == \/ Cardinality(Waiting(H)) > sps.numReorder
           \/ \E p \in Waiting(H) : p.late >= sps.maxLatency

NewSequence(s) == s.nut = "IDR" \/ (s.nut = "CRA" /\ stream.pics = 0)

DecodedHevc(st0, s) ==
    LET prior == IF NewSequence(s)
                 THEN [held |-> {}, shown |-> IF s.noOut THEN st0.shown ELSE BumpAll(st0).shown]
                 ELSE BumpWhile(LAMBDA H : Late(H) \/ Cardinality(H) >= sps.maxDec,
                                [st0 EXCEPT !.held = Useful(ApplyRps(@, s))])
        older == {IF s.out /\ p.pic.di > s.pic.di THEN [p EXCEPT !.late = @ + 1] ELSE p
                     : p \in prior.held}
        new   == [NewPicture(s) EXCEPT !.mark = "short", !.fn = 0]
    IN  BumpWhile(Late, [prior EXCEPT !.held = older \cup {new}])

\* Leading pictures of a first CRA cannot be decoded.
Skipped(s) == s.nut = "RASL" /\ stream.noRasl

Decoded(st0, s) == IF sps.codec = "AVC" THEN DecodedAvc(st0, s)
                   ELSE IF Skipped(s) THEN st0 ELSE DecodedHevc(st0, s)

---------------------------------------------------------------------------
(* The streams.  st0: [held, shown] before the picture. *)

Dis(H) == {p.pic.di : p \in H}
LastShown(st0) == IF st0.shown = <<>> THEN -1 ELSE st0.shown[Len(st0.shown)].di

\* The display ranks the next picture may have, by how the stream orders them.
Ranks(H, ref) ==
    CASE sps.order = "free"   -> (stream.last - 2 .. stream.last + 2) \ ({stream.last} \cup Dis(H))
      [] sps.order = "decode" -> {stream.max + 1}
      [] sps.order = "paired" ->
            IF ref THEN {stream.max + 2}
            ELSE IF stream.prevRef /\ (stream.last >= stream.base + 2) THEN {stream.last - 1} ELSE {}

NextFn(gap) == IF stream.prevRef \/ gap > 0 THEN (stream.prevFn + 1 + gap) % MaxFrameNum
               ELSE stream.prevFn

Cmd(op, pic, idx) == [op |-> op, pic |-> pic, idx |-> idx]
NoPic == [n |-> 0, di |-> 0]
Idx == 0 .. 1

\* Adaptive marking: one command, or MMCO 4 to allow two long term indices and
\* then one that gives an index.
ToLong(H) == {Cmd(3, p.pic, i) : p \in {q \in Shorts(H) : q.real}, i \in Idx}
          \cup {Cmd(6, NoPic, i) : i \in Idx}
Adaptive(H) ==
    IF ~sps.adaptive THEN {}
    ELSE {<<c>> : c \in {Cmd(1, p.pic, 0) : p \in Shorts(H)}
                        \cup {Cmd(2, NoPic, p.idx) : p \in Longs(H)}
                        \cup {Cmd(4, NoPic, i) : i \in Idx} \cup {Cmd(5, NoPic, 0)}}
         \cup {<<Cmd(4, NoPic, 2), c>> : c \in ToLong(H)}

AvcSlice(nut, ref, fn, di, gap, ltFlag, cmds) ==
    [pic |-> [n |-> stream.n + gap + 1, di |-> di], nut |-> nut, ref |-> ref, fn |-> fn,
     gap |-> gap, ltFlag |-> ltFlag, cmds |-> cmds, out |-> TRUE]

\* A stream is conforming: pictures come out in order of display, and the
\* references fit.
Increasing(seq) == \A i \in 2 .. Len(seq) : seq[i - 1].di < seq[i].di
Conforming(st0, s) ==
    LET st == Decoded(st0, s)
    IN  Increasing(st.shown) /\ Cardinality(Refs(st.held)) <= sps.maxRefFrames

AvcSlices(st0) ==
    {s \in {AvcSlice("IDR", TRUE, 0, stream.max + 1, 0, lt, <<>>) :
                 lt \in IF sps.adaptive THEN BOOLEAN ELSE {FALSE}}
           \cup (IF stream.pics = 0 THEN {}
                 ELSE UNION {{AvcSlice("P", TRUE, NextFn(g), r, g, FALSE, c) :
                                  r \in Ranks(st0.held, TRUE), c \in Adaptive(st0.held) \cup {<<>>}} : g \in sps.gaps}
                      \cup {AvcSlice("P", FALSE, NextFn(0), r, 0, FALSE, <<>>) : r \in Ranks(st0.held, FALSE)})
        : /\ s.pic.di > LastShown(st0) /\ (s.nut = "IDR" \/ s.pic.di > stream.base)
          /\ HasOp(s.cmds, 5) => s.pic.di > stream.max
          /\ Conforming(st0, s)}

HevcSlice(nut, di, rps, noOut, out) ==
    [pic |-> [n |-> stream.n + 1, di |-> di], nut |-> nut, ref |-> TRUE, fn |-> 0, gap |-> 0,
     ltFlag |-> FALSE, cmds |-> <<>>, rps |-> rps, noOut |-> noOut, out |-> out]

\* Reference picture sets: some of the references are used, at most one of the
\* others is kept for later, and the oldest may be kept as a long term one.
NoRps == [cur |-> {}, foll |-> {}, lt |-> {}]
RpsOf(H, P) ==
    {r \in [cur : SUBSET P, foll : {{}} \cup {{p} : p \in P},
            lt : {{}} \cup {{p} : p \in {q \in P : \A o \in P : q.n <= o.n}}] :
        /\ r.cur # {} /\ r.cur \cap r.foll = {}
        /\ r.lt \cap (r.cur \cup r.foll) = {}
        /\ {p.pic : p \in Longs(H)} \cap (r.cur \cup r.foll) = {}
        /\ Cardinality(r.cur \cup r.foll \cup r.lt) < sps.maxDec}

\* The pictures a trailing picture may keep: none from before the last CRA.
Keepable(H, nut) == {p.pic : p \in {q \in Refs(H) : nut = "RASL" \/ q.pic.di >= stream.cra}}

\* An intra picture keeps references for its leading pictures only.
RapRps(H) == {[NoRps EXCEPT !.foll = P] :
               P \in {Q \in SUBSET Keepable(H, "RASL") : Cardinality(Q) < sps.maxDec}}

ReorderOk(st0, s) ==
    /\ Cardinality({p \in Waiting(st0.held) : p.pic.di > s.pic.di}) <= sps.numReorder
    /\ s.pic.di > LastShown(st0) /\ s.pic.di \notin Dis(st0.held)
    /\ Conforming(st0, s)

HevcSlices(st0) ==
    {s \in {HevcSlice(nut, stream.max + k, rps, no, TRUE) :
                 nut \in sps.raps, k \in 1 .. 2, no \in BOOLEAN, rps \in RapRps(st0.held)}
           \cup (IF stream.pics = 0 THEN {}
                 ELSE {HevcSlice(nut, r, rps, FALSE, out) :
                          nut \in {"TRAIL_R", "TRAIL_N"}, r \in Ranks(st0.held, TRUE),
                          rps \in RpsOf(st0.held, Keepable(st0.held, "TRAIL_R")), out \in sps.outs}
                      \cup {HevcSlice("RASL", stream.cra - 1, rps, FALSE, TRUE) :
                          rps \in IF slice.nut = "CRA" THEN RpsOf(st0.held, Keepable(st0.held, "RASL")) ELSE {}})
        : /\ s.nut = "CRA" => (s.noOut <=> stream.pics = 0)
          /\ NewSequence(s) => s.rps = NoRps /\ s.pic.di = stream.max + 1
          /\ ~NewSequence(s) => s.pic.di <= stream.last + 2
          /\ s.nut \in {"TRAIL_R", "TRAIL_N"} => s.pic.di > stream.cra
          /\ ReorderOk(st0, s)}

Slices(st0) ==
    IF stream.pics = sps.pics \/ slice.nut = "end" THEN {}
    ELSE IF sps.codec = "AVC" THEN AvcSlices(st0) ELSE HevcSlices(st0)

\* The stream after slice s.
After(s) ==
    [pics |-> stream.pics + 1, n |-> s.pic.n,
     prevFn |-> IF HasOp(s.cmds, 5) THEN 0 ELSE s.fn,
     base |-> IF s.nut = "IDR" \/ HasOp(s.cmds, 5) \/ NewSequence(s) THEN s.pic.di ELSE stream.base,
     last |-> IF s.ref /\ s.nut \notin {"RASL", "TRAIL_N"} THEN s.pic.di ELSE stream.last,
     max |-> IF s.pic.di > stream.max THEN s.pic.di ELSE stream.max,
     prevRef |-> s.ref,
     noRasl |-> IF s.nut \in {"IDR", "CRA"} THEN NewSequence(s) ELSE stream.noRasl,
     cra |-> IF s.nut \in {"IDR", "CRA"} THEN s.pic.di ELSE stream.cra]

---------------------------------------------------------------------------
IdealInit ==
    /\ sps \in Streams /\ held = {} /\ shown = <<>> /\ slice = NoSlice /\ stream = Begin

IdealDecode(s) ==
    /\ slice' = s /\ stream' = After(s)
    /\ [held |-> held', shown |-> shown'] = Decoded([held |-> held, shown |-> shown], s)
    /\ UNCHANGED sps

IdealFlush ==
    /\ stream.pics > 0 /\ slice.nut # "end"
    /\ shown' = BumpAll([held |-> held, shown |-> shown]).shown
    /\ held' = {} /\ slice' = [nut |-> "end"]
    /\ UNCHANGED <<sps, stream>>

\* The slice is an input.
IdealNext == IdealFlush \/ (slice'.nut # "end" /\ IdealDecode(slice'))
IdealSpec == IdealInit /\ [][IdealNext]_idealVars
=============================================================================
