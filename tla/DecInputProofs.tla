--------------------------- MODULE DecInputProofs ---------------------------
(***************************************************************************)
(* Proofs about DecInput, for every size, stack and program: the frames in *)
(* the hardware, their offsets, when the circular buffer is emptied, and,  *)
(* by the invariant of DecInputInvariant, that what is read is kept.       *)
(***************************************************************************)
EXTENDS DecInputInvariant, QueueLemmas, TLAPS

---------------------------------------------------------------------------
(* The invariant *)

\* Every token of Sem is free, with a frame in the hardware, or about to be
\* released by the callback thread, and the counters of frames differ by the
\* frames in the hardware.
FrameTokens ==
    /\ Sem \in Nat /\ iNumFrmBlk1 \in Nat /\ iNumFrmBlk2 \in Nat
    /\ inflight \in Seq(Range(inflight)) /\ ending \in BOOLEAN
    /\ Sem + Len(inflight) + (IF ending THEN 1 ELSE 0) = iStackSize
    /\ iNumFrmBlk1 = iNumFrmBlk2 + Len(inflight)

RingType == iStreamOffset = [i \in 0 .. iStackSize - 1 |-> iStreamOffset[i]]

LEMMA StackSize == iStackSize \in Nat /\ iStackSize > 0
  BY InputAssumption

\* Only the launch of a frame and the callback thread touch the tokens.
LEMMA OthersKeepFrames ==
  ASSUME [Next]_vars, ~UnitLaunched, ~Callback
  PROVE  UNCHANGED hwVars
  <1>1. CASE App
    BY <1>1 DEF App, Push, FlushCalled, EndOfStreamSeen, Destroying, DestroyCalled,
                DestroyContinues, DestroySlave, SlaveJoined, DestroyStartCodeChannel,
                ChannelDestroyed
  <1>2. CASE SlaveWakes \/ SlaveDrains \/ SlaveReads \/ NoUnit \/ StartCodesAdded
    BY <1>2 DEF SlaveWakes, SlaveDrains, SlaveReads, NoUnit, StartCodesAdded
  <1>3. CASE UnitRefused \/ UnitDropped \/ UnitFatal \/ RoomMade \/ RoomLeft \/ InternalFlush
    BY <1>3 DEF UnitRefused, UnitDropped, UnitFatal, RoomMade, RoomLeft, InternalFlush
  <1>4. CASE StartCodeThread \/ Done \/ UNCHANGED vars
    BY <1>4 DEF StartCodeThread, StartCodesFound, DetectorBusy, EndScd, StartCodeThreadEnds,
                Done, vars
  <1> QED BY <1>1, <1>2, <1>3, <1>4 DEF Next, Slave

LEMMA TokensInit == Init => FrameTokens /\ RingType
  <1> SUFFICES ASSUME Init PROVE FrameTokens /\ RingType
    OBVIOUS
  <1>1. inflight = <<>> /\ Len(inflight) = 0 /\ inflight \in Seq(Range(inflight))
    BY EmptySeq DEF Init
  <1>2. FrameTokens
    BY <1>1, StackSize DEF Init, FrameTokens
  <1>3. RingType
    BY DEF Init, RingType
  <1> QED BY <1>2, <1>3

LEMMA TokensStep == FrameTokens /\ RingType /\ [Next]_vars => FrameTokens' /\ RingType'
  <1> SUFFICES ASSUME FrameTokens, RingType, [Next]_vars PROVE FrameTokens' /\ RingType'
    OBVIOUS
  <1>1. Len(inflight) \in Nat /\ (inflight = <<>> <=> Len(inflight) = 0)
    BY EmptyQueue DEF FrameTokens
  <1>2. CASE UnitLaunched
    <2>1. PICK bytes : inflight' = Append(inflight, bytes)
      BY <1>2 DEF UnitLaunched
    <2>2. inflight' \in Seq(Range(inflight')) /\ Len(inflight') = Len(inflight) + 1
      BY <2>1, Queued DEF FrameTokens
    <2>3. FrameTokens'
      BY <1>1, <1>2, <2>2 DEF UnitLaunched, FrameTokens
    <2>4. PICK end : iStreamOffset' =
                       [iStreamOffset EXCEPT ![iNumFrmBlk1 % iStackSize] = end]
      BY <1>2 DEF UnitLaunched
    <2> QED BY <2>3, <2>4 DEF RingType
  <1>3. CASE EndDecoding
    <2>1. inflight' \in Seq(Range(inflight')) /\ Len(inflight') = Len(inflight) - 1
      BY <1>3, Dequeued DEF EndDecoding, FrameTokens
    <2> QED BY <1>1, <1>3, <2>1 DEF EndDecoding, FrameTokens, RingType
  <1>4. CASE FrameEnded
    <2>1. /\ ending /\ ending' = FALSE /\ Sem' = Sem + 1
          /\ UNCHANGED <<iStreamOffset, iNumFrmBlk1, iNumFrmBlk2, inflight>>
      BY <1>4 DEF FrameEnded
    <2>2. Sem' + Len(inflight') + (IF ending' THEN 1 ELSE 0) = iStackSize
      BY <1>1, <2>1 DEF FrameTokens
    <2>3. RingType'
      BY <2>1 DEF RingType
    <2>4. inflight' \in Seq(Range(inflight'))
      BY <2>1 DEF FrameTokens
    <2>5. Sem' \in Nat /\ iNumFrmBlk1' \in Nat /\ iNumFrmBlk2' \in Nat
      <3>1. Sem \in Nat /\ iNumFrmBlk1 \in Nat /\ iNumFrmBlk2 \in Nat
        BY DEF FrameTokens
      <3> QED BY <2>1, <3>1
    <2>6. iNumFrmBlk1' = iNumFrmBlk2' + Len(inflight')
      BY <2>1 DEF FrameTokens
    <2>7. ending' \in BOOLEAN
      BY <2>1
    <2> QED BY <2>2, <2>3, <2>4, <2>5, <2>6, <2>7 DEF FrameTokens
  <1>5. CASE ~UnitLaunched /\ ~Callback
    <2>1. UNCHANGED hwVars
      BY <1>5, OthersKeepFrames
    <2> QED BY <2>1 DEF hwVars, FrameTokens, RingType
  <1> QED BY <1>2, <1>3, <1>4, <1>5 DEF Callback

\* The tokens of Sem are conserved, whatever the decoder refuses, drops or
\* fails on.
THEOREM TokensConserved == InputSpec => [](FrameTokens /\ RingType)
  BY TokensInit, TokensStep, PTL DEF InputSpec

---------------------------------------------------------------------------
(* What follows *)

\* The circular buffer is emptied under nobody: when WaitFrameSent lets a flush
\* or RoomMade go on, no frame is in the hardware and no callback is on its way.
EmptiedWhenIdle == InternalFlush \/ RoomMade => inflight = <<>> /\ ~ending

THEOREM FlushIsSafe == InputSpec => [][EmptiedWhenIdle]_vars
  <1>1. FrameTokens => EmptiedWhenIdle
    <2> SUFFICES ASSUME FrameTokens, InternalFlush \/ RoomMade
                 PROVE  inflight = <<>> /\ ~ending
      BY DEF EmptiedWhenIdle
    <2>1. Sem = iStackSize
      BY DEF InternalFlush, RoomMade, WaitFrameSent
    <2>2. Len(inflight) \in Nat /\ (inflight = <<>> <=> Len(inflight) = 0)
      BY EmptyQueue DEF FrameTokens
    <2> QED BY <2>1, <2>2, StackSize DEF FrameTokens
  <1>2. FrameTokens /\ [Next]_vars => [EmptiedWhenIdle]_vars
    BY <1>1
  <1> QED BY <1>2, TokensConserved, PTL DEF InputSpec

\* The offset of a frame in the hardware stays in its slot of iStreamOffset until
\* EndDecoding has freed the space before it: a launch writes the slot of a
\* frame that has ended.
OffsetsKept ==
    \A k \in iNumFrmBlk2 .. iNumFrmBlk1 - 1 :
        iStreamOffset'[k % iStackSize] = iStreamOffset[k % iStackSize]

THEOREM OffsetsAreKept == InputSpec => [][OffsetsKept]_vars
  <1>1. FrameTokens /\ RingType /\ [Next]_vars => [OffsetsKept]_vars
    <2> SUFFICES ASSUME FrameTokens, RingType, [Next]_vars,
                        NEW k \in iNumFrmBlk2 .. iNumFrmBlk1 - 1
                 PROVE  iStreamOffset'[k % iStackSize] = iStreamOffset[k % iStackSize]
      BY DEF OffsetsKept
    <2>1. CASE UnitLaunched
      <3>1. Len(inflight) \in Nat
        BY EmptyQueue DEF FrameTokens
      <3>2. Len(inflight) < iStackSize
        BY <2>1, <3>1, StackSize DEF UnitLaunched, FrameTokens
      <3>3. k \in Nat /\ k < iNumFrmBlk1 /\ iNumFrmBlk1 < k + iStackSize
        BY <3>1, <3>2, StackSize DEF FrameTokens
      <3>4. iNumFrmBlk1 % iStackSize # k % iStackSize
        BY <3>3, StackSize, RingPlaces DEF FrameTokens
      <3>5. k % iStackSize \in 0 .. iStackSize - 1
        BY <3>3, StackSize
      <3>6. PICK end : iStreamOffset' =
                         [iStreamOffset EXCEPT ![iNumFrmBlk1 % iStackSize] = end]
        BY <2>1 DEF UnitLaunched
      <3> QED BY <3>4, <3>5, <3>6 DEF RingType
    <2>2. CASE Callback
      BY <2>2 DEF Callback, EndDecoding, FrameEnded
    <2>3. CASE ~UnitLaunched /\ ~Callback
      BY <2>3, OthersKeepFrames DEF hwVars
    <2> QED BY <2>1, <2>2, <2>3
  <1> QED BY <1>1, TokensConserved, PTL DEF InputSpec

---------------------------------------------------------------------------
(* Offsets of the circular buffer *)

\* What the constants are.
LEMMA Sizes ==
  /\ Size \in Nat /\ Size > 2 /\ iStackSize \in Nat /\ iStackSize > 0
  /\ ScdMax \in Nat /\ ScdMax > 0 /\ MAX_NAL_UNIT \in Nat /\ MAX_NAL_UNIT >= ScdMax
  /\ ChunkSizes \subseteq Nat \ {0} /\ Programs \subseteq Prog
  BY InputAssumption DEF Prog

LEMMA SizeIs == Size \in Nat /\ Size > 2
  BY Sizes

\* How far one offset is ahead of another, without the modulo.
LEMMA AheadIs ==
  ASSUME NEW a \in Offset, NEW b \in Offset
  PROVE  /\ Ahead(a, b) = IF a <= b THEN b - a ELSE Size + b - a
         /\ Ahead(a, b) \in Offset
  <1>1. b - a \in Int /\ -Size <= b - a /\ b - a < 2 * Size
    BY SizeIs DEF Offset
  <1>2. (b - a) % Size = IF b - a < 0 THEN b - a + Size
                         ELSE IF b - a >= Size THEN b - a - Size ELSE b - a
    BY <1>1, SizeIs, RingTurn
  <1> DEFINE d == (b - a) % Size
  <1>3. d = IF b - a < 0 THEN b - a + Size
            ELSE IF b - a >= Size THEN b - a - Size ELSE b - a
    BY <1>2
  <1> HIDE DEF d
  <1>4. d = (IF a <= b THEN b - a ELSE Size + b - a) /\ d \in Offset
    BY <1>3, SizeIs DEF Offset
  <1> QED BY <1>4 DEF Ahead, d

\* The offset k cells ahead.
LEMMA Advanced ==
  ASSUME NEW a \in Offset, NEW k \in 0 .. Size
  PROVE  /\ (a + k) % Size = IF a + k >= Size THEN a + k - Size ELSE a + k
         /\ (a + k) % Size \in Offset
         /\ k < Size => Ahead(a, (a + k) % Size) = k
  <1> DEFINE p == (a + k) % Size
  <1>1. a + k \in Int /\ -Size <= a + k /\ a + k < 2 * Size
    BY SizeIs DEF Offset
  <1> DEFINE m == a + k
  <1>2. m \in Int /\ -Size <= m /\ m < 2 * Size
    BY <1>1
  <1>8. m % Size = IF m < 0 THEN m + Size ELSE IF m >= Size THEN m - Size ELSE m
    <2> HIDE DEF m
    <2> QED BY <1>2, SizeIs, RingTurn
  <1>7. p = m % Size /\ m = a + k
    OBVIOUS
  <1> HIDE DEF p, m
  <1>3. p = IF a + k >= Size THEN a + k - Size ELSE a + k
    BY <1>1, <1>7, <1>8, SizeIs DEF Offset
  <1>4. p \in Offset
    BY <1>3, SizeIs DEF Offset
  <1>5. Ahead(a, p) = IF a <= p THEN p - a ELSE Size + p - a
    BY <1>4, AheadIs
  <1>6. k < Size => Ahead(a, p) = k
    BY <1>3, <1>5, SizeIs DEF Offset
  <1> QED BY <1>3, <1>4, <1>6 DEF p

\* Further ahead, from an offset that is ahead.
LEMMA AheadFrom ==
  ASSUME NEW a \in Offset, NEW x \in Offset, NEW k \in Nat, Ahead(a, x) + k < Size
  PROVE  (x + k) % Size \in Offset /\ Ahead(a, (x + k) % Size) = Ahead(a, x) + k
  <1> DEFINE p == (x + k) % Size
             d == Ahead(a, x)
             e == Ahead(a, p)
  <1>1. d = (IF a <= x THEN x - a ELSE Size + x - a) /\ d \in Offset
    BY AheadIs
  <1>2. k \in 0 .. Size
    BY <1>1, SizeIs DEF Offset
  <1>3. p = (IF x + k >= Size THEN x + k - Size ELSE x + k) /\ p \in Offset
    BY <1>2, Advanced
  <1>4. e = IF a <= p THEN p - a ELSE Size + p - a
    BY <1>3, AheadIs
  <1>5. d + k < Size
    OBVIOUS
  <1> HIDE DEF p, d, e
  <1>6. e = d + k
    BY <1>1, <1>3, <1>4, <1>5, SizeIs DEF Offset
  <1> QED BY <1>3, <1>6 DEF p, d, e

\* Offsets are told by how far they are ahead, and are that far apart.
LEMMA AheadTells ==
  ASSUME NEW a \in Offset, NEW x \in Offset, NEW y \in Offset
  PROVE  /\ Ahead(a, a) = 0
         /\ Ahead(a, x) = Ahead(a, y) => x = y
         /\ Ahead(a, x) <= Ahead(a, y) => Ahead(x, y) = Ahead(a, y) - Ahead(a, x)
         /\ Ahead(a, x) < Ahead(a, y) => DeltaPosition(x, y) = Ahead(a, y) - Ahead(a, x)
  <1> DEFINE d == Ahead(a, x)
             e == Ahead(a, y)
             f == Ahead(x, y)
             g == Ahead(a, a)
  <1>1. /\ d = (IF a <= x THEN x - a ELSE Size + x - a)
        /\ e = (IF a <= y THEN y - a ELSE Size + y - a)
        /\ f = (IF x <= y THEN y - x ELSE Size + y - x)
        /\ g = (IF a <= a THEN a - a ELSE Size + a - a)
    BY AheadIs
  <1> HIDE DEF d, e, f, g
  <1>2. g = 0
    BY <1>1, SizeIs DEF Offset
  <1>3. d = e => x = y
    BY <1>1, SizeIs DEF Offset
  <1>4. d <= e => f = e - d
    BY <1>1, SizeIs DEF Offset
  <1>5. d < e => DeltaPosition(x, y) = e - d
    BY <1>1, SizeIs DEF Offset, DeltaPosition
  <1> QED BY <1>2, <1>3, <1>4, <1>5 DEF d, e, f, g

\* CircBuffer_ConsumeUpToOffset, when it consumes no more than is held.
LEMMA Consumed ==
  ASSUME NEW c \in Circ, NEW x \in Offset, Ahead(c.off, x) <= c.avail
  PROVE  /\ CircBuffer_ConsumeUpToOffset(c, x) =
               [off |-> x, avail |-> c.avail - Ahead(c.off, x), last |-> c.last]
         /\ CircBuffer_ConsumeUpToOffset(c, x) \in Circ
  <1> DEFINE d == IF x < c.off THEN x + Size - c.off ELSE x - c.off
             o == CircBuffer_ConsumeUpToOffset(c, x)
             e == Ahead(c.off, x)
             off == c.off
             avail == c.avail
  <1>1. off \in Offset /\ avail \in Offset /\ c.last \in BOOLEAN
    BY DEF Circ
  <1>2. e = (IF off <= x THEN x - off ELSE Size + x - off) /\ e \in Offset
    BY <1>1, AheadIs
  <1>3. o = [off |-> x, avail |-> avail - d, last |-> c.last]
    <2>1. o = [c EXCEPT !.avail = c.avail - d, !.off = x]
      BY DEF CircBuffer_ConsumeUpToOffset
    <2> HIDE DEF d, o
    <2>2. DOMAIN c = {"off", "avail", "last"} /\ c = [i \in {"off", "avail", "last"} |-> c[i]]
      BY DEF Circ
    <2> QED BY <2>1, <2>2
  <1>4. e <= avail
    OBVIOUS
  <1>5. d = IF x < off THEN x + Size - off ELSE x - off
    OBVIOUS
  <1> HIDE DEF d, e, off, avail, o
  <1>6. d = e
    BY <1>1, <1>2, <1>5, SizeIs DEF Offset
  <1>7. avail - e \in Offset
    BY <1>1, <1>2, <1>4, SizeIs DEF Offset
  <1>8. o = [off |-> x, avail |-> avail - e, last |-> c.last]
    BY <1>3, <1>6
  <1>9. o \in Circ
    BY <1>1, <1>7, <1>8 DEF Circ
  <1> QED BY <1>8, <1>9 DEF o, e, avail

\* The least and the greatest of numbers.
LEMMA LeastOf ==
  ASSUME NEW S \in SUBSET Nat, S # {}
  PROVE  Min(S) \in S /\ \A x \in S : Min(S) <= x
  <1>1. \E m \in S : \A x \in S : m <= x
    BY LeastExists
  <1> QED BY <1>1 DEF Min

LEMMA GreatestOf ==
  ASSUME NEW n \in Nat, NEW S \in SUBSET (0 .. n), S # {}
  PROVE  Max(S) \in S /\ \A x \in S : Max(S) >= x
  <1> DEFINE T == {n - x : x \in S}
  <1>1. T \in SUBSET Nat /\ T # {}
    <2>1. \A x \in S : n - x \in Nat
      OBVIOUS
    <2> QED BY <2>1
  <1>2. PICK m \in T : \A y \in T : m <= y
    BY <1>1, LeastExists
  <1>3. PICK z \in S : m = n - z
    BY <1>2
  <1>4. ASSUME NEW x \in S PROVE z >= x
    <2>1. n - x \in T
      OBVIOUS
    <2>2. m <= n - x
      BY <1>2, <2>1
    <2> QED BY <1>3, <2>2
  <1>5. \E y \in S : \A x \in S : y >= x
    BY <1>4
  <1> QED BY <1>5 DEF Max

LEMMA LesserOf ==
  ASSUME NEW a \in Nat, NEW b \in Nat
  PROVE  /\ Min({a, b}) \in Nat /\ Min({a, b}) <= a /\ Min({a, b}) <= b
         /\ Min({a, b}) = a \/ Min({a, b}) = b
  BY LeastOf

---------------------------------------------------------------------------
(* The cells of a program are chained *)

\* FlattenSeq is the last of the sequences its recursion builds: this one exists
\* for every length, or there were a least length without it.
LEMMA FlattenExists ==
  ASSUME NEW s, NEW n \in Nat
  PROVE  \E f : f = [i \in 1 .. n |-> IF i = 1 THEN s[1] ELSE f[i - 1] \o s[i]]
  <1> DEFINE Fold(f, k) == f = [i \in 1 .. k |-> IF i = 1 THEN s[1] ELSE f[i - 1] \o s[i]]
             Bad == {k \in Nat : ~\E f : Fold(f, k)}
  <1>1. SUFFICES ASSUME n \in Bad PROVE FALSE
    BY DEF Bad
  <1>2. PICK m \in Bad : \A k \in Bad : m <= k
    <2>1. Bad \in SUBSET Nat /\ Bad # {}
      BY <1>1
    <2> HIDE DEF Bad
    <2> QED BY <2>1, LeastExists
  <1>3. CASE m = 0
    <2>1. Fold([i \in 1 .. 0 |-> <<>>], 0)
      OBVIOUS
    <2> HIDE DEF Fold
    <2> QED BY <1>2, <1>3, <2>1
  <1>4. CASE m # 0
    <2>1. m \in Nat /\ m - 1 \in Nat /\ m - 1 \notin Bad
      <3>1. m \in Nat
        BY <1>2
      <3> HIDE DEF Bad
      <3> QED BY <1>2, <1>4, <3>1
    <2>2. PICK f : Fold(f, m - 1)
      BY <2>1
    <2> DEFINE g == [i \in 1 .. m |-> IF i = 1 THEN s[1] ELSE f[i - 1] \o s[i]]
    <2>3. ASSUME NEW i \in 1 .. m - 1 PROVE g[i] = f[i]
      <3>1. f[i] = IF i = 1 THEN s[1] ELSE f[i - 1] \o s[i]
        BY <2>2, <2>3
      <3>2. i \in 1 .. m
        BY <2>1, <2>3
      <3> QED BY <3>1, <3>2
    <2>4. \A i \in 1 .. m : i # 1 => g[i - 1] = f[i - 1]
      <3> HIDE DEF g
      <3> QED BY <1>2, <2>1, <2>3
    <2>5. g = [i \in 1 .. m |-> IF i = 1 THEN s[1] ELSE g[i - 1] \o s[i]]
      <3> DEFINE h == g
      <3>1. \A i \in 1 .. m : h[i] = IF i = 1 THEN s[1] ELSE f[i - 1] \o s[i]
        OBVIOUS
      <3>2. h = [i \in 1 .. m |-> h[i]]
        OBVIOUS
      <3> HIDE DEF h
      <3>3. \A i \in 1 .. m : i # 1 => h[i - 1] = f[i - 1]
        BY <2>4 DEF h
      <3>4. h = [i \in 1 .. m |-> IF i = 1 THEN s[1] ELSE h[i - 1] \o s[i]]
        BY <3>1, <3>2, <3>3
      <3> QED BY <3>4 DEF h
    <2>6. Fold(g, m)
      BY <2>5
    <2> HIDE DEF Fold, g
    <2> QED BY <1>2, <2>6
  <1> QED BY <1>3, <1>4

\* The cells of one NAL.
LEMMA NalChained ==
  ASSUME NEW n \in Nat, NEW len \in Nat
  PROVE  LET s == [k \in 1 .. len |-> <<n, k>>]
         IN  /\ s \in Seq(Cell) /\ Chained(s)
             /\ s # <<>> => s[1][2] = 1
  <1> DEFINE s == [k \in 1 .. len |-> <<n, k>>]
  <1>1. s \in [1 .. len -> Cell]
    BY DEF Cell
  <1>2. s \in Seq(Cell) /\ Len(s) = len
    BY <1>1, FunctionIsSeq, SeqDef
  <1>3. Chained(s)
    BY <1>2 DEF Chained, Follows
  <1>4. s # <<>> => s[1][2] = 1
    <2>1. ASSUME s # <<>> PROVE 1 \in 1 .. len
      BY <1>2, <2>1, EmptySeq
    <2> QED BY <2>1
  <1> QED BY <1>2, <1>3, <1>4

\* A chain goes on with a start code, or with the NAL it ended in.
LEMMA ChainJoined ==
  ASSUME NEW s \in Seq(Cell), NEW t \in Seq(Cell), Chained(s), Chained(t),
         s # <<>> /\ t # <<>> => Follows(s[Len(s)], t[1])
  PROVE  s \o t \in Seq(Cell) /\ Chained(s \o t)
  <1> DEFINE u == s \o t
  <1>1. u \in Seq(Cell) /\ Len(u) = Len(s) + Len(t) /\ Len(s) \in Nat /\ Len(t) \in Nat
        /\ \A i \in 1 .. Len(u) : u[i] = IF i <= Len(s) THEN s[i] ELSE t[i - Len(s)]
    BY ConcatProperties
  <1> HIDE DEF u
  <1>2. ASSUME NEW i \in 1 .. Len(u) - 1 PROVE Follows(u[i], u[i + 1])
    <2>1. CASE i < Len(s)
      <3>1. /\ i \in 1 .. Len(s) - 1 /\ i \in 1 .. Len(u) /\ i + 1 \in 1 .. Len(u)
            /\ i <= Len(s) /\ i + 1 <= Len(s)
        BY <1>1, <1>2, <2>1
      <3>2. u[i] = s[i] /\ u[i + 1] = s[i + 1]
        BY <1>1, <3>1
      <3> QED BY <3>1, <3>2 DEF Chained
    <2>2. CASE i = Len(s)
      <3>1. s # <<>> /\ t # <<>>
        BY <1>1, <2>2
      <3>2. u[i] = s[Len(s)] /\ u[i + 1] = t[1]
        <4>1. i \in 1 .. Len(u) /\ i + 1 \in 1 .. Len(u) /\ i + 1 - Len(s) = 1
              /\ ~(i + 1 <= Len(s)) /\ i <= Len(s)
          BY <1>1, <1>2, <2>2
        <4> QED BY <1>1, <2>2, <4>1
      <3> QED BY <3>1, <3>2
    <2>3. CASE i > Len(s)
      <3>1. i - Len(s) \in 1 .. Len(t) - 1
        BY <1>1, <2>3
      <3>2. u[i] = t[i - Len(s)] /\ u[i + 1] = t[i - Len(s) + 1]
        BY <1>1, <2>3
      <3> QED BY <3>1, <3>2 DEF Chained
    <2> QED BY <1>1, <2>1, <2>2, <2>3
  <1>3. Chained(u)
    BY <1>2 DEF Chained
  <1> QED BY <1>1, <1>3 DEF u

\* The cells of a program, by the least number of NALs it could fail for.
LEMMA ProgramChained ==
  ASSUME NEW p \in Prog
  PROVE  CellsOf(p) \in Seq(Cell) /\ Chained(CellsOf(p))
  <1> DEFINE s == [n \in DOMAIN p |-> [k \in 1 .. p[n].len |-> <<n, k>>]]
             N == Len(p)
  <1>1. N \in Nat /\ DOMAIN p = 1 .. N /\ \A n \in 1 .. N : p[n].len \in Nat
    <2> DEFINE R == [nut : STRING, len : Nat]
    <2>1. \A r \in R : r.len \in Nat
      OBVIOUS
    <2>2. p \in Seq(R)
      BY DEF Prog
    <2> HIDE DEF R
    <2>3. N \in Nat /\ DOMAIN p = 1 .. N /\ \A n \in 1 .. N : p[n] \in R
      BY <2>2, ElementOfSeq, LenProperties
    <2> QED BY <2>1, <2>3
  <1>2. \A n \in 1 .. N : s[n] \in Seq(Cell) /\ Chained(s[n])
                          /\ (s[n] # <<>> => s[n][1][2] = 1)
    <2> TAKE n \in 1 .. N
    <2>1. n \in Nat /\ p[n].len \in Nat /\ s[n] = [k \in 1 .. p[n].len |-> <<n, k>>]
      BY <1>1
    <2> HIDE DEF s
    <2> QED BY <2>1, NalChained
  <1>3. s \in Seq(Seq(Cell)) /\ Len(s) = N
    <2>1. s \in [1 .. N -> Seq(Cell)]
      BY <1>1, <1>2
    <2> HIDE DEF s
    <2> QED BY <1>1, <2>1, FunctionIsSeq, SeqDef
  <1> HIDE DEF s, N
  <1>4. CASE N = 0
    <2>1. FlattenSeq(s) = s
      BY <1>3, <1>4 DEF FlattenSeq
    <2>2. s = <<>>
      BY <1>3, <1>4, EmptySeq
    <2>3. <<>> \in Seq(Cell) /\ Chained(<<>>)
      BY DEF Chained
    <2> QED BY <2>1, <2>2, <2>3 DEF CellsOf, s
  <1>5. CASE N # 0
    <2> DEFINE f == CHOOSE f : f = [i \in 1 .. N |-> IF i = 1 THEN s[1] ELSE f[i - 1] \o s[i]]
    <2>1. FlattenSeq(s) = f[N]
      BY <1>3, <1>5 DEF FlattenSeq
    <2>2. f = [i \in 1 .. N |-> IF i = 1 THEN s[1] ELSE f[i - 1] \o s[i]]
      BY <1>1, FlattenExists
    <2> HIDE DEF f
    <2> DEFINE Good(i) == f[i] \in Seq(Cell) /\ Chained(f[i])
               Bad == {i \in 1 .. N : ~Good(i)}
    <2>3. SUFFICES ASSUME Bad # {} PROVE FALSE
      <3>1. Good(N)
        BY <1>1, <1>5, <2>3
      <3> QED BY <2>1, <3>1 DEF CellsOf, s
    <2>4. PICK i \in Bad : \A j \in Bad : i <= j
      <3>1. Bad \in SUBSET Nat
        BY <1>1
      <3> HIDE DEF Bad
      <3> QED BY <2>3, <3>1, LeastExists
    <2>5. CASE i = 1
      BY <1>1, <1>2, <2>2, <2>4, <2>5
    <2>6. CASE i # 1
      <3>1. i - 1 \in 1 .. N /\ i \in 1 .. N /\ i - 1 \notin Bad
        BY <1>1, <2>4, <2>6
      <3>2. Good(i - 1)
        BY <3>1
      <3>3. f[i] = f[i - 1] \o s[i]
        BY <2>2, <2>6, <3>1
      <3>4. s[i] # <<>> => Follows(f[i - 1][Len(f[i - 1])], s[i][1])
        BY <1>2, <3>1 DEF Follows
      <3>5. Good(i)
        BY <1>2, <3>1, <3>2, <3>3, <3>4, ChainJoined
      <3> QED BY <2>4, <3>5
    <2> QED BY <2>5, <2>6
  <1> QED BY <1>4, <1>5

---------------------------------------------------------------------------
(* What the threads ask of each other *)

LEMMA AsksInit == Init => Asks
  <1> SUFFICES ASSUME Init PROVE Asks
    OBVIOUS
  <1>1. Places
    BY DEF Init, Places, Calls, SlavePlaces, Joined
  <1>2. OneWork /\ Requests
    BY DEF Init, OneWork, Requests
  <1> QED BY <1>1, <1>2 DEF Asks

LEMMA PlacesStep == Places /\ [Next]_vars => Places'
  <1> SUFFICES ASSUME Places, [Next]_vars PROVE Places'
    OBVIOUS
  <1>1. CASE Push \/ FlushCalled \/ EndOfStreamSeen
    <2>1. CASE Push
      BY <2>1 DEF Push, Places, slaveVars, historyVars
    <2>2. CASE FlushCalled
      <3>1. incomingWorkSem' \in {incomingWorkSem, incomingWorkSem + 1} /\ app = "pushes"
            /\ app' = "awaits" /\ UNCHANGED <<keepGoing, slave, lost>>
        BY <2>2 DEF FlushCalled, slaveVars, historyVars
      <3> QED BY <3>1 DEF Places, Calls, Joined
    <2>3. CASE EndOfStreamSeen
      BY <2>3 DEF EndOfStreamSeen, Places, slaveVars, historyVars, Calls, Joined
    <2> QED BY <1>1, <2>1, <2>2, <2>3
  <1>2. CASE DestroyCalled
    BY <1>2 DEF DestroyCalled, Places, slaveVars, historyVars, Calls, Joined
  <1>3. CASE DestroyContinues
    BY <1>3 DEF DestroyContinues, DestroySlave, SlaveJoined, DestroyStartCodeChannel,
                ChannelDestroyed, Places, slaveVars, historyVars, Calls, Joined
  <1>4. CASE SlaveWakes
    BY <1>4 DEF SlaveWakes, Places, appVars, historyVars, SlavePlaces
  <1>5. CASE SlaveDrains
    BY <1>5 DEF SlaveDrains, Places, appVars, historyVars, SlavePlaces
  <1>6. CASE SlaveReads
    <2>1. PICK d \in {0, 1} : incomingWorkSem' = incomingWorkSem + d
      BY <1>6 DEF SlaveReads
    <2>2. slave = "read" /\ slave' = "search" /\ UNCHANGED <<app, keepGoing, lost>>
      BY <1>6 DEF SlaveReads, appVars, historyVars
    <2> QED BY <2>1, <2>2 DEF Places, SlavePlaces
  <1>7. CASE NoUnit
    BY <1>7 DEF NoUnit, Places, appVars, SlavePlaces
  <1>8. CASE StartCodesAdded
    <2>1. slave = "detect" /\ slave' \in {"detect", "search", "notFound"}
      BY <1>8 DEF StartCodesAdded
    <2> QED BY <1>8, <2>1 DEF StartCodesAdded, Places, appVars, historyVars, SlavePlaces
  <1>9. CASE UnitLaunched \/ UnitRefused \/ UnitDropped \/ UnitFatal
    BY <1>9 DEF UnitLaunched, UnitRefused, UnitDropped, UnitFatal, Places, appVars,
                historyVars, SlavePlaces, LookAgain, NextRound
  <1>10. CASE RoomMade
    <2>1. slave = "notFound" /\ slave' \in SlavePlaces
      BY <1>10 DEF RoomMade, LastOrNext, NextRound, SlavePlaces
    <2>2. lost' \in BOOLEAN
      BY <1>10 DEF RoomMade, Places
    <2> QED BY <1>10, <2>1, <2>2 DEF RoomMade, Places, appVars
  <1>11. CASE RoomLeft
    BY <1>11 DEF RoomLeft, Places, appVars, historyVars, SlavePlaces, LastOrNext, NextRound
  <1>12. CASE InternalFlush
    BY <1>12 DEF InternalFlush, Places, appVars, SlavePlaces, NextRound
  <1>13. CASE StartCodeThread \/ Callback
    BY <1>13 DEF StartCodeThread, StartCodesFound, DetectorBusy, EndScd, StartCodeThreadEnds,
                 Callback, EndDecoding, FrameEnded, Places, appVars, slaveVars, historyVars
  <1>14. CASE UNCHANGED vars
    BY <1>14 DEF vars, Places, appVars, slaveVars, historyVars
  <1> QED
    BY <1>1, <1>2, <1>3, <1>4, <1>5, <1>6, <1>7, <1>8, <1>9, <1>10, <1>11, <1>12, <1>13, <1>14
    DEF Next, App, Slave, Destroying, Done

\* Only SlaveReads and SlaveJoined touch the buffer being copied, only four
\* actions the requests to the detector.
LEMMA WorkMoves ==
  ASSUME [Next]_vars, ~SlaveReads, ~SlaveJoined
  PROVE  workBuf' = workBuf
  BY DEF Next, App, Push, FlushCalled, EndOfStreamSeen, Destroying, DestroyCalled,
         DestroyContinues, DestroySlave, DestroyStartCodeChannel, ChannelDestroyed,
         Slave, SlaveWakes, SlaveDrains, NoUnit, StartCodesAdded, UnitLaunched, UnitRefused,
         UnitDropped, UnitFatal, RoomMade, RoomLeft, InternalFlush, StartCodeThread,
         StartCodesFound, DetectorBusy, EndScd, StartCodeThreadEnds, Callback, EndDecoding,
         FrameEnded, Done, vars

LEMMA OneWorkStep == OneWork /\ [Next]_vars => OneWork'
  <1> SUFFICES ASSUME OneWork, [Next]_vars PROVE OneWork'
    OBVIOUS
  <1>1. CASE SlaveReads
    <2>1. workBuf' = <<>> \/ \E w : workBuf' = <<w>>
      BY <1>1 DEF SlaveReads
    <2> QED BY <2>1 DEF OneWork
  <1>2. CASE SlaveJoined
    BY <1>2 DEF SlaveJoined, OneWork
  <1> QED BY <1>1, <1>2, WorkMoves DEF OneWork

\* At most one message is queued.
LEMMA OneRequest ==
  /\ Append(<<>>, "search") = <<"search">> /\ Append(<<>>, "ended") = <<"ended">>
  /\ Tail(<<"search">>) = <<>> /\ Tail(<<"ended">>) = <<>>
  /\ Head(<<"search">>) = "search" /\ Head(<<"ended">>) = "ended"
  /\ <<"search">> # <<>> /\ <<"ended">> # <<>> /\ <<"search">> # <<"ended">>
  <1>1. <<"search">>[1] = "search" /\ <<"ended">>[1] = "ended"
    OBVIOUS
  <1> QED BY <1>1

LEMMA RequestsMove ==
  ASSUME [Next]_vars, ~DestroyStartCodeChannel, ~NoUnit, ~StartCodesAdded, ~StartCodeThread
  PROVE  scQueue' = scQueue /\ ScDetectionComplete' = ScDetectionComplete
  BY DEF Next, App, Push, FlushCalled, EndOfStreamSeen, Destroying, DestroyCalled,
         DestroyContinues, DestroySlave, SlaveJoined, ChannelDestroyed, SlaveReads,
         Slave, SlaveWakes, SlaveDrains, UnitLaunched, UnitRefused,
         UnitDropped, UnitFatal, RoomMade, RoomLeft, InternalFlush, Callback, EndDecoding,
         FrameEnded, Done, vars, scdVars

\* Where the slave thread goes in the other actions.
LEMMA SlaveMoves ==
  ASSUME [Next]_vars, ~NoUnit, ~StartCodesAdded
  PROVE  \/ slave' = slave
         \/ slave # "detect" /\ slave # "ended" /\ slave' # "detect"
  <1>1. CASE App \/ StartCodeThread \/ Callback \/ Done \/ UNCHANGED vars
    BY <1>1 DEF App, Push, FlushCalled, EndOfStreamSeen, Destroying, DestroyCalled,
         DestroyContinues, DestroySlave, SlaveJoined, ChannelDestroyed, DestroyStartCodeChannel,
         StartCodeThread, StartCodesFound, DetectorBusy, EndScd, StartCodeThreadEnds,
         Callback, EndDecoding, FrameEnded, Done, vars, slaveVars
  <1>2. CASE SlaveWakes \/ SlaveDrains \/ SlaveReads
    BY <1>2 DEF SlaveWakes, SlaveDrains, SlaveReads
  <1>3. CASE UnitLaunched \/ UnitRefused \/ UnitDropped \/ UnitFatal
    BY <1>3 DEF UnitLaunched, UnitRefused, UnitDropped, UnitFatal, LookAgain, NextRound
  <1>4. CASE RoomMade
    BY <1>4 DEF RoomMade, LastOrNext, NextRound
  <1>5. CASE RoomLeft \/ InternalFlush
    BY <1>5 DEF RoomLeft, InternalFlush, LastOrNext, NextRound
  <1> QED BY <1>1, <1>2, <1>3, <1>4, <1>5 DEF Next, Slave

\* The application that closes goes on to close.
LEMMA CallsMove ==
  ASSUME [Next]_vars, app \in {"closes", "destroyed"}
  PROVE  app' \in {"closes", "destroyed"}
  <1>1. CASE App
    BY <1>1 DEF App, Push, FlushCalled, EndOfStreamSeen, Destroying, DestroyCalled,
         DestroyContinues, DestroySlave, SlaveJoined, ChannelDestroyed, DestroyStartCodeChannel
  <1>2. CASE Slave
    BY <1>2 DEF Slave, SlaveWakes, SlaveDrains, SlaveReads, NoUnit, StartCodesAdded,
         UnitLaunched, UnitRefused, UnitDropped, UnitFatal, RoomMade, RoomLeft,
         InternalFlush, appVars
  <1>3. CASE StartCodeThread \/ Callback \/ Done \/ UNCHANGED vars
    BY <1>3 DEF StartCodeThread, StartCodesFound, DetectorBusy, EndScd, StartCodeThreadEnds,
         Callback, EndDecoding, FrameEnded, Done, vars, appVars
  <1> QED BY <1>1, <1>2, <1>3 DEF Next

LEMMA RequestsStep == Places /\ Requests /\ [Next]_vars => Requests'
  <1> SUFFICES ASSUME Places, Requests, [Next]_vars PROVE Requests'
    OBVIOUS
  <1>0. scQueue = <<"ended">> => slave = "ended"
    BY DEF Requests, Places, Joined
  <1>1. CASE DestroyStartCodeChannel
    <2>1. slave = "ended" /\ slave' = slave /\ ScDetectionComplete' = ScDetectionComplete
          /\ scQueue' = Append(scQueue, "ended")
      BY <1>1 DEF DestroyStartCodeChannel, Places, Joined, slaveVars
    <2>2. app = "detaches" /\ app' = "closes"
      BY <1>1 DEF DestroyStartCodeChannel
    <2> QED BY <2>1, <2>2, OneRequest DEF Requests
  <1>2. CASE NoUnit
    <2>1. slave = "search" /\ ScDetectionComplete' = ScDetectionComplete
          /\ \/ slave' = "detect" /\ scQueue' = Append(scQueue, "search")
             \/ slave' = "notFound" /\ scQueue' = scQueue
      BY <1>2 DEF NoUnit, SearchSC
    <2>2. scQueue = <<>> /\ ~ScDetectionComplete
      BY <1>0, <2>1, OneRequest DEF Requests
    <2> QED BY <2>1, <2>2, OneRequest DEF Requests
  <1>3. CASE StartCodesAdded
    <2>1. slave = "detect" /\ ScDetectionComplete /\ ScDetectionComplete' = FALSE
          /\ \/ slave' = "detect" /\ scQueue' = Append(scQueue, "search")
             \/ slave' \in {"search", "notFound"} /\ scQueue' = scQueue
      BY <1>3 DEF StartCodesAdded, SearchSC
    <2>2. scQueue = <<>>
      BY <1>0, <2>1, OneRequest DEF Requests
    <2> QED BY <2>1, <2>2, OneRequest DEF Requests
  <1>4. CASE StartCodeThread
    <2>1. slave' = slave /\ app' = app /\ scQueue # <<>> /\ scQueue' = Tail(scQueue)
          /\ \/ Head(scQueue) = "search" /\ ScDetectionComplete' = TRUE
             \/ Head(scQueue) = "ended" /\ ScDetectionComplete' = ScDetectionComplete
      BY <1>4 DEF StartCodeThread, StartCodesFound, DetectorBusy, EndScd, StartCodeThreadEnds,
                  slaveVars, appVars
    <2>2. scQueue' = <<>>
      BY <2>1, OneRequest DEF Requests
    <2>3. CASE scQueue = <<"search">>
      <3>1. ScDetectionComplete' = TRUE /\ slave = "detect"
        BY <2>1, <2>3, OneRequest DEF Requests
      <3> QED BY <2>1, <2>2, <3>1, OneRequest DEF Requests
    <2>4. CASE scQueue = <<"ended">>
      <3>1. ScDetectionComplete' = ScDetectionComplete /\ slave = "ended"
        BY <1>0, <2>1, <2>4, OneRequest DEF Requests
      <3> QED BY <2>1, <2>2, <3>1, OneRequest DEF Requests
    <2> QED BY <2>1, <2>3, <2>4 DEF Requests
  <1>5. CASE ~DestroyStartCodeChannel /\ ~NoUnit /\ ~StartCodesAdded /\ ~StartCodeThread
    <2>1. scQueue' = scQueue /\ ScDetectionComplete' = ScDetectionComplete
      BY <1>5, RequestsMove
    <2>2. slave' = slave \/ (slave # "detect" /\ slave' # "detect")
      BY <1>5, SlaveMoves
    <2>3. app \in {"closes", "destroyed"} => app' \in {"closes", "destroyed"}
      BY CallsMove
    <2> QED BY <2>1, <2>2, <2>3 DEF Requests
  <1> QED BY <1>1, <1>2, <1>3, <1>4, <1>5

LEMMA AsksStep == Asks /\ [Next]_vars => Asks'
  BY PlacesStep, OneWorkStep, RequestsStep DEF Asks

---------------------------------------------------------------------------
(* What a step leaves alone *)

\* The invariant, as long as no input is discarded.
InputData ==
    InputTypes /\ TableHasRoom /\ OffsetsInOrder /\ FramesKept /\ StatusRight /\ CellsInOrder

\* What the circular buffer is read by, and what is still to be copied.
circPlaces == <<circVars, tableVars, iCurOffset, iStreamOffset, iNumFrmBlk2, inflight>>
pending == <<prog, input, fifo, workBuf, eosMeta>>

LEMMA TypesStay ==
  ASSUME InputTypes, UNCHANGED <<circPlaces, pending>>
  PROVE  InputTypes'
  BY DEF InputTypes, circPlaces, pending, circVars, tableVars

LEMMA OffsetsStay ==
  ASSUME OffsetsInOrder, FramesKept, RingChained, TableRead, UNCHANGED circPlaces
  PROVE  OffsetsInOrder' /\ FramesKept' /\ RingChained' /\ TableRead'
  <1>1. /\ out' = out /\ view' = view /\ ring' = ring /\ table' = table
        /\ iCurNalStreamOffset' = iCurNalStreamOffset /\ iCurOffset' = iCurOffset
        /\ iStreamOffset' = iStreamOffset /\ iNumFrmBlk2' = iNumFrmBlk2 /\ inflight' = inflight
    BY DEF circPlaces, circVars, tableVars
  <1>2. OffsetsInOrder'
    BY <1>1 DEF OffsetsInOrder, At, EndAt
  <1>3. FramesKept'
    BY <1>1 DEF FramesKept, At, FrameEnd
  <1>4. RingChained'
    BY <1>1 DEF RingChained, At
  <1>5. TableRead'
    BY <1>1 DEF TableRead, At
  <1> QED BY <1>2, <1>3, <1>4, <1>5

LEMMA StatusStays ==
  ASSUME StatusRight, UNCHANGED <<ring, view>>,
         ~ScDetectionComplete' \/ UNCHANGED <<ScDetectionComplete, ScdStatus>>
  PROVE  StatusRight'
  BY DEF StatusRight, StatusTells, Unseen

LEMMA AppMoves ==
  ASSUME Places, [Next]_vars
  PROVE  /\ app \in Joined => app' \in Joined
         /\ app' \in {"pushes", "awaits"} => app \in {"pushes", "awaits"}
         /\ prog' = prog
  <1>1. CASE App
    BY <1>1 DEF Places, Joined, App, Push, FlushCalled, EndOfStreamSeen, Destroying, DestroyCalled,
         DestroyContinues, DestroySlave, SlaveJoined, ChannelDestroyed, DestroyStartCodeChannel
  <1>2. CASE Slave
    BY <1>2 DEF Slave, SlaveWakes, SlaveDrains, SlaveReads, NoUnit, StartCodesAdded,
         UnitLaunched, UnitRefused, UnitDropped, UnitFatal, RoomMade, RoomLeft,
         InternalFlush, appVars
  <1>3. CASE StartCodeThread \/ Callback \/ Done \/ UNCHANGED vars
    BY <1>3 DEF StartCodeThread, StartCodesFound, DetectorBusy, EndScd, StartCodeThreadEnds,
         Callback, EndDecoding, FrameEnded, Done, vars, appVars
  <1> QED BY <1>1, <1>2, <1>3 DEF Next

LEMMA PendingStays ==
  ASSUME EosParts, BuffersChained, InputChained, UNCHANGED <<pending, out, ring>>,
         app \in Joined => app' \in Joined,
         app' \in {"pushes", "awaits"} => app \in {"pushes", "awaits"}
  PROVE  EosParts' /\ BuffersChained' /\ InputChained'
  <1>1. /\ out' = out /\ ring' = ring /\ prog' = prog /\ input' = input /\ fifo' = fifo
        /\ workBuf' = workBuf /\ eosMeta' = eosMeta
    BY DEF pending
  <1>2. EosParts'
    BY <1>1 DEF EosParts, EosHalf
  <1>3. BuffersChained'
    BY <1>1 DEF BuffersChained, NextCell, BufMeta, LastHeld
  <1>4. InputChained'
    BY <1>1 DEF InputChained, LastHeld, IsFlush, Nut
  <1> QED BY <1>2, <1>3, <1>4

\* What changes none of it.
LEMMA Idle ==
  ASSUME InputData, Places, [Next]_vars, UNCHANGED <<circPlaces, pending>>,
         slave' = "detect" => TableHasRoom', StatusRight'
  PROVE  InputData'
  <1>1. UNCHANGED circPlaces /\ UNCHANGED pending /\ UNCHANGED <<ring, view, out, table>>
    BY DEF circPlaces, circVars, tableVars
  <1>2. InputTypes'
    BY TypesStay DEF InputData
  <1>3. OffsetsInOrder' /\ FramesKept' /\ RingChained' /\ TableRead'
    BY <1>1, OffsetsStay DEF InputData, CellsInOrder
  <1>5. EosParts' /\ BuffersChained' /\ InputChained'
    BY <1>1, AppMoves, PendingStays DEF InputData, CellsInOrder
  <1>6. TableHasRoom'
    BY <1>1 DEF InputData, TableHasRoom
  <1> QED BY <1>2, <1>3, <1>5, <1>6 DEF InputData, CellsInOrder

\* The actions that leave both alone.
IdleSteps ==
    \/ EndOfStreamSeen \/ DestroySlave \/ DestroyStartCodeChannel \/ ChannelDestroyed
    \/ SlaveWakes \/ SlaveDrains \/ UnitFatal \/ RoomLeft \/ StartCodeThreadEnds
    \/ FrameEnded \/ Done \/ UNCHANGED vars

LEMMA IdleStep ==
  ASSUME InputData, Places, [Next]_vars, IdleSteps
  PROVE  InputData'
  <1>1. UNCHANGED <<circPlaces, pending>> /\ UNCHANGED <<ScDetectionComplete, ScdStatus>>
    <2>1. CASE EndOfStreamSeen \/ DestroySlave \/ DestroyStartCodeChannel \/ ChannelDestroyed
      BY <2>1 DEF EndOfStreamSeen, DestroySlave, DestroyStartCodeChannel, ChannelDestroyed,
                  circPlaces, pending, hwVars, scdVars
    <2>2. CASE SlaveWakes \/ SlaveDrains \/ UnitFatal \/ RoomLeft \/ StartCodeThreadEnds
      BY <2>2 DEF SlaveWakes, SlaveDrains, UnitFatal, RoomLeft, StartCodeThreadEnds, appVars,
                  circPlaces, pending, hwVars, scdVars
    <2>3. CASE FrameEnded \/ Done \/ UNCHANGED vars
      BY <2>3 DEF FrameEnded, Done, vars, appVars, circPlaces, pending, hwVars, scdVars
    <2> QED BY <2>1, <2>2, <2>3 DEF IdleSteps
  <1>2. UNCHANGED <<table, view>>
    BY <1>1 DEF circPlaces, circVars, tableVars
  <1>3. slave' = "detect" => slave = "detect"
    <2>1. (~NoUnit /\ ~StartCodesAdded) \/ slave' = slave
      <3>1. CASE EndOfStreamSeen \/ DestroySlave \/ DestroyStartCodeChannel \/ ChannelDestroyed
        BY <3>1 DEF EndOfStreamSeen, DestroySlave, DestroyStartCodeChannel, ChannelDestroyed, slaveVars
      <3>2. CASE StartCodeThreadEnds \/ FrameEnded \/ Done \/ UNCHANGED vars
        BY <3>2 DEF StartCodeThreadEnds, FrameEnded, Done, vars, slaveVars
      <3>3. CASE SlaveWakes \/ SlaveDrains
        BY <3>3 DEF SlaveWakes, SlaveDrains, NoUnit, StartCodesAdded
      <3>4. CASE UnitFatal \/ RoomLeft
        BY <3>4 DEF UnitFatal, RoomLeft, NoUnit, StartCodesAdded
      <3> QED BY <3>1, <3>2, <3>3, <3>4 DEF IdleSteps
    <2> QED BY <2>1, SlaveMoves
  <1>4. slave' = "detect" => TableHasRoom'
    BY <1>2, <1>3 DEF InputData, TableHasRoom
  <1>5. StatusRight'
    <2>1. UNCHANGED <<ring, view>>
      BY <1>1 DEF circPlaces, circVars
    <2> QED BY <1>1, <2>1, StatusStays DEF InputData
  <1> QED BY <1>1, <1>4, <1>5, Idle

---------------------------------------------------------------------------
(* The unit that is found *)

\* What InputTypes says of the table.
LEMMA NalType ==
  ASSUME InputTypes
  PROVE  /\ Len(table) \in Nat /\ DOMAIN table = 1 .. Len(table)
         /\ \A i \in 1 .. Len(table) :
               /\ table[i] \in NalRange /\ table[i].uPosition \in Offset
               /\ table[i].uSize \in Offset /\ table[i].uSize > 0
         /\ out.off \in Offset /\ view.off \in Offset /\ out.avail \in Offset
         /\ view.avail \in Offset
  <1>1. table \in Seq(NalRange) /\ out \in Circ /\ view \in Circ
    BY DEF InputTypes
  <1>2. Len(table) \in Nat /\ DOMAIN table = 1 .. Len(table)
        /\ \A i \in 1 .. Len(table) : table[i] \in NalRange
    BY <1>1, LenProperties, ElementOfSeq
  <1>3. \A n \in NalRange : n.uPosition \in Offset /\ n.uSize \in Offset /\ n.uSize > 0
    BY SizeIs DEF NalRange, Offset
  <1> QED BY <1>1, <1>2, <1>3 DEF Circ

\* Where a NAL ends.
LEMMA EndOfNal ==
  ASSUME InputTypes, OffsetsInOrder, NEW i \in 1 .. Len(table)
  PROVE  /\ EndOf(table[i]) \in Offset /\ At(EndOf(table[i])) = EndAt(i)
         /\ At(table[i].uPosition) \in Offset /\ EndAt(i) \in Offset
         /\ At(table[i].uPosition) < EndAt(i)
  <1> DEFINE p == table[i].uPosition
             n == table[i].uSize
             o == out.off
  <1>1. p \in Offset /\ n \in Offset /\ n > 0 /\ o \in Offset
    BY NalType
  <1>2. Ahead(o, p) \in Offset
    BY <1>1, AheadIs
  <1>3. EndAt(i) = Ahead(o, p) + n /\ EndAt(i) <= At(view.off)
    BY NalType DEF EndAt, At, OffsetsInOrder
  <1>4. At(view.off) \in Offset
    BY NalType, AheadIs DEF At
  <1>5. EndAt(i) < Size /\ EndAt(i) \in Offset /\ Ahead(o, p) < EndAt(i)
    BY <1>1, <1>2, <1>3, <1>4, SizeIs DEF Offset
  <1>6. n \in Nat /\ Ahead(o, p) + n < Size
    BY <1>1, <1>3, <1>5 DEF Offset
  <1>7. (p + n) % Size \in Offset /\ Ahead(o, (p + n) % Size) = Ahead(o, p) + n
    BY <1>1, <1>6, AheadFrom
  <1> QED BY <1>2, <1>3, <1>5, <1>7 DEF EndOf, At

\* A unit is a beginning of the table, with a slice in it.
LEMMA UnitIs ==
  ASSUME InputTypes, UnitLength > 0
  PROVE  /\ UnitLength \in 1 .. Len(table) - 1 /\ Len(Unit) = UnitLength
         /\ Unit \in Seq(NalRange) /\ DOMAIN Unit = 1 .. UnitLength
         /\ \A i \in 1 .. UnitLength : Unit[i] = table[i]
         /\ \E i \in 1 .. UnitLength : IsVcl(table[i].nal)
  <1> DEFINE ends == {i \in DOMAIN table : EndsUnit(i)}
             u == UnitLength
  <1>1. Len(table) \in Nat /\ DOMAIN table = 1 .. Len(table) /\ table \in Seq(NalRange)
    BY NalType DEF InputTypes
  <1>2. ends # {} /\ u = Min(ends) - 1
    BY DEF UnitLength
  <1>3. Min(ends) \in ends
    <2>1. ends \in SUBSET Nat
      BY <1>1
    <2> HIDE DEF ends
    <2> QED BY <1>2, <2>1, LeastOf
  <1>4. PICK j \in 1 .. Min(ends) - 1 : IsVcl(table[j].nal)
    BY <1>3 DEF EndsUnit, VclSeen
  <1>5. Min(ends) \in 1 .. Len(table)
    BY <1>1, <1>3
  <1>6. u \in 1 .. Len(table) - 1 /\ j \in 1 .. u
    <2> DEFINE m == Min(ends)
    <2>1. m \in 1 .. Len(table) /\ j \in 1 .. m - 1 /\ u = m - 1
      BY <1>2, <1>4, <1>5
    <2> HIDE DEF m, u
    <2> QED BY <1>1, <2>1
  <1> HIDE DEF ends
  <1>7. /\ SubSeq(table, 1, u) \in Seq(NalRange) /\ Len(SubSeq(table, 1, u)) = u
        /\ \A i \in 1 .. u : SubSeq(table, 1, u)[i] = table[i]
    <2> HIDE DEF u
    <2> QED BY <1>1, <1>6, SubSeqProperties
  <1>8. Unit = SubSeq(table, 1, u)
    BY DEF Unit
  <1> HIDE DEF u
  <1>9. DOMAIN Unit = 1 .. u
    BY <1>7, <1>8, LenProperties
  <1>10. \E i \in 1 .. u : IsVcl(table[i].nal)
    BY <1>4, <1>6
  <1> QED BY <1>6, <1>7, <1>8, <1>9, <1>10 DEF u

\* The last slice is in the unit.
LEMMA LastVclIs ==
  ASSUME InputTypes, UnitLength > 0
  PROVE  \E k \in 1 .. UnitLength : LastVcl = table[k]
  <1> DEFINE S == {i \in DOMAIN Unit : IsVcl(Unit[i].nal)}
             u == UnitLength
  <1>1. u \in Nat /\ DOMAIN Unit = 1 .. u /\ \A i \in 1 .. u : Unit[i] = table[i]
    BY UnitIs, NalType
  <1>2. S \in SUBSET (0 .. u) /\ S # {}
    BY <1>1, UnitIs
  <1>3. Max(S) \in S
    <2> HIDE DEF S, u
    <2> QED BY <1>1, <1>2, GreatestOf
  <1>4. LastVcl = Unit[Max(S)]
    BY DEF LastVcl
  <1> QED BY <1>1, <1>3, <1>4

\* The NALs of the unit leave the table.
LEMMA UnitConsumed ==
  ASSUME InputTypes, OffsetsInOrder, UnitLength > 0, ConsumeUnit,
         NEW u, u = UnitLength
  PROVE  /\ u \in 1 .. Len(table) - 1
         /\ table' \in Seq(NalRange) /\ Len(table') = Len(table) - u
         /\ DOMAIN table' = 1 .. Len(table) - u
         /\ \A i \in 1 .. Len(table') : i + u \in 1 .. Len(table) /\ table'[i] = table[i + u]
         /\ iCurNalStreamOffset' = EndOf(table[u])
         /\ iCurNalStreamOffset' \in Offset /\ At(iCurNalStreamOffset') = EndAt(u)
  <1>1. u \in 1 .. Len(table) - 1 /\ Len(Unit) = u /\ Unit[u] = table[u]
    BY UnitIs
  <1>2. Len(table) \in Nat /\ table \in Seq(NalRange)
    BY NalType DEF InputTypes
  <1>3. iCurNalStreamOffset' = EndOf(table[u]) /\ table' = SubSeq(table, u + 1, Len(table))
    BY <1>1 DEF ConsumeUnit
  <1>4. /\ table' \in Seq(NalRange) /\ Len(table') = Len(table) - u
        /\ \A i \in 1 .. Len(table) - u : table'[i] = table[i + u]
    BY <1>1, <1>2, <1>3, SubSeqProperties
  <1>5. DOMAIN table' = 1 .. Len(table) - u
    BY <1>4, LenProperties
  <1>6. \A i \in 1 .. Len(table) - u : i + u \in 1 .. Len(table)
    BY <1>1, <1>2
  <1>7. EndOf(table[u]) \in Offset /\ At(EndOf(table[u])) = EndAt(u)
    BY <1>1, <1>2, EndOfNal
  <1> QED BY <1>1, <1>3, <1>4, <1>5, <1>6, <1>7

---------------------------------------------------------------------------
(* A unit leaves the table *)

\* Offsets are less than Size ahead.
LEMMA AtType ==
  ASSUME InputTypes, NEW q \in Offset
  PROVE  At(q) \in Offset /\ At(q) \in Nat /\ At(q) < Size
  <1>1. out.off \in Offset
    BY NalType
  <1>2. At(q) \in Offset
    BY <1>1, AheadIs DEF At
  <1> QED BY <1>2, SizeIs DEF Offset

LEMMA PlaceTypes ==
  ASSUME InputTypes
  PROVE  /\ iCurOffset \in Offset /\ iCurNalStreamOffset \in Offset
         /\ out.off \in Offset /\ view.off \in Offset
         /\ out.avail \in Nat /\ view.avail \in Nat /\ out.avail < Size /\ view.avail < Size
         /\ At(iCurOffset) \in Nat /\ At(iCurNalStreamOffset) \in Nat /\ At(view.off) \in Nat
  <1>1. /\ iCurOffset \in Offset /\ iCurNalStreamOffset \in Offset
        /\ out.off \in Offset /\ view.off \in Offset
        /\ out.avail \in Offset /\ view.avail \in Offset
    BY NalType DEF InputTypes
  <1>2. At(iCurOffset) \in Nat /\ At(iCurNalStreamOffset) \in Nat /\ At(view.off) \in Nat
    BY <1>1, AtType
  <1> QED BY <1>1, <1>2, SizeIs DEF Offset

\* A unit leaves the table: the NALs behind it stay in order.
LEMMA ConsumeKeepsOrder ==
  ASSUME InputTypes, OffsetsInOrder, TableRead, RingChained, UnitLength > 0, ConsumeUnit,
         UNCHANGED <<out, view, ring, iCurOffset>>
  PROVE  /\ OffsetsInOrder' /\ TableRead' /\ RingChained'
         /\ iCurNalStreamOffset' \in Offset /\ table' \in Seq(NalRange)
         /\ Len(table') <= Len(table)
         /\ \A k \in 1 .. UnitLength :
               /\ At(iCurNalStreamOffset) <= At(table[k].uPosition)
               /\ EndAt(k) <= At(iCurNalStreamOffset')
  <1> DEFINE u == UnitLength
             s == table
             T == table'
             p(i) == At(s[i].uPosition)
             e(i) == EndAt(i)
             c == At(iCurNalStreamOffset)
             v == At(view.off)
             d == At(iCurNalStreamOffset')
  <1>1. /\ u \in 1 .. Len(s) - 1 /\ T \in Seq(NalRange) /\ Len(T) = Len(s) - u
        /\ DOMAIN T = 1 .. Len(s) - u
        /\ \A i \in 1 .. Len(T) : i + u \in 1 .. Len(s) /\ T[i] = s[i + u]
        /\ iCurNalStreamOffset' \in Offset /\ d = e(u)
    BY UnitConsumed
  <1>2. Len(s) \in Nat /\ DOMAIN s = 1 .. Len(s)
    BY NalType
  <1>3. /\ At(iCurOffset) <= c /\ c <= v /\ v + view.avail = out.avail
        /\ \A i \in 1 .. Len(s) : c <= p(i) /\ e(i) <= v
        /\ \A i, j \in 1 .. Len(s) : i < j => e(i) <= p(j)
    BY <1>2 DEF OffsetsInOrder
  <1>4. \A i \in 1 .. Len(s) : p(i) \in Nat /\ e(i) \in Nat /\ p(i) < e(i)
    BY EndOfNal, SizeIs DEF Offset
  <1>5. At(iCurOffset) \in Nat /\ c \in Nat /\ v \in Nat
    BY PlaceTypes
  <1>7. /\ At(iCurOffset)' = At(iCurOffset) /\ At(iCurNalStreamOffset)' = d
        /\ At(view.off)' = v /\ view'.avail = view.avail /\ out'.avail = out.avail
        /\ \A i \in 1 .. Len(T) : At(table[i].uPosition)' = p(i + u) /\ EndAt(i)' = e(i + u)
    BY <1>1 DEF At, EndAt
  <1>8. \A k \in 1 .. u : c <= p(k) /\ e(k) <= d
    <2> TAKE k \in 1 .. u
    <2>1. k \in 1 .. Len(s) /\ u \in 1 .. Len(s)
      BY <1>1, <1>2
    <2>2. k = u \/ (k < u /\ e(k) <= p(u))
      BY <1>1, <1>2, <1>3, <2>1
    <2> HIDE DEF p, e, c, d, u, s
    <2> QED BY <1>1, <1>3, <1>4, <2>1, <2>2
  <1> HIDE DEF u, s, T, p, e, c, v, d
  <1>9. At(iCurOffset) <= d
    <2>1. u \in 1 .. Len(s)
      BY <1>1, <1>2
    <2> QED BY <1>1, <1>3, <1>4, <1>5, <2>1
  <1>10. d <= v
    BY <1>1, <1>2, <1>3
  <1>11. ASSUME NEW i \in 1 .. Len(T)
         PROVE  /\ d <= p(i + u) /\ e(i + u) <= v
                /\ \A j \in 1 .. Len(T) : i < j => e(i + u) <= p(j + u)
    BY <1>1, <1>2, <1>3
  <1>12. OffsetsInOrder'
    <2>1. DOMAIN table' = 1 .. Len(T)
      BY <1>1 DEF T
    <2>2. \A i \in DOMAIN table' :
            /\ At(iCurNalStreamOffset)' <= At(table[i].uPosition)'
            /\ EndAt(i)' <= At(view.off)'
            /\ \A j \in DOMAIN table' : i < j => EndAt(i)' <= At(table[j].uPosition)'
      BY <1>7, <1>11, <2>1
    <2>3. /\ At(iCurOffset)' <= At(iCurNalStreamOffset)'
          /\ At(iCurNalStreamOffset)' <= At(view.off)'
          /\ At(view.off)' + view'.avail = out'.avail
      BY <1>3, <1>7, <1>9, <1>10
    <2> QED BY <2>2, <2>3 DEF OffsetsInOrder
  <1>13. TableRead'
    <2> SUFFICES ASSUME NEW i \in DOMAIN table'
                 PROVE  /\ \A q \in Offset :
                             Ahead(table'[i].uPosition, q) < table'[i].uSize
                                => ring'[q][1] = table'[i].nal
                        /\ i = Len(table') =>
                             \A q \in Offset : At(table[i].uPosition)' < At(q)' /\ At(q)' < At(view.off)'
                                               => ring'[q][2] # 1
      BY DEF TableRead
    <2>1. i \in 1 .. Len(T) /\ table'[i] = table[i + u] /\ i + u \in DOMAIN table
          /\ (i = Len(T) => i + u = Len(table))
      BY <1>1, <1>2 DEF T, s
    <2>2. \A q : At(q)' = Ahead(out.off, q)
      BY DEF At
    <2>3. \A q \in Offset : Ahead(table[i + u].uPosition, q) < table[i + u].uSize
                              => ring[q][1] = table[i + u].nal
      BY <2>1 DEF TableRead
    <2>4. i + u = Len(table) =>
             \A q \in Offset : At(table[i + u].uPosition) < At(q) /\ At(q) < At(view.off)
                               => ring[q][2] # 1
      BY <2>1 DEF TableRead
    <2> QED BY <2>1, <2>3, <2>4 DEF At, T
  <1>14. RingChained'
    BY DEF RingChained, At
  <1> QED BY <1>1, <1>8, <1>12, <1>13, <1>14 DEF u, s, T, p, e, c, v, d

\* The slot of a frame in the hardware is an offset.
LEMMA FrameEndIs ==
  ASSUME InputTypes, FrameTokens, NEW i \in DOMAIN inflight
  PROVE  FrameEnd(i) \in Offset /\ i \in 1 .. Len(inflight) /\ Len(inflight) \in Nat
  <1>1. i \in Nat /\ i > 0 /\ i \in 1 .. Len(inflight) /\ Len(inflight) \in Nat
    BY EmptyQueue, LenProperties DEF FrameTokens
  <1>2. iNumFrmBlk2 + i - 1 \in Nat
    BY <1>1 DEF FrameTokens
  <1>3. (iNumFrmBlk2 + i - 1) % iStackSize \in 0 .. iStackSize - 1
    <2> DEFINE n == iNumFrmBlk2 + i - 1
    <2>1. n \in Nat
      BY <1>2
    <2> HIDE DEF n
    <2>2. n % iStackSize \in 0 .. iStackSize - 1
      BY <2>1, Sizes
    <2> QED BY <2>2 DEF n
  <1> QED BY <1>1, <1>3 DEF FrameEnd, InputTypes

\* More may be parsed than before.
LEMMA FramesStayKept ==
  ASSUME FramesKept, FrameTokens, InputTypes,
         UNCHANGED <<out, ring, iCurOffset, iStreamOffset, iNumFrmBlk2, inflight>>,
         iCurNalStreamOffset' \in Offset, At(iCurNalStreamOffset) <= At(iCurNalStreamOffset')
  PROVE  FramesKept'
  <1> DEFINE c == At(iCurNalStreamOffset)
             d == At(iCurNalStreamOffset')
  <1>1. c \in Int /\ d \in Int /\ c <= d
    BY PlaceTypes, AtType
  <1>2. At(iCurNalStreamOffset)' = d
    BY DEF At
  <1>3. ASSUME NEW q \in Offset PROVE At(q) \in Int /\ At(q)' = At(q)
    <2>1. At(q) \in Int
      BY AtType
    <2>2. At(q)' = At(q)
      BY DEF At
    <2> QED BY <2>1, <2>2
  <1> SUFFICES ASSUME NEW i \in DOMAIN inflight
               PROVE  /\ At(iCurOffset)' <= At(FrameEnd(i))' /\ At(FrameEnd(i))' <= d
                      /\ \A b \in inflight[i] :
                            /\ b[1] \in Offset /\ ring[b[1]] = b[2]
                            /\ At(iCurOffset)' <= At(b[1])' /\ At(b[1])' < d
                      /\ \A j \in DOMAIN inflight : i < j =>
                            /\ At(FrameEnd(i))' <= At(FrameEnd(j))'
                            /\ \A b \in inflight[j] : At(FrameEnd(i))' <= At(b[1])'
    BY <1>2 DEF FramesKept
  <1>4. /\ At(iCurOffset) <= At(FrameEnd(i)) /\ At(FrameEnd(i)) <= c
        /\ \A b \in inflight[i] :
              /\ b[1] \in Offset /\ ring[b[1]] = b[2]
              /\ At(iCurOffset) <= At(b[1]) /\ At(b[1]) < c
        /\ \A j \in DOMAIN inflight : i < j =>
              /\ At(FrameEnd(i)) <= At(FrameEnd(j))
              /\ \A b \in inflight[j] : At(FrameEnd(i)) <= At(b[1])
    BY DEF FramesKept
  <1>6. /\ At(iCurOffset)' = At(iCurOffset)
        /\ \A j \in DOMAIN inflight : At(FrameEnd(j))' = At(FrameEnd(j))
        /\ \A j \in DOMAIN inflight : \A b \in inflight[j] : At(b[1])' = At(b[1])
    BY DEF At, FrameEnd
  <1>7. At(FrameEnd(i)) \in Int /\ \A b \in inflight[i] : At(b[1]) \in Int
    <2>1. FrameEnd(i) \in Offset
      BY FrameEndIs
    <2> QED BY <1>3, <1>4, <2>1
  <1> HIDE DEF c, d
  <1>8. At(FrameEnd(i)) <= d /\ \A b \in inflight[i] : At(b[1]) < d
    BY <1>1, <1>4, <1>7
  <1> QED BY <1>4, <1>6, <1>8

---------------------------------------------------------------------------
(* and is decoded *)

ConsumedOnly == UnitRefused \/ UnitDropped

\* A unit is consumed and not sent.
LEMMA ConsumeStep ==
  ASSUME InputData, Places, FrameTokens, [Next]_vars, ConsumedOnly
  PROVE  InputData'
  <1>1. /\ UnitLength > 0 /\ ConsumeUnit /\ slave = "search" /\ slave' # "detect"
        /\ UNCHANGED <<circVars, iCurOffset, iStreamOffset, iNumFrmBlk2, inflight, pending>>
        /\ UNCHANGED <<ScDetectionComplete, ScdStatus>>
    BY DEF ConsumedOnly, UnitRefused, UnitDropped, hwVars, scdVars, appVars, pending, LookAgain,
           NextRound
  <1>2. UNCHANGED <<out, view, ring, iCurOffset>>
    BY <1>1 DEF circVars
  <1>3. InputTypes /\ OffsetsInOrder /\ FramesKept /\ StatusRight /\ TableHasRoom
        /\ RingChained /\ TableRead /\ EosParts /\ BuffersChained /\ InputChained
    BY DEF InputData, CellsInOrder
  <1>4. /\ OffsetsInOrder' /\ TableRead' /\ RingChained'
        /\ iCurNalStreamOffset' \in Offset /\ table' \in Seq(NalRange)
        /\ Len(table') <= Len(table)
        /\ \A k \in 1 .. UnitLength :
              /\ At(iCurNalStreamOffset) <= At(table[k].uPosition)
              /\ EndAt(k) <= At(iCurNalStreamOffset')
    BY <1>1, <1>2, <1>3, ConsumeKeepsOrder
  <1>5. At(iCurNalStreamOffset) <= At(iCurNalStreamOffset')
    <2>1. 1 \in 1 .. UnitLength /\ 1 \in 1 .. Len(table)
      BY <1>1, <1>3, UnitIs, NalType
    <2>2. At(table[1].uPosition) \in Nat /\ EndAt(1) \in Nat /\ At(table[1].uPosition) < EndAt(1)
      BY <1>3, <2>1, EndOfNal DEF Offset
    <2>3. At(iCurNalStreamOffset) \in Nat /\ At(iCurNalStreamOffset') \in Nat
      BY <1>3, <1>4, PlaceTypes, AtType
    <2>4. At(iCurNalStreamOffset) <= At(table[1].uPosition) /\ EndAt(1) <= At(iCurNalStreamOffset')
      BY <1>4, <2>1
    <2> QED BY <2>2, <2>3, <2>4
  <1>6. FramesKept'
    BY <1>1, <1>2, <1>3, <1>4, <1>5, FramesStayKept
  <1>7. InputTypes'
    BY <1>1, <1>2, <1>3, <1>4 DEF InputTypes, pending
  <1>8. StatusRight'
    BY <1>1, <1>2, <1>3, StatusStays
  <1>9. EosParts' /\ BuffersChained' /\ InputChained'
    BY <1>1, <1>2, <1>3, AppMoves, PendingStays
  <1>10. TableHasRoom'
    <2>1. Len(table) \in Nat /\ Len(table') \in Nat
      BY <1>3, <1>4, NalType, LenProperties
    <2> QED BY <1>1, <1>3, <1>4, <2>1, Sizes DEF TableHasRoom
  <1> QED BY <1>4, <1>6, <1>7, <1>8, <1>9, <1>10 DEF InputData, CellsInOrder

\* The bytes of a frame are those from its first NAL to the end of its last
\* slice.
LEMMA BytesBetween ==
  ASSUME InputTypes, NEW from \in Offset, NEW end \in Offset, At(from) < At(end),
         NEW q \in Offset, Ahead(from, q) < DeltaPosition(from, end)
  PROVE  At(from) <= At(q) /\ At(q) < At(end)
  <1>1. out.off \in Offset
    BY NalType
  <1> DEFINE a == At(from)
             e == At(end)
             k == Ahead(from, q)
  <1>2. a \in Nat /\ e \in Nat /\ e < Size
    BY AtType
  <1>3. DeltaPosition(from, end) = e - a
    BY <1>1, AheadTells DEF At
  <1>4. k \in Nat /\ k < Size
    BY AheadIs, SizeIs DEF Offset
  <1>5. k < e - a /\ k \in 0 .. Size /\ a + k < Size
    BY <1>2, <1>3, <1>4, SizeIs
  <1>6. (from + k) % Size \in Offset /\ At((from + k) % Size) = a + k
    BY <1>1, <1>4, <1>5, AheadFrom DEF At
  <1>7. Ahead(from, (from + k) % Size) = k
    BY <1>4, <1>5, Advanced
  <1>8. (from + k) % Size = q
    <2> DEFINE r == (from + k) % Size
    <2>1. r \in Offset /\ Ahead(from, r) = Ahead(from, q)
      BY <1>6, <1>7
    <2> HIDE DEF r, k
    <2>2. r = q
      BY <2>1, AheadTells
    <2> QED BY <2>2 DEF r
  <1>9. At(q) = a + k
    BY <1>6, <1>8
  <1> HIDE DEF a, e, k
  <1>10. a <= a + k /\ a + k < e
    BY <1>2, <1>4, <1>5
  <1> QED BY <1>9, <1>10 DEF a, e

LEMMA LaunchedUnit ==
  ASSUME InputTypes, OffsetsInOrder, TableRead, RingChained, FrameTokens, UnitLaunched
  PROVE  \E bytes : \E end \in Offset :
            /\ inflight' = Append(inflight, bytes)
            /\ iStreamOffset' = [iStreamOffset EXCEPT ![iNumFrmBlk1 % iStackSize] = end]
            /\ At(iCurNalStreamOffset) <= At(end) /\ At(end) <= At(iCurNalStreamOffset')
            /\ \A b \in bytes : /\ b[1] \in Offset /\ ring[b[1]] = b[2]
                                /\ At(iCurNalStreamOffset) <= At(b[1]) /\ At(b[1]) < At(end)
  <1> DEFINE from == Unit[1].uPosition
             end == EndOf(LastVcl)
             bytes == {<<p, ring[p]>> : p \in {q \in 0 .. Size - 1 :
                                  Ahead(from, q) < DeltaPosition(from, end)}}
  <1>1. /\ UnitLength > 0 /\ ConsumeUnit
        /\ inflight' = Append(inflight, bytes)
        /\ iStreamOffset' = [iStreamOffset EXCEPT ![iNumFrmBlk1 % iStackSize] = end]
        /\ UNCHANGED <<out, view, ring, iCurOffset>>
    BY DEF UnitLaunched, circVars
  <1>2. PICK k \in 1 .. UnitLength : LastVcl = table[k]
    BY <1>1, LastVclIs
  <1>3. Unit[1] = table[1] /\ 1 \in 1 .. UnitLength /\ UnitLength \in 1 .. Len(table)
        /\ Len(table) \in Nat
    BY <1>1, UnitIs, NalType
  <1>4. k \in 1 .. Len(table) /\ 1 \in 1 .. Len(table)
    BY <1>2, <1>3
  <1>5. /\ end \in Offset /\ At(end) = EndAt(k) /\ At(table[k].uPosition) < EndAt(k)
        /\ At(table[k].uPosition) \in Nat
    BY <1>2, <1>4, EndOfNal DEF Offset
  <1>6. from \in Offset /\ At(from) = At(table[1].uPosition) /\ At(from) < EndAt(1)
        /\ At(from) \in Nat /\ EndAt(1) \in Nat
    BY <1>3, <1>4, EndOfNal, NalType DEF Offset
  <1>7. k = 1 \/ EndAt(1) <= At(table[k].uPosition)
    BY <1>2, <1>4, NalType DEF OffsetsInOrder
  <1>8. At(end) \in Nat /\ At(iCurNalStreamOffset) \in Nat
    BY <1>5, AtType, PlaceTypes
  <1>9. At(from) < At(end)
    BY <1>5, <1>6, <1>7, <1>8
  <1>10. At(iCurNalStreamOffset) <= At(from) /\ At(end) <= At(iCurNalStreamOffset')
    <2>1. \A i \in 1 .. UnitLength :
              /\ At(iCurNalStreamOffset) <= At(table[i].uPosition)
              /\ EndAt(i) <= At(iCurNalStreamOffset')
      BY <1>1, ConsumeKeepsOrder
    <2> QED BY <1>2, <1>3, <1>5, <1>6, <2>1
  <1>11. ASSUME NEW b \in bytes
         PROVE  /\ b[1] \in Offset /\ ring[b[1]] = b[2]
                /\ At(iCurNalStreamOffset) <= At(b[1]) /\ At(b[1]) < At(end)
    <2>1. PICK p \in 0 .. Size - 1 : b = <<p, ring[p]>> /\ Ahead(from, p) < DeltaPosition(from, end)
      BY <1>11
    <2>2. p \in Offset
      BY <2>1 DEF Offset
    <2> HIDE DEF from, end, bytes
    <2>3. At(from) <= At(p) /\ At(p) < At(end) /\ At(p) \in Nat
      BY <1>5, <1>6, <1>9, <2>1, <2>2, BytesBetween, AtType
    <2>4. At(iCurNalStreamOffset) <= At(p)
      BY <1>6, <1>8, <1>10, <2>3
    <2> QED BY <2>1, <2>2, <2>3, <2>4
  <1>12. At(iCurNalStreamOffset) <= At(end)
    BY <1>6, <1>8, <1>9, <1>10
  <1> HIDE DEF from, end, bytes
  <1> QED BY <1>1, <1>5, <1>10, <1>11, <1>12

\* The frame is sent behind the others: its bytes are in the circular buffer, and
\* its offset is behind theirs.
LEMMA LaunchKeepsFrames ==
  ASSUME InputTypes, OffsetsInOrder, TableRead, RingChained, FramesKept, FrameTokens, UnitLaunched,
         NEW N, N = Len(inflight)
  PROVE  FramesKept' /\ iStreamOffset' \in [0 .. iStackSize - 1 -> Offset]
  <1>1. PICK bytes : \E end \in Offset :
            /\ inflight' = Append(inflight, bytes)
            /\ iStreamOffset' = [iStreamOffset EXCEPT ![iNumFrmBlk1 % iStackSize] = end]
            /\ At(iCurNalStreamOffset) <= At(end) /\ At(end) <= At(iCurNalStreamOffset')
            /\ \A b \in bytes : /\ b[1] \in Offset /\ ring[b[1]] = b[2]
                                /\ At(iCurNalStreamOffset) <= At(b[1]) /\ At(b[1]) < At(end)
    BY LaunchedUnit
  <1>2. PICK end \in Offset :
            /\ inflight' = Append(inflight, bytes)
            /\ iStreamOffset' = [iStreamOffset EXCEPT ![iNumFrmBlk1 % iStackSize] = end]
            /\ At(iCurNalStreamOffset) <= At(end) /\ At(end) <= At(iCurNalStreamOffset')
            /\ \A b \in bytes : /\ b[1] \in Offset /\ ring[b[1]] = b[2]
                                /\ At(iCurNalStreamOffset) <= At(b[1]) /\ At(b[1]) < At(end)
    BY <1>1
  <1>3. /\ UNCHANGED <<out, ring, iCurOffset, iNumFrmBlk2>> /\ Sem > 0
        /\ UnitLength > 0 /\ ConsumeUnit /\ UNCHANGED view
    BY DEF UnitLaunched, circVars
  <1>4. /\ N \in Nat /\ inflight \in Seq(Range(inflight)) /\ N < iStackSize
        /\ iNumFrmBlk2 \in Nat /\ iNumFrmBlk1 = iNumFrmBlk2 + N /\ DOMAIN inflight = 1 .. N
    <2>1. inflight \in Seq(Range(inflight)) /\ iNumFrmBlk2 \in Nat /\ iNumFrmBlk1 = iNumFrmBlk2 + N
          /\ Sem \in Nat /\ Sem + N + (IF ending THEN 1 ELSE 0) = iStackSize
      BY DEF FrameTokens
    <2>2. N \in Nat /\ DOMAIN inflight = 1 .. N
      BY <2>1, EmptyQueue, LenProperties
    <2> QED BY <1>3, <2>1, <2>2
  <1>5. /\ DOMAIN inflight' = 1 .. N + 1 /\ inflight'[N + 1] = bytes
        /\ \A i \in 1 .. N : inflight'[i] = inflight[i]
    BY <1>2, <1>4, AppendProperties
  <1>6. iNumFrmBlk1 % iStackSize \in 0 .. iStackSize - 1
    BY <1>4, Sizes
  <1>7. iStreamOffset' \in [0 .. iStackSize - 1 -> Offset]
    BY <1>2, <1>6 DEF InputTypes
  <1>8. ASSUME NEW i \in 1 .. N
        PROVE  FrameEnd(i)' = FrameEnd(i) /\ FrameEnd(i) \in Offset
    <2> DEFINE k == iNumFrmBlk2 + i - 1
               m == iNumFrmBlk1
    <2>1. k \in Nat /\ m \in Nat /\ k < m /\ m < k + iStackSize
      BY <1>4, Sizes
    <2>4. iStackSize \in Nat /\ iStackSize > 0
      BY Sizes
    <2>5. m = iNumFrmBlk1
      OBVIOUS
    <2> HIDE DEF k, m
    <2>6. m % iStackSize # k % iStackSize
      BY <2>1, <2>4, RingPlaces
    <2>7. k % iStackSize \in 0 .. iStackSize - 1
      BY <2>1, <2>4
    <2>2. iNumFrmBlk1 % iStackSize # k % iStackSize /\ k % iStackSize \in 0 .. iStackSize - 1
      BY <2>5, <2>6, <2>7
    <2>3. iStreamOffset'[k % iStackSize] = iStreamOffset[k % iStackSize]
          /\ iStreamOffset[k % iStackSize] \in Offset
      BY <1>2, <2>2 DEF InputTypes
    <2> QED BY <1>3, <2>3 DEF FrameEnd, k
  <1>9. FrameEnd(N + 1)' = end
    <2>1. iNumFrmBlk2 + (N + 1) - 1 = iNumFrmBlk1
      BY <1>4
    <2>2. iStreamOffset'[iNumFrmBlk1 % iStackSize] = end
      BY <1>2, <1>6 DEF InputTypes
    <2>3. FrameEnd(N + 1)' = iStreamOffset'[(iNumFrmBlk2' + (N + 1) - 1) % iStackSize]
      BY DEF FrameEnd
    <2> QED BY <1>3, <2>1, <2>2, <2>3
  <1>10. iCurNalStreamOffset' \in Offset
    BY <1>3, ConsumeKeepsOrder
  <1> DEFINE c == At(iCurNalStreamOffset)
             d == At(iCurNalStreamOffset')
             a == At(iCurOffset)
             f(i) == At(FrameEnd(i))
             e == At(end)
  <1>11. c \in Nat /\ d \in Nat /\ a \in Nat /\ e \in Nat /\ \A i \in 1 .. N : f(i) \in Nat
    BY <1>2, <1>8, <1>10, PlaceTypes, AtType
  <1>12. a <= c /\ c <= e /\ e <= d
    BY <1>2 DEF OffsetsInOrder
  <1>13. \A i \in 1 .. N :
            /\ a <= f(i) /\ f(i) <= c
            /\ \A b \in inflight[i] :
                  b[1] \in Offset /\ ring[b[1]] = b[2] /\ a <= At(b[1]) /\ At(b[1]) < c
            /\ \A j \in 1 .. N : i < j => f(i) <= f(j) /\ \A b \in inflight[j] : f(i) <= At(b[1])
    BY <1>4 DEF FramesKept
  <1>14. \A b \in bytes : b[1] \in Offset /\ ring[b[1]] = b[2] /\ c <= At(b[1]) /\ At(b[1]) < e
    BY <1>2
  <1>15. /\ At(iCurOffset)' = a /\ At(iCurNalStreamOffset)' = d /\ At(FrameEnd(N + 1))' = e
         /\ \A i \in 1 .. N : At(FrameEnd(i))' = f(i)
    BY <1>3, <1>8, <1>9 DEF At
  <1>16. \A q \in Offset : At(q) \in Nat
    BY AtType
  <1>17. \A S : \A b \in S : At(b[1])' = At(b[1])
    BY <1>3 DEF At
  <1> HIDE DEF c, d, a, f, e
  <1>18. ASSUME NEW i \in 1 .. N + 1
         PROVE  /\ a <= At(FrameEnd(i))' /\ At(FrameEnd(i))' <= d
                /\ \A b \in inflight'[i] :
                      b[1] \in Offset /\ ring[b[1]] = b[2] /\ a <= At(b[1]) /\ At(b[1]) < d
                /\ \A j \in 1 .. N + 1 : i < j =>
                      /\ At(FrameEnd(i))' <= At(FrameEnd(j))'
                      /\ \A b \in inflight'[j] : At(FrameEnd(i))' <= At(b[1])
    <2>1. CASE i \in 1 .. N
      <3>1. a <= f(i) /\ f(i) <= d /\ f(i) <= c /\ f(i) <= e
        BY <1>11, <1>12, <1>13, <2>1
      <3>2. ASSUME NEW b \in inflight'[i]
            PROVE  b[1] \in Offset /\ ring[b[1]] = b[2] /\ a <= At(b[1]) /\ At(b[1]) < d
        <4>1. b[1] \in Offset /\ ring[b[1]] = b[2] /\ a <= At(b[1]) /\ At(b[1]) < c
          BY <1>5, <1>13, <2>1
        <4> QED BY <1>11, <1>12, <1>16, <4>1
      <3>3. ASSUME NEW j \in 1 .. N + 1, i < j
            PROVE  /\ f(i) <= At(FrameEnd(j))'
                   /\ \A b \in inflight'[j] : f(i) <= At(b[1])
        <4>1. CASE j \in 1 .. N
          BY <1>5, <1>13, <1>15, <2>1, <3>3, <4>1
        <4>2. CASE j = N + 1
          <5>1. At(FrameEnd(j))' = e /\ inflight'[j] = bytes
            BY <1>5, <1>15, <4>2
          <5>2. \A b \in bytes : f(i) <= At(b[1])
            BY <1>11, <1>14, <1>16, <2>1, <3>1
          <5> QED BY <3>1, <5>1, <5>2
        <4> QED BY <1>4, <3>3, <4>1, <4>2
      <3> QED BY <1>15, <2>1, <3>1, <3>2, <3>3
    <2>2. CASE i = N + 1
      <3>1. At(FrameEnd(i))' = e /\ inflight'[i] = bytes
        BY <1>5, <1>15, <2>2
      <3>2. a <= e /\ e <= d
        BY <1>11, <1>12
      <3>3. ASSUME NEW b \in bytes
            PROVE  b[1] \in Offset /\ ring[b[1]] = b[2] /\ a <= At(b[1]) /\ At(b[1]) < d
        <4>1. b[1] \in Offset /\ ring[b[1]] = b[2] /\ c <= At(b[1]) /\ At(b[1]) < e
          BY <1>14
        <4> QED BY <1>11, <1>12, <1>16, <4>1
      <3>4. \A j \in 1 .. N + 1 : ~(i < j)
        BY <1>4, <2>2
      <3> QED BY <3>1, <3>2, <3>3, <3>4
    <2> QED BY <1>4, <2>1, <2>2
  <1>19. FramesKept'
    <2>1. /\ ring' = ring /\ DOMAIN inflight' = 1 .. N + 1
          /\ At(iCurOffset)' = a /\ At(iCurNalStreamOffset)' = d
      BY <1>3, <1>5, <1>15
    <2>2. \A i \in DOMAIN inflight' :
            /\ a <= At(FrameEnd(i))' /\ At(FrameEnd(i))' <= d
            /\ \A b \in inflight'[i] :
                  b[1] \in Offset /\ ring[b[1]] = b[2] /\ a <= At(b[1])' /\ At(b[1])' < d
            /\ \A j \in DOMAIN inflight' : i < j =>
                  /\ At(FrameEnd(i))' <= At(FrameEnd(j))'
                  /\ \A b \in inflight'[j] : At(FrameEnd(i))' <= At(b[1])'
      BY <1>17, <1>18, <2>1
    <2> QED BY <2>1, <2>2 DEF FramesKept
  <1> QED BY <1>7, <1>19

LEMMA LaunchStep ==
  ASSUME InputData, Places, FrameTokens, [Next]_vars, UnitLaunched
  PROVE  InputData'
  <1>1. /\ UnitLength > 0 /\ ConsumeUnit /\ slave = "search" /\ slave' # "detect"
        /\ UNCHANGED <<circVars, iCurOffset, iNumFrmBlk2, pending>>
        /\ UNCHANGED <<ScDetectionComplete, ScdStatus>>
    BY DEF UnitLaunched, hwVars, scdVars, appVars, pending, LookAgain, NextRound
  <1>2. UNCHANGED <<out, view, ring, iCurOffset>>
    BY <1>1 DEF circVars
  <1>3. InputTypes /\ OffsetsInOrder /\ FramesKept /\ StatusRight /\ TableHasRoom
        /\ RingChained /\ TableRead /\ EosParts /\ BuffersChained /\ InputChained
    BY DEF InputData, CellsInOrder
  <1>4. /\ OffsetsInOrder' /\ TableRead' /\ RingChained'
        /\ iCurNalStreamOffset' \in Offset /\ table' \in Seq(NalRange)
        /\ Len(table') <= Len(table)
    BY <1>1, <1>2, <1>3, ConsumeKeepsOrder
  <1>5. FramesKept' /\ iStreamOffset' \in [0 .. iStackSize - 1 -> Offset]
    BY <1>3, LaunchKeepsFrames
  <1>7. InputTypes'
    BY <1>1, <1>2, <1>3, <1>4, <1>5 DEF InputTypes, pending
  <1>8. StatusRight'
    BY <1>1, <1>2, <1>3, StatusStays
  <1>9. EosParts' /\ BuffersChained' /\ InputChained'
    BY <1>1, <1>2, <1>3, AppMoves, PendingStays
  <1>10. TableHasRoom'
    <2>1. Len(table) \in Nat /\ Len(table') \in Nat
      BY <1>3, <1>4, NalType, LenProperties
    <2> QED BY <1>1, <1>3, <1>4, <2>1, Sizes DEF TableHasRoom
  <1> QED BY <1>4, <1>5, <1>7, <1>8, <1>9, <1>10 DEF InputData, CellsInOrder

\* A frame is decoded: what it ends at is the next that may be freed.
LEMMA DecodedStep ==
  ASSUME InputData, Places, FrameTokens, [Next]_vars, EndDecoding
  PROVE  InputData'
  <1>1. /\ inflight # <<>> /\ inflight' = Tail(inflight) /\ iNumFrmBlk2' = iNumFrmBlk2 + 1
        /\ iCurOffset' = iStreamOffset[DecodedSlot]
        /\ UNCHANGED <<circVars, tableVars, iStreamOffset, pending, slave>>
        /\ UNCHANGED <<ScDetectionComplete, ScdStatus>>
    BY DEF EndDecoding, scdVars, appVars, slaveVars, pending
  <1>2. UNCHANGED <<out, view, ring, table, iCurNalStreamOffset>>
    BY <1>1 DEF circVars, tableVars
  <1>3. InputTypes /\ OffsetsInOrder /\ FramesKept /\ StatusRight /\ TableHasRoom
        /\ RingChained /\ TableRead /\ EosParts /\ BuffersChained /\ InputChained
    BY DEF InputData, CellsInOrder
  <1> DEFINE N == Len(inflight)
  <1>4. /\ N \in Nat /\ N > 0 /\ inflight \in Seq(Range(inflight)) /\ iNumFrmBlk2 \in Nat
        /\ DOMAIN inflight = 1 .. N /\ DOMAIN inflight' = 1 .. N - 1
        /\ \A i \in 1 .. N - 1 : inflight'[i] = inflight[i + 1]
    <2>1. inflight \in Seq(Range(inflight)) /\ iNumFrmBlk2 \in Nat
      BY DEF FrameTokens
    <2>2. N \in Nat /\ N > 0 /\ DOMAIN inflight = 1 .. N
      BY <1>1, <2>1, EmptyQueue, LenProperties
    <2>3. Tail(inflight) \in Seq(Range(inflight)) /\ Len(Tail(inflight)) = N - 1
          /\ \A i \in 1 .. N - 1 : Tail(inflight)[i] = inflight[i + 1]
      BY <1>1, <2>1, <2>2
    <2> QED BY <1>1, <2>1, <2>2, <2>3, LenProperties
  <1>5. iCurOffset' = FrameEnd(1)
    <2>1. iNumFrmBlk2 + 1 - 1 = iNumFrmBlk2
      BY <1>4
    <2> QED BY <1>1, <2>1 DEF FrameEnd, DecodedSlot
  <1>6. \A i \in 1 .. N - 1 : FrameEnd(i)' = FrameEnd(i + 1)
    <2> TAKE i \in 1 .. N - 1
    <2>1. (iNumFrmBlk2 + 1) + i - 1 = iNumFrmBlk2 + (i + 1) - 1
      BY <1>4
    <2> QED BY <1>1, <2>1 DEF FrameEnd
  <1>7. 1 \in DOMAIN inflight /\ \A i \in 1 .. N - 1 : i + 1 \in DOMAIN inflight /\ 1 < i + 1
    BY <1>4
  <1>8. iCurOffset' \in Offset
    BY <1>3, <1>5, <1>7, FrameEndIs
  <1>9. InputTypes'
    BY <1>1, <1>2, <1>3, <1>8 DEF InputTypes, pending
  <1>10. OffsetsInOrder'
    <2>1. At(iCurOffset)' <= At(iCurNalStreamOffset)'
      BY <1>2, <1>3, <1>5, <1>7 DEF FramesKept, At
    <2> QED BY <1>2, <1>3, <2>1 DEF OffsetsInOrder, At, EndAt
  <1>11. FramesKept'
    <2> SUFFICES ASSUME NEW i \in 1 .. N - 1
                 PROVE  /\ At(iCurOffset)' <= At(FrameEnd(i))' /\ At(FrameEnd(i))' <= At(iCurNalStreamOffset)'
                        /\ \A b \in inflight'[i] :
                              /\ b[1] \in Offset /\ ring'[b[1]] = b[2]
                              /\ At(iCurOffset)' <= At(b[1])' /\ At(b[1])' < At(iCurNalStreamOffset)'
                        /\ \A j \in 1 .. N - 1 : i < j =>
                              /\ At(FrameEnd(i))' <= At(FrameEnd(j))'
                              /\ \A b \in inflight'[j] : At(FrameEnd(i))' <= At(b[1])'
      BY <1>4 DEF FramesKept
    <2>1. /\ At(FrameEnd(1)) <= At(FrameEnd(i + 1))
          /\ \A b \in inflight[i + 1] : At(FrameEnd(1)) <= At(b[1])
      BY <1>3, <1>7 DEF FramesKept
    <2>2. /\ At(FrameEnd(i + 1)) <= At(iCurNalStreamOffset)
          /\ \A b \in inflight[i + 1] :
                b[1] \in Offset /\ ring[b[1]] = b[2] /\ At(b[1]) < At(iCurNalStreamOffset)
          /\ \A j \in 1 .. N - 1 : i + 1 < j + 1 =>
                /\ At(FrameEnd(i + 1)) <= At(FrameEnd(j + 1))
                /\ \A b \in inflight[j + 1] : At(FrameEnd(i + 1)) <= At(b[1])
      BY <1>3, <1>7 DEF FramesKept
    <2>3. /\ At(iCurOffset)' = At(FrameEnd(1)) /\ At(iCurNalStreamOffset)' = At(iCurNalStreamOffset)
          /\ \A j \in 1 .. N - 1 : At(FrameEnd(j))' = At(FrameEnd(j + 1))
          /\ \A S : \A b \in S : At(b[1])' = At(b[1])
      BY <1>2, <1>5, <1>6 DEF At
    <2>4. \A j \in 1 .. N - 1 : i < j => i + 1 < j + 1
      BY <1>4
    <2> QED BY <1>2, <1>4, <2>1, <2>2, <2>3, <2>4
  <1>12. RingChained' /\ TableRead'
    BY <1>2, <1>3 DEF RingChained, TableRead, At
  <1>13. StatusRight'
    BY <1>1, <1>2, <1>3, StatusStays
  <1>14. EosParts' /\ BuffersChained' /\ InputChained'
    BY <1>1, <1>2, <1>3, AppMoves, PendingStays
  <1>15. TableHasRoom'
    BY <1>1, <1>2, <1>3 DEF TableHasRoom
  <1> QED BY <1>9, <1>10, <1>11, <1>12, <1>13, <1>14, <1>15 DEF InputData, CellsInOrder

---------------------------------------------------------------------------
(* The start code detector is asked, and answers *)

\* The request is launched with room for its answer.
LEMMA NoUnitStep ==
  ASSUME InputData, Places, Requests, [Next]_vars, NoUnit, ~lost'
  PROVE  InputData'
  <1>1. /\ slave = "search" /\ MAX_NAL_UNIT - Len(table) >= ScdMax
        /\ slave' = "detect" => view.avail >= SCDHardwareConstraintMinSize
        /\ UNCHANGED <<circPlaces, pending>>
        /\ UNCHANGED <<ScDetectionComplete, ScdStatus>>
    <2>1. Len(table) \in Nat
      BY NalType DEF InputData
    <2>2. ~(MAX_NAL_UNIT - Len(table) < ScdMax)
      BY DEF NoUnit
    <2>3. MAX_NAL_UNIT - Len(table) >= ScdMax
      BY <2>1, <2>2, Sizes
    <2> QED BY <2>2, <2>3 DEF NoUnit, circPlaces, pending, appVars, circVars, tableVars, hwVars
  <1>2. UNCHANGED <<table, view, ring>>
    BY <1>1 DEF circPlaces, circVars, tableVars
  <1>3. TableHasRoom'
    <2>1. Len(table) \in Nat
      BY NalType DEF InputData
    <2> QED BY <1>1, <1>2, <2>1, Sizes DEF InputData, TableHasRoom
  <1>4. StatusRight'
    BY <1>1, <1>2, StatusStays DEF InputData
  <1> QED BY <1>1, <1>3, <1>4, Idle

\* What the detector reports is what it has scanned.
LEMMA StatusFound ==
  ASSUME InputTypes, view.avail >= SCDHardwareConstraintMinSize,
         NEW all \in InOrder(StartsAhead)
  PROVE  StatusTells(StartCodes(all))
  <1> DEFINE A == view.avail
             S == StartsAhead
             n == Cardinality(S)
             m == Min({ScdMax, n})
             bytes == IF n > ScdMax THEN all[ScdMax + 1] ELSE A - 1
             starts == [i \in 1 .. m |-> (view.off + all[i]) % Size]
  <1>1. A \in Nat /\ A < Size /\ A >= 2 /\ view.off \in Offset
    BY PlaceTypes DEF SCDHardwareConstraintMinSize
  <1>2. S = {i \in 0 .. A - 2 : ring[(view.off + i) % Size][2] = 1}
    BY DEF StartsAhead, SCDHardwareConstraintMinSize
  <1>3. n \in Nat
    <2>1. IsFiniteSet(0 .. A - 2) /\ S \subseteq 0 .. A - 2
      BY <1>1, <1>2, FS_Interval
    <2>2. IsFiniteSet(S)
      BY <2>1, FS_Subset
    <2> QED BY <2>2, FS_CardinalityType
  <1>4. /\ all \in [1 .. n -> S] /\ Range(all) = S
        /\ \A i, j \in 1 .. n : i < j => all[i] < all[j]
    BY DEF InOrder
  <1>5. all \in Seq(S) /\ Len(all) = n /\ DOMAIN all = 1 .. n
    <2> HIDE DEF n, S
    <2>1. all \in Seq(S)
      BY <1>3, <1>4, FunctionIsSeq
    <2>2. DOMAIN all = 1 .. n
      BY <1>4
    <2> QED BY <1>3, <2>1, <2>2, LenProperties
  <1>6. StartCodes(all) = [uNumBytes |-> bytes, starts |-> starts]
    BY <1>5 DEF StartCodes
  <1>7. m \in Nat /\ m <= ScdMax /\ m <= n /\ (m = ScdMax \/ m = n)
    BY <1>3, Sizes, LesserOf
  <1> HIDE DEF n, m
  <1>8. \A i \in 1 .. n : /\ all[i] \in 0 .. A - 2
                          /\ ring[(view.off + all[i]) % Size][2] = 1
    BY <1>2, <1>4
  <1>9. \A k \in 0 .. A - 2 : /\ (view.off + k) % Size \in Offset
                              /\ Unseen((view.off + k) % Size) = k
    <2> TAKE k \in 0 .. A - 2
    <2>1. k \in 0 .. Size /\ k < Size
      BY <1>1, SizeIs
    <2> QED BY <1>1, <2>1, Advanced DEF Unseen
  <1>10. /\ starts \in Seq(Offset) /\ Len(starts) = m /\ DOMAIN starts = 1 .. m
         /\ \A i \in 1 .. m : /\ starts[i] = (view.off + all[i]) % Size
                              /\ Unseen(starts[i]) = all[i] /\ ring[starts[i]][2] = 1
    <2>1. \A i \in 1 .. m : i \in 1 .. n
      BY <1>3, <1>7
    <2>2. starts \in [1 .. m -> Offset]
      BY <1>8, <1>9, <2>1
    <2>3. starts \in Seq(Offset) /\ DOMAIN starts = 1 .. m
      BY <1>7, <2>2, FunctionIsSeq
    <2> QED BY <1>7, <1>8, <1>9, <2>1, <2>3, LenProperties
  <1> HIDE DEF A, S, starts
  <1>11. bytes \in 1 .. A - 1
    <2>1. CASE n > ScdMax
      <3>1. ScdMax \in 1 .. n /\ ScdMax + 1 \in 1 .. n /\ ScdMax < ScdMax + 1
        BY <1>3, <2>1, Sizes
      <3>2. all[ScdMax] < all[ScdMax + 1]
        BY <1>4, <3>1
      <3> QED BY <1>1, <1>8, <2>1, <3>1, <3>2
    <2> QED BY <1>1, <2>1
  <1>12. \A i \in 1 .. m : all[i] < bytes
    <2> TAKE i \in 1 .. m
    <2>1. i \in 1 .. n
      BY <1>3, <1>7
    <2>2. CASE n > ScdMax
      <3>1. ScdMax + 1 \in 1 .. n /\ i < ScdMax + 1
        BY <1>3, <1>7, <2>1, <2>2, Sizes
      <3> QED BY <1>4, <2>1, <2>2, <3>1
    <2> QED BY <1>1, <1>8, <2>1, <2>2
  <1>13. ASSUME NEW p \in Offset, Unseen(p) < bytes, ring[p][2] = 1
         PROVE  p \in Range(starts)
    <2> DEFINE k == Unseen(p)
    <2>1. k \in 0 .. A - 2
      <3>1. k \in Nat
        BY <1>1, AheadIs DEF Unseen, Offset
      <3> HIDE DEF bytes, k
      <3>2. k < bytes
        BY <1>13 DEF k
      <3> QED BY <1>1, <1>11, <3>1, <3>2
    <2>2. (view.off + k) % Size = p
      <3> DEFINE r == (view.off + k) % Size
      <3>1. r \in Offset /\ Ahead(view.off, r) = Ahead(view.off, p)
        BY <1>9, <2>1 DEF Unseen
      <3> HIDE DEF r
      <3>2. r = p
        BY <1>1, <3>1, AheadTells
      <3> QED BY <3>2 DEF r
    <2>3. k \in S
      BY <1>2, <1>13, <2>1, <2>2 DEF A, S
    <2> HIDE DEF k
    <2>4. PICK j \in 1 .. n : all[j] = k
      BY <1>4, <1>5, <2>3 DEF Range
    <2>5. j \in 1 .. m
      <3> SUFFICES ASSUME j > m PROVE FALSE
        BY <1>3, <1>7
      <3>1. m = ScdMax /\ n > ScdMax /\ ScdMax + 1 \in 1 .. n /\ j >= ScdMax + 1
        BY <1>3, <1>7, Sizes
      <3>2. all[ScdMax + 1] <= all[j]
        BY <1>4, <1>8, <3>1
      <3>3. bytes = all[ScdMax + 1] /\ k < bytes
        BY <1>13, <3>1 DEF k
      <3> QED BY <1>8, <2>4, <3>1, <3>2, <3>3
    <2> QED BY <1>10, <2>2, <2>4, <2>5 DEF Range
  <1>14. StartCodes(all).uNumBytes = bytes /\ StartCodes(all).starts = starts
    BY <1>6
  <1> HIDE DEF bytes
  <1>15. \A i, j \in 1 .. m : i < j => all[i] < all[j]
    BY <1>3, <1>4, <1>7
  <1> QED BY <1>7, <1>10, <1>11, <1>12, <1>13, <1>14, <1>15 DEF StatusTells, A

\* While the slave waits the detector reports what the view holds.
LEMMA DetectedStep ==
  ASSUME InputData, Places, Requests, [Next]_vars, StartCodesFound \/ DetectorBusy
  PROVE  InputData'
  <1>1. /\ scQueue # <<>> /\ Head(scQueue) = "search" /\ slave' = slave
        /\ UNCHANGED <<circPlaces, pending>>
    BY DEF StartCodesFound, DetectorBusy, EndScd, circPlaces, pending, appVars, hwVars, slaveVars
  <1>2. UNCHANGED <<table, view, ring>>
    BY <1>1 DEF circPlaces, circVars, tableVars
  <1>3. slave = "detect"
    BY <1>1, OneRequest DEF Requests
  <1>4. TableHasRoom'
    BY <1>1, <1>2 DEF InputData, TableHasRoom
  <1>5. StatusRight'
    <2>1. CASE DetectorBusy
      <3>1. ScdStatus'.uNumBytes = 0
        BY <2>1 DEF DetectorBusy, EndScd, NoStatus
      <3> QED BY <3>1 DEF StatusRight
    <2>2. CASE StartCodesFound
      <3>1. PICK all \in InOrder(StartsAhead) : ScdStatus' = StartCodes(all)
        BY <2>2 DEF StartCodesFound, EndScd
      <3>2. StatusTells(StartCodes(all))
        BY <1>3, StatusFound DEF InputData, TableHasRoom
      <3>3. PICK st : st = StartCodes(all)
        OBVIOUS
      <3>4. ScdStatus' = st /\ StatusTells(st)
        BY <3>1, <3>2, <3>3
      <3> QED BY <1>2, <3>4 DEF StatusRight, StatusTells, Unseen
    <2> QED BY <2>1, <2>2
  <1> QED BY <1>1, <1>4, <1>5, Idle

---------------------------------------------------------------------------
(* The NALs the detector found *)

\* Where the detector's answer is, as cells ahead of the first one held.
LEMMA UnseenIs ==
  ASSUME InputTypes, OffsetsInOrder, NEW p \in Offset
  PROVE  /\ Unseen(p) \in Nat
         /\ Unseen(p) < view.avail => At(p) = At(view.off) + Unseen(p)
         /\ At(view.off) <= At(p) => Unseen(p) = At(p) - At(view.off)
  <1>1. /\ view.off \in Offset /\ out.off \in Offset /\ view.avail \in Nat
        /\ out.avail < Size /\ out.avail \in Nat /\ At(view.off) \in Nat
    BY PlaceTypes
  <1>2. At(view.off) + view.avail = out.avail
    BY DEF OffsetsInOrder
  <1>3. Unseen(p) \in Nat
    <2>1. Ahead(view.off, p) \in Offset
      BY <1>1, AheadIs
    <2> QED BY <2>1, SizeIs DEF Unseen, Offset
  <1>4. At(view.off) <= At(p) => Unseen(p) = At(p) - At(view.off)
    BY <1>1, AheadTells DEF At, Unseen
  <1>5. ASSUME Unseen(p) < view.avail PROVE At(p) = At(view.off) + Unseen(p)
    <2> DEFINE k == Unseen(p)
               r == (view.off + k) % Size
    <2>1. At(view.off) + k < Size /\ k < Size /\ k \in 0 .. Size
      BY <1>1, <1>2, <1>3, <1>5, SizeIs
    <2>2. r \in Offset /\ At(r) = At(view.off) + k
      BY <1>1, <1>3, <2>1, AheadFrom DEF At
    <2>3. Ahead(view.off, r) = Ahead(view.off, p)
      BY <1>1, <2>1, Advanced DEF Unseen
    <2> HIDE DEF r
    <2>4. r = p
      BY <1>1, <2>2, <2>3, AheadTells
    <2> QED BY <2>2, <2>4
  <1> QED BY <1>3, <1>4, <1>5

\* Without a start code between them two cells are of the same NAL.
NoStart(from, to) ==
    \A p \in Offset : from < At(p) /\ At(p) < to => ring[p][2] # 1

\* A chain without a start code.
LEMMA SameNal ==
  ASSUME InputTypes, RingChained, NEW x \in Offset, NEW y \in Offset,
         At(x) <= At(y), At(y) < out.avail, NoStart(At(x), At(y) + 1)
  PROVE  ring[y][1] = ring[x][1]
  <1> DEFINE a == At(x)
             d == At(y) - At(x)
             at(k) == (x + k) % Size
             Bad == {k \in 0 .. d : ring[at(k)][1] # ring[x][1]}
  <1>1. /\ a \in Nat /\ At(y) \in Nat /\ At(y) < Size /\ out.off \in Offset
        /\ out.avail \in Nat /\ out.avail < Size
    BY AtType, PlaceTypes
  <1>2. d \in Nat /\ a + d = At(y)
    BY <1>1
  <1>3. ASSUME NEW k \in 0 .. d
        PROVE  at(k) \in Offset /\ At(at(k)) = a + k
    <2>1. k \in Nat /\ At(x) + k < Size
      <3> HIDE DEF d
      <3> QED BY <1>1, <1>2, SizeIs DEF a
    <2> QED BY <1>1, <2>1, AheadFrom DEF At
  <1>4. at(d) = y /\ at(0) = x
    <2> DEFINE p == at(d)
               q == at(0)
    <2>1. p \in Offset /\ q \in Offset /\ At(p) = At(y) /\ At(q) = At(x)
      BY <1>1, <1>2, <1>3
    <2> HIDE DEF p, q, at
    <2>2. p = y /\ q = x
      BY <1>1, <2>1, AheadTells DEF At
    <2> QED BY <2>2 DEF p, q
  <1> HIDE DEF at, d, a
  <1>5. SUFFICES ASSUME ring[y][1] # ring[x][1] PROVE FALSE
    OBVIOUS
  <1>6. PICK b \in Bad : \A k \in Bad : b <= k
    <2>1. d \in Bad
      BY <1>2, <1>4, <1>5
    <2>2. Bad \in SUBSET Nat
      BY <1>2
    <2> HIDE DEF Bad
    <2> QED BY <2>1, <2>2, LeastExists
  <1>7. b # 0 /\ b \in 0 .. d /\ b - 1 \in 0 .. d /\ b - 1 \notin Bad
    <2>1. b \in 0 .. d /\ b # 0
      BY <1>4, <1>6
    <2>2. b - 1 \in 0 .. d /\ ~(b <= b - 1)
      BY <1>2, <2>1
    <2> QED BY <1>6, <2>1, <2>2
  <1>8. PICK q \in Offset : q = at(b - 1) /\ At(q) = a + (b - 1)
    BY <1>3, <1>7
  <1>9. PICK r \in Offset : r = at(b) /\ At(r) = a + b
    BY <1>3, <1>7
  <1>10. (q + 1) % Size = r
    <2> DEFINE s == (q + 1) % Size
    <2>1. At(q) + 1 = a + b /\ a + b < Size
      BY <1>1, <1>2, <1>7, <1>8, SizeIs DEF a
    <2>2. s \in Offset /\ At(s) = At(r)
      BY <1>1, <1>9, <2>1, AheadFrom DEF At
    <2> HIDE DEF s
    <2>3. s = r
      BY <1>1, <2>2, AheadTells DEF At
    <2> QED BY <2>3 DEF s
  <1>11. At(q) + 1 < out.avail /\ a < At(r) /\ At(r) < At(y) + 1
    BY <1>1, <1>2, <1>7, <1>8, <1>9
  <1>12. Follows(ring[q], ring[r])
    BY <1>10, <1>11 DEF RingChained
  <1>13. ring[r][2] # 1
    BY <1>11 DEF NoStart, a
  <1>14. ring[r][1] = ring[q][1]
    BY <1>12, <1>13 DEF Follows
  <1> QED BY <1>6, <1>7, <1>8, <1>9, <1>14

\* A range without a start code behind its first cell is one NAL.
LEMMA OneNal ==
  ASSUME InputTypes, RingChained, NEW x \in Offset, NEW size \in Nat,
         At(x) + size <= out.avail, NoStart(At(x), At(x) + size),
         NEW q \in Offset, Ahead(x, q) < size
  PROVE  ring[q][1] = ring[x][1]
  <1> DEFINE k == Ahead(x, q)
             r == (x + k) % Size
  <1>1. At(x) \in Nat /\ out.off \in Offset /\ out.avail \in Nat /\ out.avail < Size
    BY AtType, PlaceTypes
  <1>2. k \in Nat /\ k < size
    BY AheadIs DEF Offset
  <1>3. At(x) + k < Size /\ k < Size /\ k \in 0 .. Size
    <2> HIDE DEF k
    <2> QED BY <1>1, <1>2, SizeIs
  <1>4. r \in Offset /\ At(r) = At(x) + k
    BY <1>1, <1>2, <1>3, AheadFrom DEF At
  <1>5. Ahead(x, r) = Ahead(x, q)
    BY <1>3, Advanced
  <1> HIDE DEF r
  <1>6. r = q
    BY <1>4, <1>5, AheadTells
  <1>7. At(q) = At(x) + k
    BY <1>4, <1>6
  <1> HIDE DEF k
  <1>8. At(x) <= At(q) /\ At(q) < out.avail /\ At(q) + 1 <= At(x) + size /\ At(q) \in Nat
    BY <1>1, <1>2, <1>7
  <1>9. NoStart(At(x), At(q) + 1)
    <2> SUFFICES ASSUME NEW p \in Offset, At(x) < At(p), At(p) < At(q) + 1
                 PROVE  ring[p][2] # 1
      BY DEF NoStart
    <2>1. At(p) \in Nat
      BY AtType
    <2>2. At(p) < At(x) + size
      BY <1>1, <1>8, <2>1
    <2> QED BY <2>2 DEF NoStart
  <1> QED BY <1>8, <1>9, SameNal

\* Start codes between what was scanned before and off, and the table with the
\* NALs they begin.
Found(starts, off) ==
    /\ starts \in Seq(Offset) /\ off \in Offset /\ At(view.off) <= At(off)
    /\ \A i \in 1 .. Len(starts) : At(view.off) <= At(starts[i]) /\ At(starts[i]) < At(off)
    /\ \A i, j \in 1 .. Len(starts) : i < j => At(starts[i]) < At(starts[j])

Grown(T, starts, off, L, m) ==
    /\ m \in Nat /\ L \in Nat /\ T \in Seq(NalRange) /\ Len(T) = L + m
    /\ DOMAIN T = 1 .. L + m
    /\ \A i \in 1 .. L : i < L \/ m = 0 => T[i] = table[i]
    /\ m > 0 /\ L > 0 =>
          /\ T[L].uPosition = table[L].uPosition /\ T[L].nal = table[L].nal
          /\ At(T[L].uPosition) + T[L].uSize = At(starts[1])
    /\ \A k \in 1 .. m :
          /\ T[L + k].uPosition = starts[k] /\ T[L + k].nal = ring[starts[k]][1]
          /\ At(starts[k]) + T[L + k].uSize = At(IF k < m THEN starts[k + 1] ELSE off)

\* AL_SearchDecUnit_AddNals.
LEMMA AddedNals ==
  ASSUME InputTypes, OffsetsInOrder, NEW starts, NEW off, Found(starts, off),
         NEW T, T = AddNals(table, starts, off),
         NEW m, m = Len(starts), NEW L, L = Len(table)
  PROVE  Grown(T, starts, off, L, m)
  <1>0. /\ starts \in Seq(Offset) /\ off \in Offset
        /\ \A i \in 1 .. m : At(view.off) <= At(starts[i]) /\ At(starts[i]) < At(off)
        /\ \A i, j \in 1 .. m : i < j => At(starts[i]) < At(starts[j])
    BY DEF Found
  <1> DEFINE pos(i) == IF i > Len(starts) THEN off ELSE starts[i]
             old == IF table = <<>> \/ starts = <<>> THEN table
                    ELSE [table EXCEPT ![Len(table)].uSize =
                             DeltaPosition(table[Len(table)].uPosition, starts[1])]
             new == [i \in DOMAIN starts |->
                        [nal |-> ring[starts[i]][1], uPosition |-> starts[i],
                         uSize |-> DeltaPosition(pos(i), pos(i + 1))]]
  <1>1. T = old \o new
    BY DEF AddNals
  <1>2. /\ m \in Nat /\ DOMAIN starts = 1 .. m /\ \A i \in 1 .. m : starts[i] \in Offset
        /\ (starts = <<>> <=> m = 0)
    BY <1>0, LenProperties, ElementOfSeq, EmptySeq
  <1>3. /\ L \in Nat /\ DOMAIN table = 1 .. L /\ table \in Seq(NalRange)
        /\ (table = <<>> <=> L = 0) /\ out.off \in Offset
        /\ \A i \in 1 .. L : table[i] \in NalRange
    <2>1. table \in Seq(NalRange)
      BY DEF InputTypes
    <2> QED BY <2>1, NalType, EmptySeq
  <1>4. ASSUME NEW x \in Offset, NEW y \in Offset, At(x) < At(y)
        PROVE  /\ DeltaPosition(x, y) \in Offset \ {0}
               /\ At(x) + DeltaPosition(x, y) = At(y)
    <2>1. At(x) \in Nat /\ At(y) \in Nat /\ At(y) < Size
      BY AtType
    <2>2. DeltaPosition(x, y) = At(y) - At(x)
      BY <1>3, <1>4, AheadTells DEF At
    <2> DEFINE d == DeltaPosition(x, y)
               a == At(x)
               b == At(y)
    <2>3. d = b - a /\ a < b /\ a \in Nat /\ b \in Nat /\ b < Size
      BY <1>4, <2>1, <2>2
    <2> HIDE DEF d, a, b
    <2>4. d \in Offset \ {0} /\ a + d = b
      BY <2>3, SizeIs DEF Offset
    <2> QED BY <2>4 DEF d, a, b
  <1>5. ASSUME NEW k \in 1 .. m
        PROVE  /\ pos(k) = starts[k] /\ pos(k + 1) = (IF k < m THEN starts[k + 1] ELSE off)
               /\ pos(k) \in Offset /\ pos(k + 1) \in Offset /\ At(pos(k)) < At(pos(k + 1))
    <2>1. CASE k < m
      <3>1. k + 1 \in 1 .. m /\ k < k + 1 /\ pos(k + 1) = starts[k + 1] /\ pos(k) = starts[k]
        BY <1>2, <2>1
      <3> QED BY <1>0, <1>2, <2>1, <3>1
    <2>2. CASE ~(k < m)
      <3>1. pos(k + 1) = off /\ pos(k) = starts[k]
        BY <1>2, <2>2
      <3> QED BY <1>0, <1>2, <2>2, <3>1
    <2> QED BY <2>1, <2>2
  <1> HIDE DEF pos
  <1>6. ASSUME NEW k \in 1 .. m
        PROVE  /\ new[k] = [nal |-> ring[starts[k]][1], uPosition |-> starts[k],
                            uSize |-> DeltaPosition(pos(k), pos(k + 1))]
               /\ new[k].uPosition = starts[k] /\ new[k].nal = ring[starts[k]][1]
               /\ new[k] \in NalRange
               /\ At(starts[k]) + new[k].uSize = At(IF k < m THEN starts[k + 1] ELSE off)
    <2>1. new[k] = [nal |-> ring[starts[k]][1], uPosition |-> starts[k],
                    uSize |-> DeltaPosition(pos(k), pos(k + 1))]
      BY <1>2
    <2>2. /\ DeltaPosition(pos(k), pos(k + 1)) \in Offset \ {0}
          /\ At(pos(k)) + DeltaPosition(pos(k), pos(k + 1)) = At(pos(k + 1))
          /\ pos(k) = starts[k] /\ pos(k + 1) = (IF k < m THEN starts[k + 1] ELSE off)
      BY <1>4, <1>5
    <2>3. ring[starts[k]][1] \in Nat
      BY <1>2 DEF InputTypes, Cell
    <2> HIDE DEF new
    <2>4. new[k] \in NalRange
      BY <1>2, <2>1, <2>2, <2>3 DEF NalRange
    <2>5. new[k].uSize = DeltaPosition(pos(k), pos(k + 1)) /\ new[k].uPosition = starts[k]
          /\ new[k].nal = ring[starts[k]][1]
      BY <2>1
    <2> QED BY <2>1, <2>2, <2>4, <2>5
  <1>7. new \in Seq(NalRange) /\ Len(new) = m
    <2>1. new \in [1 .. m -> NalRange]
      BY <1>2, <1>6
    <2> HIDE DEF new
    <2>2. new \in Seq(NalRange) /\ DOMAIN new = 1 .. m
      BY <1>2, <2>1, FunctionIsSeq
    <2> QED BY <1>2, <2>2, LenProperties
  <1>8. /\ old \in Seq(NalRange) /\ Len(old) = L
        /\ \A i \in 1 .. L : i < L \/ m = 0 => old[i] = table[i]
        /\ m > 0 /\ L > 0 =>
              /\ old[L].uPosition = table[L].uPosition /\ old[L].nal = table[L].nal
              /\ At(old[L].uPosition) + old[L].uSize = At(starts[1])
    <2>1. CASE m = 0 \/ L = 0
      <3>1. old = table
        BY <1>2, <1>3, <2>1
      <3> HIDE DEF old
      <3> QED BY <1>2, <1>3, <2>1, <3>1
    <2>2. CASE m > 0 /\ L > 0
      <3> DEFINE d == DeltaPosition(table[L].uPosition, starts[1])
      <3>1. old = [table EXCEPT ![L].uSize = d]
        BY <1>2, <1>3, <2>2
      <3>2. L \in 1 .. L /\ 1 \in 1 .. m
        BY <1>2, <1>3, <2>2
      <3>3. table[L] \in NalRange /\ table[L].uPosition \in Offset
        BY <1>3, <3>2 DEF NalRange
      <3>4. At(table[L].uPosition) < At(starts[1])
        <4>1. At(table[L].uPosition) < EndAt(L) /\ EndAt(L) \in Nat
          BY <3>2, EndOfNal DEF Offset
        <4>2. EndAt(L) <= At(view.off)
          BY <1>3, <3>2 DEF OffsetsInOrder
        <4>3. At(table[L].uPosition) \in Nat /\ At(view.off) \in Nat /\ At(starts[1]) \in Nat
          BY <1>2, <3>2, <3>3, AtType, PlaceTypes
        <4>4. At(view.off) <= At(starts[1])
          BY <1>0, <3>2
        <4> QED BY <4>1, <4>2, <4>3, <4>4
      <3>5. d \in Offset \ {0} /\ At(table[L].uPosition) + d = At(starts[1])
        BY <1>2, <1>4, <3>2, <3>3, <3>4
      <3> HIDE DEF d, old
      <3>6. old[L] = [table[L] EXCEPT !.uSize = d]
        BY <1>3, <3>1, <3>2
      <3>7. old[L] \in NalRange /\ old[L].uPosition = table[L].uPosition
            /\ old[L].nal = table[L].nal /\ old[L].uSize = d
        BY <3>3, <3>5, <3>6 DEF NalRange
      <3>8. \A i \in 1 .. L : i < L => old[i] = table[i]
        BY <1>3, <3>1
      <3>9. old \in [1 .. L -> NalRange]
        <4>1. old = [i \in 1 .. L |-> old[i]]
          BY <1>3, <3>1
        <4>2. \A i \in 1 .. L : old[i] \in NalRange
          <5> TAKE i \in 1 .. L
          <5>1. i = L \/ i < L
            BY <1>3
          <5> QED BY <1>3, <3>7, <3>8, <5>1
        <4> QED BY <4>1, <4>2
      <3>10. old \in Seq(NalRange) /\ DOMAIN old = 1 .. L
        BY <1>3, <3>9, FunctionIsSeq
      <3>11. Len(old) = L
        BY <1>3, <3>10, LenProperties
      <3> QED BY <2>2, <3>5, <3>7, <3>8, <3>10, <3>11
    <2> QED BY <1>2, <1>3, <2>1, <2>2
  <1> HIDE DEF old, new
  <1>9. /\ T \in Seq(NalRange) /\ Len(T) = L + m
        /\ \A i \in 1 .. L + m : T[i] = IF i <= L THEN old[i] ELSE new[i - L]
    <2>1. old \in Seq(NalRange) /\ new \in Seq(NalRange) /\ Len(old) = L /\ Len(new) = m
      BY <1>7, <1>8
    <2>2. /\ old \o new \in Seq(NalRange) /\ Len(old \o new) = Len(old) + Len(new)
          /\ \A i \in 1 .. Len(old) + Len(new) :
                (old \o new)[i] = IF i <= Len(old) THEN old[i] ELSE new[i - Len(old)]
      BY <2>1, ConcatProperties
    <2> QED BY <1>1, <2>1, <2>2
  <1>10. DOMAIN T = 1 .. L + m
    BY <1>9, LenProperties
  <1>11. \A i \in 1 .. L : T[i] = old[i]
    BY <1>2, <1>3, <1>9
  <1>12. \A k \in 1 .. m : T[L + k] = new[k]
    <2> TAKE k \in 1 .. m
    <2>1. L + k \in 1 .. L + m /\ ~(L + k <= L) /\ L + k - L = k
      BY <1>2, <1>3
    <2> QED BY <1>9, <2>1
  <1>13. L > 0 => L \in 1 .. L
    BY <1>3
  <1>14. \A k \in 1 .. m :
               /\ T[L + k].uPosition = starts[k] /\ T[L + k].nal = ring[starts[k]][1]
               /\ At(starts[k]) + T[L + k].uSize = At(IF k < m THEN starts[k + 1] ELSE off)
    <2> TAKE k \in 1 .. m
    <2>1. T[L + k] = new[k]
      BY <1>12
    <2>2. new[k].uPosition = starts[k] /\ new[k].nal = ring[starts[k]][1]
      BY <1>6
    <2>3. At(starts[k]) + new[k].uSize = At(IF k < m THEN starts[k + 1] ELSE off)
      BY <1>6
    <2> QED BY <2>1, <2>2, <2>3
  <1> QED BY <1>2, <1>3, <1>8, <1>9, <1>10, <1>11, <1>13, <1>14 DEF Grown

---------------------------------------------------------------------------
(* are in order *)

\* The detector's answer: where its end is, and where there is no start code.
LEMMA StatusPlaces ==
  ASSUME InputTypes, OffsetsInOrder, NEW st, StatusTells(st),
         NEW n, n = st.uNumBytes, NEW starts, starts = st.starts,
         NEW off, off = (view.off + n) % Size
  PROVE  /\ n \in Nat /\ n > 0 /\ n < view.avail /\ off \in Offset
         /\ At(off) = At(view.off) + n
         /\ starts \in Seq(Offset) /\ Len(starts) <= ScdMax /\ Len(starts) \in Nat
         /\ DOMAIN starts = 1 .. Len(starts)
         /\ \A i \in 1 .. Len(starts) :
               /\ At(view.off) <= At(starts[i]) /\ At(starts[i]) < At(off)
               /\ starts[i] \in Offset
         /\ \A i, j \in 1 .. Len(starts) : i < j => At(starts[i]) < At(starts[j])
         /\ \A p \in Offset :
               At(view.off) <= At(p) /\ At(p) < At(off) /\ ring[p][2] = 1
                  => \E i \in 1 .. Len(starts) : p = starts[i]
  <1> DEFINE v == At(view.off)
             m == Len(starts)
  <1>1. /\ view.off \in Offset /\ out.off \in Offset /\ view.avail \in Nat /\ view.avail < Size
        /\ out.avail < Size /\ out.avail \in Nat /\ v \in Nat
    BY PlaceTypes
  <1>2. v + view.avail = out.avail
    BY DEF OffsetsInOrder
  <1>3. n \in 1 .. view.avail - 1 /\ starts \in Seq(Offset) /\ m <= ScdMax
    BY DEF StatusTells
  <1>4. v + n < Size /\ n \in Nat /\ n > 0 /\ n < view.avail
    BY <1>1, <1>2, <1>3, SizeIs
  <1>5. off \in Offset /\ At(off) = v + n
    BY <1>1, <1>4, AheadFrom DEF At
  <1>6. m \in Nat /\ DOMAIN starts = 1 .. m /\ \A i \in 1 .. m : starts[i] \in Offset
    BY <1>3, LenProperties, ElementOfSeq
  <1>7. ASSUME NEW p \in Offset, Unseen(p) < n
        PROVE  At(p) = v + Unseen(p) /\ Unseen(p) \in Nat
    <2>1. Unseen(p) \in Nat
      BY UnseenIs
    <2>2. Unseen(p) < view.avail
      BY <1>1, <1>4, <1>7, <2>1
    <2> QED BY <2>1, <2>2, UnseenIs
  <1>8. \A i \in 1 .. m :
           /\ Unseen(starts[i]) < n
           /\ \A j \in 1 .. m : i < j => Unseen(starts[i]) < Unseen(starts[j])
    BY <1>6 DEF StatusTells
  <1>9. \A p \in Offset : Unseen(p) < n /\ ring[p][2] = 1 => p \in Range(starts)
    BY DEF StatusTells
  <1>10. \A i \in 1 .. m : At(starts[i]) = v + Unseen(starts[i]) /\ Unseen(starts[i]) \in Nat
    BY <1>6, <1>7, <1>8
  <1> HIDE DEF v, m
  <1>11. \A i \in 1 .. m : v <= At(starts[i]) /\ At(starts[i]) < At(off)
    BY <1>1, <1>4, <1>5, <1>8, <1>10
  <1>12. \A i, j \in 1 .. m : i < j => At(starts[i]) < At(starts[j])
    BY <1>1, <1>8, <1>10
  <1>13. ASSUME NEW p \in Offset, v <= At(p), At(p) < At(off), ring[p][2] = 1
         PROVE  \E i \in 1 .. m : p = starts[i]
    <2>1. Unseen(p) = At(p) - v
      BY <1>13, UnseenIs DEF v
    <2>2. At(p) \in Nat
      BY AtType
    <2>3. Unseen(p) < n
      BY <1>1, <1>4, <1>5, <1>13, <2>1, <2>2
    <2>4. p \in Range(starts)
      BY <1>9, <1>13, <2>3
    <2> QED BY <1>6, <2>4 DEF Range
  <1> QED BY <1>3, <1>4, <1>5, <1>6, <1>11, <1>12, <1>13 DEF v, m

\* The table has grown: its NALs are in order still,
LEMMA AddedInOrder ==
  ASSUME InputTypes, OffsetsInOrder, NEW starts, NEW off, Found(starts, off),
         NEW T, NEW m, m = Len(starts), NEW L, L = Len(table), Grown(T, starts, off, L, m)
  PROVE  \A i \in 1 .. L + m :
            /\ At(iCurNalStreamOffset) <= At(T[i].uPosition)
            /\ At(T[i].uPosition) + T[i].uSize <= At(off)
            /\ \A j \in 1 .. L + m :
                  i < j => At(T[i].uPosition) + T[i].uSize <= At(T[j].uPosition)
  <1>0. Grown(T, starts, off, L, m)
    OBVIOUS
  <1> DEFINE p(i) == At(T[i].uPosition)
             e(i) == At(T[i].uPosition) + T[i].uSize
             q(i) == At(table[i].uPosition)
             f(i) == EndAt(i)
             s(i) == At(starts[i])
             c == At(iCurNalStreamOffset)
             v == At(view.off)
             d == At(off)
  <1>1. /\ m \in Nat /\ L \in Nat
        /\ \A i \in 1 .. L : i < L \/ m = 0 => T[i] = table[i]
        /\ m > 0 /\ L > 0 => p(L) = q(L) /\ e(L) = s(1)
        /\ \A k \in 1 .. m : p(L + k) = s(k) /\ e(L + k) = IF k < m THEN s(k + 1) ELSE d
    <2>2. ASSUME NEW k \in 1 .. m
          PROVE p(L + k) = s(k) /\ e(L + k) = IF k < m THEN s(k + 1) ELSE d
      <3>1. /\ T[L + k].uPosition = starts[k]
            /\ At(starts[k]) + T[L + k].uSize = At(IF k < m THEN starts[k + 1] ELSE off)
        BY <1>0 DEF Grown
      <3>2. CASE k < m
        BY <3>1, <3>2
      <3>3. CASE ~(k < m)
        BY <3>1, <3>3
      <3> QED BY <3>2, <3>3
    <2>1. /\ m \in Nat /\ L \in Nat
          /\ \A i \in 1 .. L : i < L \/ m = 0 => T[i] = table[i]
          /\ m > 0 /\ L > 0 =>
                /\ T[L].uPosition = table[L].uPosition
                /\ At(T[L].uPosition) + T[L].uSize = At(starts[1])
      BY <1>0 DEF Grown
    <2> QED BY <2>1, <2>2
  <1>2. \A i \in 1 .. L : i < L \/ m = 0 => p(i) = q(i) /\ e(i) = f(i)
    BY <1>1 DEF EndAt
  <1>3. /\ c <= v /\ \A i \in 1 .. L : c <= q(i) /\ f(i) <= v
        /\ \A i, j \in 1 .. L : i < j => f(i) <= q(j)
    BY NalType DEF OffsetsInOrder
  <1>4. \A i \in 1 .. L : q(i) \in Nat /\ f(i) \in Nat /\ q(i) < f(i)
    BY EndOfNal, SizeIs DEF Offset
  <1>5. c \in Nat /\ v \in Nat /\ d \in Nat /\ \A i \in 1 .. m : s(i) \in Nat
    <2>1. off \in Offset /\ \A i \in 1 .. m : starts[i] \in Offset
      BY ElementOfSeq DEF Found
    <2> QED BY <2>1, PlaceTypes, AtType
  <1>6. /\ v <= d /\ \A i \in 1 .. m : v <= s(i) /\ s(i) < d
        /\ \A i, j \in 1 .. m : i < j => s(i) < s(j)
    BY DEF Found
  <1>7. \A i \in 1 .. L + m :
          /\ c <= p(i) /\ e(i) <= d
          /\ \A j \in 1 .. L + m : i < j => e(i) <= p(j)
    <2> HIDE DEF p, e, q, f, s, c, v, d
    <2> TAKE i \in 1 .. L + m
    <2>1. CASE i \in 1 .. L /\ (i < L \/ m = 0)
      <3>1. p(i) = q(i) /\ e(i) = f(i) /\ c <= p(i) /\ e(i) <= v /\ e(i) \in Nat
        BY <1>2, <1>3, <1>4, <2>1
      <3>2. ASSUME NEW j \in 1 .. L + m, i < j PROVE e(i) <= p(j)
        <4>1. CASE j \in 1 .. L
          <5>1. p(j) = q(j)
            BY <1>1, <1>2, <2>1, <3>2, <4>1
          <5> QED BY <1>3, <2>1, <3>1, <3>2, <4>1, <5>1
        <4>2. CASE j \notin 1 .. L
          <5>1. PICK k \in 1 .. m : j = L + k
            <6>1. j - L \in 1 .. m /\ j = L + (j - L)
              BY <1>1, <4>2
            <6> QED BY <6>1
          <5>2. p(j) = s(k) /\ v <= s(k)
            BY <1>1, <1>6, <5>1
          <5> QED BY <1>5, <3>1, <5>2
        <4> QED BY <4>1, <4>2
      <3> QED BY <1>5, <1>6, <3>1, <3>2
    <2>2. CASE i = L /\ L > 0 /\ m > 0
      <3>1. i \in 1 .. L /\ 1 \in 1 .. m
        BY <1>1, <2>2
      <3>2. p(i) = q(i) /\ e(i) = s(1) /\ c <= p(i) /\ e(i) <= d
        BY <1>1, <1>3, <1>5, <1>6, <2>2, <3>1
      <3>3. ASSUME NEW j \in 1 .. L + m, i < j PROVE e(i) <= p(j)
        <4>1. PICK k \in 1 .. m : j = L + k
          <5>1. j - L \in 1 .. m /\ j = L + (j - L)
            BY <1>1, <2>2, <3>3
          <5> QED BY <5>1
        <4>2. k = 1 \/ 1 < k
          BY <1>1
        <4>3. p(j) = s(k) /\ s(1) <= s(k)
          BY <1>1, <1>5, <1>6, <3>1, <4>1, <4>2
        <4> QED BY <3>2, <4>3
      <3> QED BY <3>2, <3>3
    <2>3. CASE i \notin 1 .. L
      <3>1. PICK k \in 1 .. m : i = L + k
        <4>1. i - L \in 1 .. m /\ i = L + (i - L)
          BY <1>1, <2>3
        <4> QED BY <4>1
      <3>2. p(i) = s(k) /\ e(i) = IF k < m THEN s(k + 1) ELSE d
        BY <1>1, <3>1
      <3>3. c <= p(i) /\ e(i) <= d
        <4>1. k < m => k + 1 \in 1 .. m
          BY <1>1
        <4> QED BY <1>3, <1>5, <1>6, <3>2, <4>1
      <3>4. ASSUME NEW j \in 1 .. L + m, i < j PROVE e(i) <= p(j)
        <4>1. PICK l \in 1 .. m : j = L + l
          <5>1. j - L \in 1 .. m /\ j = L + (j - L)
            BY <1>1, <3>1, <3>4
          <5> QED BY <5>1
        <4>2. k < m /\ k + 1 \in 1 .. m /\ (k + 1 = l \/ k + 1 < l)
          BY <1>1, <3>1, <3>4, <4>1
        <4>3. p(j) = s(l) /\ e(i) = s(k + 1)
          BY <1>1, <3>2, <4>1, <4>2
        <4> QED BY <1>5, <1>6, <4>2, <4>3
      <3> QED BY <3>3, <3>4
    <2> QED BY <1>1, <2>1, <2>2, <2>3
  <1> QED BY <1>7

---------------------------------------------------------------------------
(* and read from the circular buffer *)

Reported(starts, off) ==
    \A p \in Offset :
        At(view.off) <= At(p) /\ At(p) < At(off) /\ ring[p][2] = 1
            => \E i \in 1 .. Len(starts) : p = starts[i]

\* and they are read from the circular buffer as before.
LEMMA AddedRead ==
  ASSUME InputTypes, OffsetsInOrder, TableRead, RingChained,
         NEW starts, NEW off, Found(starts, off), Reported(starts, off), At(off) <= out.avail,
         NEW T, NEW m, m = Len(starts), NEW L, L = Len(table), Grown(T, starts, off, L, m)
  PROVE  \A i \in 1 .. L + m :
            /\ \A q \in Offset : Ahead(T[i].uPosition, q) < T[i].uSize => ring[q][1] = T[i].nal
            /\ i = L + m => NoStart(At(T[i].uPosition), At(off))
  <1> DEFINE s(i) == At(starts[i])
             v == At(view.off)
             d == At(off)
             end(k) == IF k < m THEN s(k + 1) ELSE d
  <1>1. /\ m \in Nat /\ L \in Nat /\ v \in Nat /\ d \in Nat /\ off \in Offset
        /\ \A i \in 1 .. m : starts[i] \in Offset /\ s(i) \in Nat
        /\ out.avail \in Nat /\ out.avail < Size
    <2>1. m \in Nat /\ L \in Nat
      BY DEF Grown
    <2>2. off \in Offset /\ \A i \in 1 .. m : starts[i] \in Offset
      BY ElementOfSeq DEF Found
    <2> QED BY <2>1, <2>2, AtType, PlaceTypes
  <1>2. /\ v <= d /\ \A i \in 1 .. m : v <= s(i) /\ s(i) < d
        /\ \A i, j \in 1 .. m : i < j => s(i) < s(j)
    BY DEF Found
  <1>3. \A p \in Offset : v <= At(p) /\ At(p) < d /\ ring[p][2] = 1
           => \E i \in 1 .. m : At(p) = s(i)
    BY DEF Reported
  <1>4. \A p \in Offset : At(p) \in Nat
    BY AtType
  <1>5. /\ \A i \in 1 .. L : i < L \/ m = 0 => T[i] = table[i]
        /\ m > 0 /\ L > 0 =>
              /\ T[L].uPosition = table[L].uPosition /\ T[L].nal = table[L].nal
              /\ At(T[L].uPosition) + T[L].uSize = s(1)
        /\ \A k \in 1 .. m :
              /\ T[L + k].uPosition = starts[k] /\ T[L + k].nal = ring[starts[k]][1]
              /\ At(T[L + k].uPosition) + T[L + k].uSize = end(k)
        /\ \A i \in 1 .. L + m : T[i].uPosition \in Offset /\ T[i].uSize \in Nat /\ T[i].uSize > 0
    <2>1. /\ \A i \in 1 .. L : i < L \/ m = 0 => T[i] = table[i]
          /\ m > 0 /\ L > 0 =>
                /\ T[L].uPosition = table[L].uPosition /\ T[L].nal = table[L].nal
                /\ At(T[L].uPosition) + T[L].uSize = At(starts[1])
          /\ T \in Seq(NalRange) /\ Len(T) = L + m
      BY DEF Grown
    <2>2. ASSUME NEW k \in 1 .. m
          PROVE  /\ T[L + k].uPosition = starts[k] /\ T[L + k].nal = ring[starts[k]][1]
                 /\ At(T[L + k].uPosition) + T[L + k].uSize = end(k)
      <3>1. /\ T[L + k].uPosition = starts[k] /\ T[L + k].nal = ring[starts[k]][1]
            /\ At(starts[k]) + T[L + k].uSize = At(IF k < m THEN starts[k + 1] ELSE off)
        BY DEF Grown
      <3>2. CASE k < m
        BY <3>1, <3>2
      <3>3. CASE ~(k < m)
        BY <3>1, <3>3
      <3> QED BY <3>2, <3>3
    <2>3. \A i \in 1 .. L + m : T[i] \in NalRange
      BY <2>1, ElementOfSeq
    <2>4. \A r \in NalRange : r.uPosition \in Offset /\ r.uSize \in Nat /\ r.uSize > 0
      BY SizeIs DEF NalRange, Offset
    <2> QED BY <2>1, <2>2, <2>3, <2>4
  <1>6. /\ \A i \in 1 .. L : \A q \in Offset :
              Ahead(table[i].uPosition, q) < table[i].uSize => ring[q][1] = table[i].nal
        /\ L > 0 => \A p \in Offset : At(table[L].uPosition) < At(p) /\ At(p) < v => ring[p][2] # 1
    <2>1. DOMAIN table = 1 .. L /\ L \in Nat
      BY NalType
    <2>2. L > 0 => L \in 1 .. L
      BY <2>1
    <2> QED BY <2>1, <2>2 DEF TableRead
  <1>7. ASSUME NEW k \in 1 .. m
        PROVE  NoStart(s(k), end(k)) /\ end(k) <= d
    <2>1. k < m => k + 1 \in 1 .. m
      BY <1>1
    <2>2. end(k) <= d
      BY <1>1, <1>2, <2>1
    <2>3. ASSUME NEW p \in Offset, s(k) < At(p), At(p) < end(k), ring[p][2] = 1 PROVE FALSE
      <3> HIDE DEF s, d, v
      <3>1. v <= At(p) /\ At(p) < d
        BY <1>1, <1>2, <1>4, <2>1, <2>2, <2>3
      <3>2. PICK j \in 1 .. m : At(p) = s(j)
        BY <1>3, <2>3, <3>1
      <3>3. j > k
        <4> SUFFICES ASSUME j <= k PROVE FALSE
          BY <1>1
        <4>1. s(j) <= s(k)
          BY <1>1, <1>2
        <4> QED BY <1>1, <2>3, <3>2, <4>1
      <3>4. k < m /\ j >= k + 1 /\ k + 1 \in 1 .. m
        BY <1>1, <3>3
      <3>5. s(k + 1) <= s(j)
        BY <1>1, <1>2, <3>4
      <3> QED BY <1>1, <2>3, <3>2, <3>4, <3>5
    <2> HIDE DEF s, d, v, end
    <2> QED BY <2>2, <2>3 DEF NoStart
  <1>8. ASSUME L > 0
        PROVE  LET e == IF m > 0 THEN s(1) ELSE d
               IN  NoStart(At(table[L].uPosition), e) /\ e <= d
    <2> DEFINE e == IF m > 0 THEN s(1) ELSE d
    <2>1. e <= d /\ e \in Nat
      BY <1>1, <1>2
    <2>2. ASSUME NEW p \in Offset, At(table[L].uPosition) < At(p), At(p) < e, ring[p][2] = 1
          PROVE  FALSE
      <3>1. ~(At(p) < v)
        BY <1>6, <1>8, <2>2
      <3> HIDE DEF s, d, v
      <3>2. v <= At(p) /\ At(p) < d
        BY <1>1, <1>4, <2>1, <2>2, <3>1
      <3>3. PICK j \in 1 .. m : At(p) = s(j)
        BY <1>3, <2>2, <3>2
      <3>4. m > 0 /\ s(1) <= s(j) /\ 1 \in 1 .. m
        BY <1>1, <1>2, <3>3
      <3> QED BY <1>1, <2>2, <3>3, <3>4
    <2> HIDE DEF e, v
    <2>3. NoStart(At(table[L].uPosition), e)
      BY <2>2 DEF NoStart
    <2> QED BY <2>1, <2>3 DEF e
  <1>9. ASSUME NEW i \in 1 .. L, i < L \/ m = 0
        PROVE  /\ \A q \in Offset : Ahead(T[i].uPosition, q) < T[i].uSize => ring[q][1] = T[i].nal
               /\ i = L + m => NoStart(At(T[i].uPosition), d)
    <2>1. T[i] = table[i]
      BY <1>5, <1>9
    <2>2. i = L + m => m = 0 /\ i = L /\ L > 0
      BY <1>1, <1>9
    <2> QED BY <1>6, <1>8, <2>1, <2>2
  <1>10. ASSUME L > 0, m > 0, NEW i, i = L
         PROVE  \A q \in Offset : Ahead(T[i].uPosition, q) < T[i].uSize => ring[q][1] = T[i].nal
    <2> DEFINE x == T[i].uPosition
               z == T[i].uSize
    <2>1. i \in 1 .. L /\ i \in 1 .. L + m
      BY <1>1, <1>10
    <2>2. x \in Offset /\ z \in Nat /\ x = table[i].uPosition /\ T[i].nal = table[i].nal
          /\ At(x) + z = s(1)
      BY <1>5, <1>10, <2>1
    <2>3. NoStart(At(x), At(x) + z) /\ At(x) + z <= d
      BY <1>8, <1>10, <2>2
    <2>4. At(x) + z <= out.avail
      <3>1. At(x) \in Nat
        BY <1>4, <2>2
      <3> HIDE DEF x, z, d
      <3>2. d <= out.avail
        BY DEF d
      <3> QED BY <1>1, <2>2, <2>3, <3>1, <3>2
    <2>5. ring[x][1] = table[i].nal
      <3>1. Ahead(x, x) = 0 /\ table[i].uSize > 0
        BY <1>10, <2>1, <2>2, AheadTells, NalType
      <3> QED BY <1>6, <2>1, <2>2, <3>1
    <2> HIDE DEF x, z
    <2>6. ASSUME NEW q \in Offset, Ahead(x, q) < z PROVE ring[q][1] = ring[x][1]
      BY <2>2, <2>3, <2>4, <2>6, OneNal
    <2> QED BY <2>2, <2>5, <2>6 DEF x, z
  <1>11. ASSUME NEW k \in 1 .. m, NEW i, i = L + k
         PROVE  /\ \A q \in Offset : Ahead(T[i].uPosition, q) < T[i].uSize => ring[q][1] = T[i].nal
                /\ i = L + m => NoStart(At(T[i].uPosition), d)
    <2> DEFINE x == T[i].uPosition
               z == T[i].uSize
    <2>1. i \in 1 .. L + m
      BY <1>1, <1>11
    <2>2. x \in Offset /\ z \in Nat /\ x = starts[k] /\ T[i].nal = ring[x][1]
          /\ At(x) + z = end(k)
      BY <1>5, <1>11, <2>1
    <2>3. NoStart(At(x), At(x) + z) /\ At(x) + z <= d
      BY <1>7, <2>2
    <2>4. At(x) + z <= out.avail
      <3>1. At(x) \in Nat
        BY <1>4, <2>2
      <3> HIDE DEF x, z, d
      <3>2. d <= out.avail
        BY DEF d
      <3> QED BY <1>1, <2>2, <2>3, <3>1, <3>2
    <2>5. i = L + m => k = m /\ end(k) = d
      BY <1>1, <1>11
    <2> HIDE DEF x, z
    <2>6. ASSUME NEW q \in Offset, Ahead(x, q) < z PROVE ring[q][1] = ring[x][1]
      BY <2>2, <2>3, <2>4, <2>6, OneNal
    <2>7. i = L + m => NoStart(At(x), d)
      BY <2>2, <2>3, <2>5
    <2> QED BY <2>2, <2>6, <2>7 DEF x, z
  <1>12. ASSUME NEW i \in 1 .. L + m
         PROVE  \/ i \in 1 .. L /\ (i < L \/ m = 0)
                \/ L > 0 /\ m > 0 /\ i = L /\ i # L + m
                \/ \E k \in 1 .. m : i = L + k
    <2>1. CASE i <= L
      BY <1>1, <2>1
    <2>2. CASE i > L
      <3>1. i - L \in 1 .. m /\ i = L + (i - L)
        BY <1>1, <2>2
      <3> QED BY <3>1
    <2> QED BY <1>1, <2>1, <2>2
  <1> QED BY <1>9, <1>10, <1>11, <1>12

LEMMA AddedStep ==
  ASSUME InputData, Places, Requests, [Next]_vars, StartCodesAdded
  PROVE  InputData'
  <1>1. /\ slave = "detect" /\ ScDetectionComplete /\ ScDetectionComplete' = FALSE
        /\ UNCHANGED <<pending, ring, out, iCurNalStreamOffset, iCurOffset, iStreamOffset,
                       iNumFrmBlk2, inflight>>
    BY DEF StartCodesAdded, appVars, hwVars, pending
  <1>2. StatusRight'
    BY <1>1 DEF StatusRight
  <1>3. CASE ScdStatus.uNumBytes = 0
    <2>1. UNCHANGED <<circPlaces, pending>> /\ UNCHANGED <<slave, table, view>>
      BY <1>1, <1>3 DEF StartCodesAdded, circPlaces, circVars, tableVars
    <2>2. TableHasRoom'
      BY <2>1 DEF InputData, TableHasRoom
    <2> QED BY <1>2, <2>1, <2>2, Idle
  <1>4. CASE ScdStatus.uNumBytes # 0
    <2>1. InputTypes /\ OffsetsInOrder /\ FramesKept /\ StatusTells(ScdStatus) /\ TableHasRoom
          /\ RingChained /\ TableRead /\ EosParts /\ BuffersChained /\ InputChained
      BY <1>1, <1>4 DEF InputData, CellsInOrder, StatusRight
    <2>2. PICK n : n = ScdStatus.uNumBytes
      OBVIOUS
    <2>3. PICK starts : starts = ScdStatus.starts
      OBVIOUS
    <2>4. PICK off : off = (view.off + n) % Size
      OBVIOUS
    <2>5. PICK T : T = AddNals(table, starts, off)
      OBVIOUS
    <2>6. PICK m : m = Len(starts)
      OBVIOUS
    <2>7. PICK L : L = Len(table)
      OBVIOUS
    <2>8. /\ n \in Nat /\ n > 0 /\ n < view.avail /\ off \in Offset
          /\ At(off) = At(view.off) + n
          /\ starts \in Seq(Offset) /\ m <= ScdMax /\ m \in Nat
          /\ \A i \in 1 .. m : At(view.off) <= At(starts[i]) /\ At(starts[i]) < At(off)
          /\ \A i, j \in 1 .. m : i < j => At(starts[i]) < At(starts[j])
          /\ \A p \in Offset :
                At(view.off) <= At(p) /\ At(p) < At(off) /\ ring[p][2] = 1
                   => \E i \in 1 .. m : p = starts[i]
      BY <2>1, <2>2, <2>3, <2>4, <2>6, StatusPlaces
    <2>9. /\ view.avail \in Nat /\ out.avail \in Nat /\ At(view.off) \in Nat /\ view.avail < Size
          /\ At(view.off) + view.avail = out.avail
      BY <2>1, PlaceTypes DEF OffsetsInOrder
    <2>10. Found(starts, off) /\ Reported(starts, off) /\ At(off) <= out.avail
      <3>1. At(view.off) <= At(off) /\ At(off) <= out.avail
        BY <2>8, <2>9
      <3> QED BY <2>6, <2>8, <3>1 DEF Found, Reported
    <2>11. Grown(T, starts, off, L, m)
      BY <2>1, <2>5, <2>6, <2>7, <2>10, AddedNals
    <2>12. table' = T /\ view' = [view EXCEPT !.off = off, !.avail = @ - n]
           /\ slave' # "detect"
      BY <1>4, <2>2, <2>3, <2>4, <2>5 DEF StartCodesAdded
    <2>13. view' \in Circ /\ view'.off = off /\ view'.avail = view.avail - n
      <3>1. view \in Circ
        BY <2>1 DEF InputTypes
      <3>2. view.avail - n \in Offset
        BY <2>8, <2>9, SizeIs DEF Offset
      <3> QED BY <2>8, <2>12, <3>1, <3>2 DEF Circ
    <2>14. T \in Seq(NalRange) /\ Len(T) = L + m /\ DOMAIN T = 1 .. L + m /\ L \in Nat
      BY <2>11 DEF Grown
    <2>15. InputTypes'
      BY <1>1, <2>1, <2>12, <2>13, <2>14 DEF InputTypes, pending
    <2>16. TableHasRoom'
      <3>1. L + ScdMax <= MAX_NAL_UNIT
        BY <1>1, <2>1, <2>7 DEF TableHasRoom
      <3> QED BY <2>8, <2>12, <2>14, <3>1, Sizes DEF TableHasRoom
    <2>17. \A i \in 1 .. L + m :
            /\ At(iCurNalStreamOffset) <= At(T[i].uPosition)
            /\ At(T[i].uPosition) + T[i].uSize <= At(off)
            /\ \A j \in 1 .. L + m :
                  i < j => At(T[i].uPosition) + T[i].uSize <= At(T[j].uPosition)
      BY <2>1, <2>6, <2>7, <2>10, <2>11, AddedInOrder
    <2>18. \A i \in 1 .. L + m :
            /\ \A q \in Offset : Ahead(T[i].uPosition, q) < T[i].uSize => ring[q][1] = T[i].nal
            /\ i = L + m => NoStart(At(T[i].uPosition), At(off))
      BY <2>1, <2>6, <2>7, <2>10, <2>11, AddedRead
    <2>19. OffsetsInOrder'
      <3>1. /\ At(iCurOffset) <= At(iCurNalStreamOffset)
            /\ At(iCurNalStreamOffset) <= At(off)
            /\ At(off) + (view.avail - n) = out.avail
        <4>1. At(iCurOffset) <= At(iCurNalStreamOffset) /\ At(iCurNalStreamOffset) <= At(view.off)
              /\ At(iCurNalStreamOffset) \in Nat
          BY <2>1, PlaceTypes DEF OffsetsInOrder
        <4> QED BY <2>8, <2>9, <4>1
      <3>2. /\ At(iCurOffset)' = At(iCurOffset) /\ At(iCurNalStreamOffset)' = At(iCurNalStreamOffset)
            /\ At(view.off)' = At(off) /\ view'.avail = view.avail - n /\ out'.avail = out.avail
        BY <1>1, <2>13 DEF At
      <3>3. /\ DOMAIN table' = 1 .. L + m
            /\ \A i \in 1 .. L + m :
                  /\ At(table[i].uPosition)' = At(T[i].uPosition)
                  /\ EndAt(i)' = At(T[i].uPosition) + T[i].uSize
        BY <1>1, <2>12, <2>14 DEF At, EndAt
      <3> QED BY <2>17, <3>1, <3>2, <3>3 DEF OffsetsInOrder
    <2>20. TableRead'
      <3>1. \A p : At(p)' = Ahead(out.off, p)
        BY <1>1 DEF At
      <3> SUFFICES ASSUME NEW i \in 1 .. L + m
                   PROVE  /\ \A p \in Offset :
                               Ahead(T[i].uPosition, p) < T[i].uSize => ring'[p][1] = T[i].nal
                          /\ i = Len(T) =>
                               \A p \in Offset : At(table[i].uPosition)' < At(p)'
                                                   /\ At(p)' < At(view.off)' => ring'[p][2] # 1
        BY <2>12, <2>14 DEF TableRead
      <3>2. i = Len(T) => NoStart(At(T[i].uPosition), At(off))
        BY <2>14, <2>18
      <3>3. At(table[i].uPosition)' = At(T[i].uPosition) /\ At(view.off)' = At(off)
            /\ \A p : At(p)' = At(p)
        BY <1>1, <2>12, <2>13 DEF At
      <3>4. i = Len(T) => \A p \in Offset : At(T[i].uPosition) < At(p) /\ At(p) < At(off) => ring[p][2] # 1
        BY <3>2 DEF NoStart
      <3> QED BY <1>1, <2>18, <3>3, <3>4
    <2>21. RingChained'
      BY <1>1, <2>1 DEF RingChained, At
    <2>22. FramesKept'
      <3>1. At(iCurNalStreamOffset) <= At(iCurNalStreamOffset') /\ iCurNalStreamOffset' \in Offset
        <4>1. At(iCurNalStreamOffset) \in Nat /\ iCurNalStreamOffset \in Offset
          BY <2>1, PlaceTypes
        <4> QED BY <1>1, <4>1
      <3> QED BY <1>1, <2>1, <2>12, <3>1 DEF FramesKept, At, FrameEnd
    <2>23. EosParts' /\ BuffersChained' /\ InputChained'
      BY <1>1, <2>1, AppMoves, PendingStays
    <2> QED BY <1>2, <2>15, <2>16, <2>19, <2>20, <2>21, <2>22, <2>23 DEF InputData, CellsInOrder
  <1> QED BY <1>3, <1>4

---------------------------------------------------------------------------
(* Space is freed *)

\* Distances ahead add up.
LEMMA AheadAdds ==
  ASSUME NEW a \in Offset, NEW x \in Offset, NEW p \in Offset,
         Ahead(a, x) + Ahead(x, p) < Size
  PROVE  Ahead(a, p) = Ahead(a, x) + Ahead(x, p)
  <1> DEFINE k == Ahead(x, p)
             r == (x + k) % Size
  <1>0. k \in Offset
    BY AheadIs
  <1>1. k \in Nat /\ k < Size /\ k \in 0 .. Size
    <2> HIDE DEF k
    <2> QED BY <1>0, SizeIs DEF Offset
  <1>2. r \in Offset /\ Ahead(a, r) = Ahead(a, x) + k
    BY <1>1, AheadFrom
  <1>3. Ahead(x, r) = Ahead(x, p)
    BY <1>1, Advanced
  <1> HIDE DEF r, k
  <1>4. r = p
    BY <1>2, <1>3, AheadTells
  <1> QED BY <1>2, <1>4 DEF k

\* The cells before x are freed: every offset behind it is that much nearer.
LEMMA Nearer ==
  ASSUME InputTypes, NEW x \in Offset, NEW p \in Offset
  PROVE  /\ At(x) <= At(p) => Ahead(x, p) = At(p) - At(x)
         /\ At(x) + Ahead(x, p) < Size => At(p) = At(x) + Ahead(x, p)
         /\ Ahead(x, p) \in Nat
  <1>1. out.off \in Offset
    BY PlaceTypes
  <1>2. Ahead(x, p) \in Nat
    BY AheadIs, SizeIs DEF Offset
  <1> QED BY <1>1, <1>2, AheadTells, AheadAdds DEF At

\* The last cell held stays the last one.
LEMMA LastStays ==
  ASSUME InputTypes, NEW x \in Offset, At(x) < out.avail
  PROVE  (x + (out.avail - At(x)) - 1) % Size = LastHeld
  <1> DEFINE c == At(x)
             r == (out.off + (out.avail - 1)) % Size
             s == (x + (out.avail - 1 - c)) % Size
  <1>1. /\ out.off \in Offset /\ out.avail \in Nat /\ out.avail < Size /\ c \in Nat
        /\ c < out.avail
    BY PlaceTypes, AtType
  <1>2. /\ out.avail - 1 \in 0 .. Size /\ out.avail - 1 < Size
        /\ out.avail - 1 - c \in 0 .. Size /\ out.avail - 1 - c < Size
        /\ c + (out.avail - 1 - c) = out.avail - 1 /\ out.avail - 1 - c \in Nat
    <2> HIDE DEF c
    <2> QED BY <1>1, SizeIs
  <1>3. r \in Offset /\ At(r) = out.avail - 1
    BY <1>1, <1>2, Advanced DEF At
  <1>4. s \in Offset /\ At(s) = c + (out.avail - 1 - c)
    <2>1. Ahead(out.off, x) + (out.avail - 1 - c) < Size
      BY <1>2 DEF At
    <2> QED BY <1>1, <1>2, <2>1, AheadFrom DEF At
  <1>5. r = s
    <2> HIDE DEF r, s, c
    <2>1. At(r) = At(s)
      BY <1>2, <1>3, <1>4
    <2> QED BY <1>1, <1>3, <1>4, <2>1, AheadTells DEF At
  <1>6. LastHeld = r
    <2>1. out.off + out.avail - 1 = out.off + (out.avail - 1)
      BY <1>1 DEF Offset
    <2> QED BY <2>1 DEF LastHeld
  <1>7. (x + (out.avail - c) - 1) % Size = s
    <2> HIDE DEF c
    <2>1. x + (out.avail - c) - 1 = x + (out.avail - 1 - c)
      BY <1>1 DEF Offset
    <2> QED BY <2>1
  <1> QED BY <1>5, <1>6, <1>7

\* Distances from c on.
LEMMA Shifted ==
  ASSUME NEW c \in Nat, NEW a \in Nat, NEW b \in Nat
  PROVE  (a <= b => a - c <= b - c) /\ (a < b => a - c < b - c)
  OBVIOUS

LEMMA Refilled ==
  ASSUME NEW c \in Nat, NEW v \in Nat, NEW w \in Nat, NEW k \in Nat, NEW a, v + w = a
  PROVE  v - c + (w + k) = a - c + k
  OBVIOUS

LEMMA PlaceBetween ==
  ASSUME NEW c \in Nat, NEW m \in Nat, NEW a \in Nat, NEW b \in Nat, a - c < m, m < b - c
  PROVE  a < c + m /\ c + m < b
  OBVIOUS

LEMMA Within ==
  ASSUME NEW c \in Nat, NEW n \in Nat, NEW p \in Nat, NEW m \in Nat, NEW e \in Nat,
         NEW a \in Nat, NEW q, c <= n, n <= p, p + m < e, e <= a, q = p + m
  PROVE  c <= q /\ q - c < a - c
  OBVIOUS

\* Cells behind those that are freed.
LEMMA HeldBehind ==
  ASSUME NEW c \in Nat, NEW m \in Nat, NEW a \in Nat, a < Size
  PROVE  /\ m < a - c => c + m < Size /\ c + m < a
         /\ m + 1 < a - c => c + m < Size /\ (c + m) + 1 < a
  BY SizeIs

\* Cells are freed at the front and k are added at the end.
LEMMA Moved ==
  ASSUME InputTypes, OffsetsInOrder, FramesKept, RingChained, TableRead, FrameTokens,
         NEW x \in Offset, NEW c, c = At(x),
         NEW k \in Nat, out'.off = x, out'.avail = out.avail - c + k,
         view'.off = view.off, view'.avail = view.avail + k,
         UNCHANGED <<table, iCurNalStreamOffset, iStreamOffset, iNumFrmBlk2, inflight>>,
         \A q \in Offset : Ahead(x, q) < out.avail - c => ring'[q] = ring[q],
         iCurOffset' \in Offset, c <= At(iCurOffset'), At(iCurOffset') <= At(iCurNalStreamOffset),
         iCurOffset' = iCurOffset \/ inflight = <<>>
  PROVE  /\ OffsetsInOrder' /\ FramesKept' /\ TableRead'
         /\ out.avail - c \in Offset
         /\ \A q \in Offset : Ahead(x, q) + 1 < out.avail - c
                             => Follows(ring[q], ring[(q + 1) % Size])
         /\ out.avail - c > 0 => /\ out.avail > 0
                                 /\ (x + (out.avail - c) - 1) % Size = LastHeld
  <1> DEFINE d == At(iCurOffset')
             n == At(iCurNalStreamOffset)
             v == At(view.off)
             L == Len(table)
             p(i) == At(table[i].uPosition)
             e(i) == EndAt(i)
  <1>1. /\ c \in Nat /\ d \in Nat /\ n \in Nat /\ v \in Nat /\ view.avail \in Nat
        /\ out.avail \in Nat /\ out.avail < Size /\ view.off \in Offset
        /\ iCurNalStreamOffset \in Offset /\ L \in Nat /\ DOMAIN table = 1 .. L
        /\ \A i \in 1 .. L : table[i].uPosition \in Offset /\ table[i].uSize \in Nat
        /\ \A i \in 1 .. L : p(i) \in Nat /\ e(i) \in Nat /\ p(i) < e(i)
    <2>1. \A i \in 1 .. L : table[i].uPosition \in Offset /\ table[i].uSize \in Nat
      BY NalType DEF Offset
    <2>2. \A i \in 1 .. L : p(i) \in Nat /\ e(i) \in Nat /\ p(i) < e(i)
      BY EndOfNal, SizeIs DEF Offset
    <2> QED BY <2>1, <2>2, PlaceTypes, AtType, NalType
  <1>2. /\ c <= d /\ d <= n /\ n <= v /\ v + view.avail = out.avail
        /\ \A i \in 1 .. L : /\ n <= p(i) /\ e(i) <= v /\ e(i) = p(i) + table[i].uSize
                             /\ \A j \in 1 .. L : i < j => e(i) <= p(j)
    BY <1>1 DEF OffsetsInOrder, EndAt
  <1>3. ASSUME NEW q \in Offset
        PROVE  /\ At(q)' = Ahead(x, q) /\ At(q)' \in Nat
               /\ c <= At(q) => At(q)' = At(q) - c
               /\ c + At(q)' < Size => At(q) = c + At(q)'
    <2>1. At(q)' = Ahead(x, q)
      BY DEF At
    <2> QED BY <2>1, Nearer
  <1>4. c <= v /\ v <= out.avail /\ c <= n
    <2>1. /\ c \in Nat /\ d \in Nat /\ n \in Nat /\ v \in Nat /\ view.avail \in Nat
          /\ c <= d /\ d <= n /\ n <= v /\ v + view.avail = out.avail
      BY <1>1, <1>2
    <2> HIDE DEF d, n, v, p, e, L
    <2> QED BY <2>1
  <1>5. /\ At(iCurOffset)' = d - c /\ At(iCurNalStreamOffset)' = n - c /\ At(view.off)' = v - c
        /\ \A i \in 1 .. L : At(table[i].uPosition)' = p(i) - c
    <2>1. At(iCurOffset)' = d - c
      <3>1. PICK q \in Offset : q = iCurOffset'
        OBVIOUS
      <3>2. At(q)' = At(q) - c
        BY <1>2, <1>3, <3>1
      <3> QED BY <3>1, <3>2 DEF At
    <2>2. At(iCurNalStreamOffset)' = n - c
      <3>1. PICK q \in Offset : q = iCurNalStreamOffset
        BY <1>1
      <3>2. At(q)' = At(q) - c
        BY <1>3, <1>4, <3>1
      <3> QED BY <3>1, <3>2 DEF At
    <2>3. At(view.off)' = v - c
      <3>1. PICK q \in Offset : q = view.off
        BY <1>1
      <3>2. At(q)' = At(q) - c
        BY <1>3, <1>4, <3>1
      <3> QED BY <3>1, <3>2 DEF At
    <2>4. ASSUME NEW i \in 1 .. L PROVE At(table[i].uPosition)' = p(i) - c
      <3>1. PICK q \in Offset : q = table[i].uPosition
        BY <1>1
      <3>2. c <= At(q)
        BY <1>1, <1>2, <1>4, <3>1
      <3>3. At(q)' = At(q) - c
        BY <1>3, <3>2
      <3> QED BY <3>1, <3>3 DEF At
    <2> QED BY <2>1, <2>2, <2>3, <2>4
  <1>6. \A i \in 1 .. L : EndAt(i)' = e(i) - c
    <2> TAKE i \in 1 .. L
    <2>1. EndAt(i)' = At(table[i].uPosition)' + table[i].uSize
      BY DEF EndAt
    <2>2. /\ e(i) = p(i) + table[i].uSize /\ p(i) \in Nat /\ table[i].uSize \in Nat
          /\ At(table[i].uPosition)' = p(i) - c
      BY <1>1, <1>2, <1>5
    <2> HIDE DEF p, e
    <2> QED BY <1>1, <2>1, <2>2
  <1>7. OffsetsInOrder'
    <2> HIDE DEF p, e, n, v, d, L
    <2>1. DOMAIN table' = 1 .. L
      BY <1>1
    <2>2. d - c <= n - c /\ n - c <= v - c /\ v - c + (view.avail + k) = out.avail - c + k
      <3>1. /\ c \in Nat /\ d \in Nat /\ n \in Nat /\ v \in Nat /\ view.avail \in Nat
            /\ d <= n /\ n <= v /\ v + view.avail = out.avail
        BY <1>1, <1>2
      <3>2. d - c <= n - c
        BY <3>1, Shifted
      <3>3. n - c <= v - c
        BY <3>1, Shifted
      <3>4. v - c + (view.avail + k) = out.avail - c + k
        BY <3>1, Refilled
      <3> QED BY <3>2, <3>3, <3>4
    <2>3. \A i \in 1 .. L : /\ n - c <= p(i) - c /\ e(i) - c <= v - c
                            /\ \A j \in 1 .. L : i < j => e(i) - c <= p(j) - c
      <3> TAKE i \in 1 .. L
      <3>1. n - c <= p(i) - c /\ e(i) - c <= v - c
        <4>1. /\ c \in Nat /\ n \in Nat /\ v \in Nat /\ p(i) \in Nat /\ e(i) \in Nat
              /\ n <= p(i) /\ e(i) <= v
          BY <1>1, <1>2
        <4> QED BY <4>1, Shifted
      <3>2. ASSUME NEW j \in 1 .. L, i < j PROVE e(i) - c <= p(j) - c
        <4>1. e(i) <= p(j) /\ e(i) \in Nat /\ p(j) \in Nat
          BY <1>1, <1>2, <3>2
        <4>2. c \in Nat
          BY <1>1
        <4> QED BY <4>1, <4>2, Shifted
      <3> QED BY <3>1, <3>2
    <2> QED BY <1>5, <1>6, <2>1, <2>2, <2>3 DEF OffsetsInOrder
  <1>8. FramesKept'
    <2>1. CASE inflight = <<>>
      BY <2>1 DEF FramesKept
    <2>2. CASE iCurOffset' = iCurOffset
      <3> DEFINE f(i) == At(FrameEnd(i))
      <3>1. \A i \in DOMAIN inflight :
              /\ FrameEnd(i) \in Offset /\ f(i) \in Nat /\ d <= f(i) /\ f(i) <= n
              /\ \A b \in inflight[i] :
                    /\ b[1] \in Offset /\ ring[b[1]] = b[2] /\ At(b[1]) \in Nat
                    /\ d <= At(b[1]) /\ At(b[1]) < n
              /\ \A j \in DOMAIN inflight : i < j =>
                    f(i) <= f(j) /\ \A b \in inflight[j] : f(i) <= At(b[1])
        BY <2>2, FrameEndIs, AtType DEF FramesKept
      <3>2. \A i : FrameEnd(i)' = FrameEnd(i)
        BY DEF FrameEnd
      <3>3. ASSUME NEW q \in Offset, d <= At(q) PROVE At(q)' = At(q) - c
        <4>1. At(q) \in Nat
          BY AtType
        <4> QED BY <1>1, <1>2, <1>3, <3>3, <4>1
      <3>4. \A i \in DOMAIN inflight : At(FrameEnd(i))' = f(i) - c
        <4> TAKE i \in DOMAIN inflight
        <4>1. PICK q \in Offset : q = FrameEnd(i)
          BY <3>1
        <4>2. At(q)' = At(q) - c
          BY <3>1, <3>3, <4>1
        <4> QED BY <3>2, <4>1, <4>2 DEF At
      <3>5. \A i \in DOMAIN inflight : \A b \in inflight[i] : At(b[1])' = At(b[1]) - c
        <4> TAKE i \in DOMAIN inflight
        <4> TAKE b \in inflight[i]
        <4>1. PICK q \in Offset : q = b[1]
          BY <3>1
        <4>2. At(q)' = At(q) - c
          BY <3>1, <3>3, <4>1
        <4> QED BY <4>1, <4>2 DEF At
      <3> HIDE DEF f, d, n
      <3>6. \A i \in DOMAIN inflight :
              /\ d - c <= f(i) - c /\ f(i) - c <= n - c
              /\ \A b \in inflight[i] :
                    /\ b[1] \in Offset /\ ring[b[1]] = b[2]
                    /\ d - c <= At(b[1]) - c /\ At(b[1]) - c < n - c
              /\ \A j \in DOMAIN inflight : i < j =>
                    f(i) - c <= f(j) - c /\ \A b \in inflight[j] : f(i) - c <= At(b[1]) - c
        <4>1. c \in Nat /\ d \in Nat /\ n \in Nat
          BY <1>1
        <4> TAKE i \in DOMAIN inflight
        <4>2. d - c <= f(i) - c /\ f(i) - c <= n - c
          <5>1. f(i) \in Nat /\ d <= f(i) /\ f(i) <= n
            BY <3>1
          <5> QED BY <4>1, <5>1, Shifted
        <4>3. ASSUME NEW b \in inflight[i]
              PROVE  /\ b[1] \in Offset /\ ring[b[1]] = b[2]
                     /\ d - c <= At(b[1]) - c /\ At(b[1]) - c < n - c
          <5>1. /\ b[1] \in Offset /\ ring[b[1]] = b[2] /\ At(b[1]) \in Nat
                /\ d <= At(b[1]) /\ At(b[1]) < n
            BY <3>1
          <5> QED BY <4>1, <5>1, Shifted
        <4>4. ASSUME NEW j \in DOMAIN inflight, i < j
              PROVE  f(i) - c <= f(j) - c /\ \A b \in inflight[j] : f(i) - c <= At(b[1]) - c
          <5>1. f(i) \in Nat /\ f(j) \in Nat /\ f(i) <= f(j)
            BY <3>1, <4>4
          <5>2. ASSUME NEW b \in inflight[j] PROVE f(i) - c <= At(b[1]) - c
            <6>1. At(b[1]) \in Nat /\ f(i) <= At(b[1])
              BY <3>1, <4>4
            <6> QED BY <4>1, <5>1, <6>1, Shifted
          <5> QED BY <4>1, <5>1, <5>2, Shifted
        <4> QED BY <4>2, <4>3, <4>4
      <3>8. \A i \in DOMAIN inflight : \A b \in inflight[i] : ring'[b[1]] = b[2]
        <4> TAKE i \in DOMAIN inflight
        <4> TAKE b \in inflight[i]
        <4>1. PICK q \in Offset : q = b[1]
          BY <3>1
        <4>4. At(q)' = At(q) - c /\ At(q) \in Nat /\ At(q) < n
          BY <3>1, <3>3, <4>1
        <4>5. n <= out.avail
          BY <1>1, <1>2
        <4>2. At(q)' < out.avail - c
          BY <1>1, <4>4, <4>5
        <4>3. ring'[q] = ring[q]
          BY <1>3, <4>2
        <4> QED BY <3>1, <4>1, <4>3
      <3>7. \A i \in DOMAIN inflight' :
              /\ At(iCurOffset)' <= At(FrameEnd(i))' /\ At(FrameEnd(i))' <= At(iCurNalStreamOffset)'
              /\ \A b \in inflight'[i] :
                    /\ b[1] \in Offset /\ ring'[b[1]] = b[2]
                    /\ At(iCurOffset)' <= At(b[1])' /\ At(b[1])' < At(iCurNalStreamOffset)'
              /\ \A j \in DOMAIN inflight' : i < j =>
                    /\ At(FrameEnd(i))' <= At(FrameEnd(j))'
                    /\ \A b \in inflight'[j] : At(FrameEnd(i))' <= At(b[1])'
        BY <1>5, <3>4, <3>5, <3>6, <3>8
      <3> QED BY <3>7 DEF FramesKept
    <2> QED BY <2>1, <2>2
  <1>9. ASSUME NEW q \in Offset, Ahead(x, q) + 1 < out.avail - c
        PROVE  Follows(ring[q], ring[(q + 1) % Size])
    <2>1. At(q)' \in Nat /\ At(q)' = Ahead(x, q)
      BY <1>3
    <2>2. c + At(q)' < Size
      <3>1. At(q)' + 1 < out.avail - c
        BY <1>9, <2>1
      <3> HIDE DEF d, n, v, p, e, L
      <3>2. c \in Nat /\ out.avail \in Nat /\ out.avail < Size /\ At(q)' \in Nat
        BY <1>1, <2>1
      <3> QED BY <3>1, <3>2, HeldBehind
    <2>3. At(q) = c + At(q)'
      BY <1>3, <2>2
    <2>4. At(q) + 1 < out.avail
      <3>1. At(q)' + 1 < out.avail - c
        BY <1>9, <2>1
      <3> HIDE DEF d, n, v
      <3>2. c \in Nat /\ out.avail \in Nat /\ out.avail < Size /\ At(q)' \in Nat
        BY <1>1, <2>1
      <3>3. (c + At(q)') + 1 < out.avail
        BY <3>1, <3>2, HeldBehind
      <3> QED BY <2>3, <3>3
    <2> QED BY <2>4 DEF RingChained
  <1>10. TableRead'
    <2> SUFFICES ASSUME NEW i \in 1 .. L
                 PROVE  /\ \A q \in Offset :
                             Ahead(table[i].uPosition, q) < table[i].uSize
                                => ring'[q][1] = table[i].nal
                        /\ i = Len(table) =>
                             \A q \in Offset : At(table[i].uPosition)' < At(q)'
                                                 /\ At(q)' < At(view.off)' => ring'[q][2] # 1
      BY <1>1 DEF TableRead
    <2>1. /\ \A q \in Offset : Ahead(table[i].uPosition, q) < table[i].uSize
                                  => ring[q][1] = table[i].nal
          /\ i = Len(table) =>
                \A q \in Offset : p(i) < At(q) /\ At(q) < v => ring[q][2] # 1
      BY <1>1 DEF TableRead
    <2>2. ASSUME NEW q \in Offset, At(table[i].uPosition)' < At(q)', At(q)' < At(view.off)'
          PROVE  p(i) < At(q) /\ At(q) < v /\ ring'[q] = ring[q]
      <3> HIDE DEF d, n, v, p, e, L
      <3>1. At(q)' \in Nat /\ p(i) - c < At(q)' /\ At(q)' < v - c
        BY <1>3, <1>5, <2>2
      <3>2. c + At(q)' < Size
        <4>1. c \in Nat /\ v \in Nat /\ v < Size
          BY <1>1, <1>4, SizeIs
        <4> QED BY <3>1, <4>1, HeldBehind
      <3>3. At(q) = c + At(q)'
        BY <1>3, <3>2
      <3>4. Ahead(x, q) < out.avail - c
        <4>1. At(q)' = Ahead(x, q)
          BY <1>3
        <4> QED BY <1>1, <1>4, <3>1, <4>1
      <3>5. ring'[q] = ring[q]
        BY <3>4
      <3>6. p(i) \in Nat /\ p(i) - c < At(q)' /\ At(q)' < v - c
        BY <1>1, <3>1
      <3>7. p(i) < c + At(q)' /\ c + At(q)' < v
        <4>1. c \in Nat /\ v \in Nat /\ At(q)' \in Nat
          BY <1>1, <3>1
        <4> QED BY <3>6, <4>1, PlaceBetween
      <3> QED BY <3>3, <3>5, <3>7
    <2>3. ASSUME NEW q \in Offset, Ahead(table[i].uPosition, q) < table[i].uSize
          PROVE  ring'[q] = ring[q]
      <3> DEFINE y == table[i].uPosition
                 m == Ahead(y, q)
      <3>1. y \in Offset /\ m \in Nat /\ m < table[i].uSize /\ p(i) = At(y)
        BY <1>1, <2>3, Nearer
      <3>2. p(i) + m < e(i) /\ e(i) <= v
        <4> HIDE DEF m, p, e, v, y
        <4> QED BY <1>1, <1>2, <3>1
      <3>3. At(y) + m < Size
        <4> HIDE DEF m, p, e, v, y
        <4> QED BY <1>1, <1>4, <3>1, <3>2, SizeIs
      <3>4. At(q) = At(y) + m
        BY <3>1, <3>3, Nearer
      <3>5. c <= At(q) /\ At(q) - c < out.avail - c
        <4>1. c <= n /\ n <= p(i) /\ e(i) <= out.avail
          <5> HIDE DEF m, p, e, v, y, n, d
          <5> QED BY <1>1, <1>2, <1>4
        <4>2. /\ p(i) \in Nat /\ e(i) \in Nat /\ m \in Nat /\ n \in Nat
              /\ At(q) = p(i) + m /\ p(i) + m < e(i)
          BY <1>1, <3>1, <3>2, <3>4
        <4> HIDE DEF m, p, e, v, y, n, d
        <4>3. c \in Nat /\ out.avail \in Nat
          BY <1>1
        <4> QED BY <4>1, <4>2, <4>3, Within
      <3>6. Ahead(x, q) = At(q) - c
        BY <1>3, <3>5
      <3> QED BY <3>5, <3>6
    <2> QED BY <2>1, <2>2, <2>3
  <1>11. out.avail - c \in Offset
    <2> HIDE DEF d, n, v, p, e, L
    <2>1. c <= out.avail
      BY <1>1, <1>4
    <2>2. out.avail - c \in Nat /\ out.avail - c < Size
      BY <1>1, <2>1, SizeIs
    <2> QED BY <2>2, SizeIs DEF Offset
  <1>12. ASSUME out.avail - c > 0
         PROVE  out.avail > 0 /\ (x + (out.avail - c) - 1) % Size = LastHeld
    <2>1. c < out.avail /\ out.avail > 0
      <3> HIDE DEF d, n, v, p, e, L
      <3> QED BY <1>1, <1>12
    <2> QED BY <2>1, LastStays
  <1> QED BY <1>7, <1>8, <1>9, <1>10, <1>11, <1>12

\* Cells are freed, none is added.
LEMMA Freed ==
  ASSUME InputTypes, OffsetsInOrder, FramesKept, RingChained, TableRead, FrameTokens,
         NEW x \in Offset, NEW c, c = At(x),
         out'.off = x, out'.avail = out.avail - c,
         UNCHANGED <<view, ring, table, iCurNalStreamOffset, iStreamOffset, iNumFrmBlk2, inflight>>,
         iCurOffset' \in Offset, c <= At(iCurOffset'), At(iCurOffset') <= At(iCurNalStreamOffset),
         iCurOffset' = iCurOffset \/ inflight = <<>>
  PROVE  /\ OffsetsInOrder' /\ FramesKept' /\ RingChained' /\ TableRead'
         /\ out'.avail \in Offset
         /\ out'.avail > 0 => out.avail > 0 /\ LastHeld' = LastHeld
  <1>1. /\ c \in Nat /\ out.avail \in Nat /\ view.avail \in Nat
    BY PlaceTypes, AtType
  <1>2. /\ 0 \in Nat /\ out'.avail = out.avail - c + 0
        /\ view'.off = view.off /\ view'.avail = view.avail + 0
        /\ \A q \in Offset : Ahead(x, q) < out.avail - c => ring'[q] = ring[q]
    BY <1>1
  <1>3. /\ OffsetsInOrder' /\ FramesKept' /\ TableRead'
        /\ out.avail - c \in Offset
        /\ \A q \in Offset : Ahead(x, q) + 1 < out.avail - c
                            => Follows(ring[q], ring[(q + 1) % Size])
        /\ out.avail - c > 0 => /\ out.avail > 0
                                /\ (x + (out.avail - c) - 1) % Size = LastHeld
    BY <1>2, Moved
  <1>4. RingChained'
    BY <1>3 DEF RingChained, At
  <1>5. out'.avail > 0 => LastHeld' = LastHeld
    BY <1>3 DEF LastHeld
  <1> QED BY <1>3, <1>4, <1>5

---------------------------------------------------------------------------
(* when room is made, and by a flush *)

\* What is still to be copied goes on where the circular buffer ends.
LEMMA PendingFollows ==
  ASSUME EosParts, BuffersChained, InputChained, UNCHANGED <<pending, ring>>,
         out'.avail > 0 => out.avail > 0 /\ LastHeld' = LastHeld,
         app \in Joined => app' \in Joined,
         app' \in {"pushes", "awaits"} => app \in {"pushes", "awaits"}
  PROVE  EosParts' /\ BuffersChained' /\ InputChained'
  <1>1. /\ ring' = ring /\ prog' = prog /\ input' = input /\ fifo' = fifo
        /\ workBuf' = workBuf /\ eosMeta' = eosMeta
    BY DEF pending
  <1>2. EosParts'
    BY <1>1 DEF EosParts, EosHalf
  <1>3. BuffersChained'
    <2>1. NextCell' = NextCell
      BY <1>1 DEF NextCell, BufMeta
    <2>2. /\ \A k \in DOMAIN fifo :
                /\ Filled(fifo[k])
                /\ k > 1 => Follows(LastCell(fifo[k - 1]), FirstCell(fifo[k]))
          /\ workBuf # <<>> =>
                /\ Filled(workBuf[1])
                /\ fifo # <<>> => Follows(LastCell(workBuf[1]), FirstCell(fifo[1]))
      BY DEF BuffersChained
    <2>3. out'.avail > 0 /\ (workBuf # <<>> \/ fifo # <<>>) => Follows(ring[LastHeld'], NextCell')
      BY <2>1 DEF BuffersChained
    <2> QED BY <1>1, <2>2, <2>3 DEF BuffersChained
  <1>4. InputChained'
    <2>1. \A c : IsFlush(c)' = IsFlush(c)
      BY <1>1 DEF IsFlush, Nut
    <2>2. Chained(input)
      BY DEF InputChained
    <2>3. ASSUME app' \in {"pushes", "awaits"}, input # <<>>, ~IsFlush(Head(input))
          PROVE  /\ fifo # <<>> => Follows(LastCell(fifo[Len(fifo)]), Head(input))
                 /\ fifo = <<>> /\ workBuf # <<>> => Follows(LastCell(workBuf[1]), Head(input))
                 /\ fifo = <<>> /\ workBuf = <<>> /\ out'.avail > 0 =>
                       Follows(ring[LastHeld'], Head(input))
      BY <2>3 DEF InputChained
    <2>4. IsFlush(Head(input))' = IsFlush(Head(input))
      BY <1>1 DEF IsFlush, Nut
    <2> QED BY <1>1, <2>2, <2>3, <2>4 DEF InputChained
  <1> QED BY <1>2, <1>3, <1>4

\* Nothing is in the hardware when WaitFrameSent goes on.
LEMMA NothingSent ==
  ASSUME FrameTokens, WaitFrameSent
  PROVE  inflight = <<>>
  <1>1. Len(inflight) \in Nat /\ (inflight = <<>> <=> Len(inflight) = 0)
    BY EmptyQueue DEF FrameTokens
  <1> QED BY <1>1, Sizes DEF FrameTokens, WaitFrameSent

\* What has been decoded, and what has been parsed, consumed.
LEMMA ConsumedParts ==
  ASSUME InputTypes, OffsetsInOrder,
         NEW o, o = CircBuffer_ConsumeUpToOffset(out, iCurOffset),
         NEW s, s = CircBuffer_ConsumeUpToOffset(o, iCurNalStreamOffset)
  PROVE  /\ o = [off |-> iCurOffset, avail |-> out.avail - At(iCurOffset), last |-> out.last]
         /\ o \in Circ
         /\ s = [off |-> iCurNalStreamOffset,
                 avail |-> out.avail - At(iCurNalStreamOffset), last |-> out.last]
         /\ s \in Circ
  <1> DEFINE a == At(iCurOffset)
             n == At(iCurNalStreamOffset)
  <1>1. /\ out \in Circ /\ iCurOffset \in Offset /\ iCurNalStreamOffset \in Offset
        /\ a \in Nat /\ n \in Nat /\ out.avail \in Nat /\ out.avail < Size
    BY PlaceTypes DEF InputTypes
  <1>2. a <= n /\ n <= out.avail
    <2>1. a <= n /\ n <= At(view.off) /\ At(view.off) + view.avail = out.avail
          /\ At(view.off) \in Nat /\ view.avail \in Nat
      BY PlaceTypes DEF OffsetsInOrder
    <2> HIDE DEF a, n
    <2> QED BY <1>1, <2>1
  <1>3. Ahead(out.off, iCurOffset) = a /\ a <= out.avail
    <2>1. Ahead(out.off, iCurOffset) = a
      BY DEF At
    <2> HIDE DEF a, n
    <2> QED BY <1>1, <1>2, <2>1
  <1>4. o = [off |-> iCurOffset, avail |-> out.avail - a, last |-> out.last] /\ o \in Circ
    BY <1>1, <1>3, Consumed
  <1>5. o.off = iCurOffset /\ o.avail = out.avail - a /\ o.last = out.last
    BY <1>4
  <1>6. Ahead(o.off, iCurNalStreamOffset) = n - a
    BY <1>1, <1>2, <1>5, Nearer
  <1>7. n - a <= out.avail - a /\ out.avail - a - (n - a) = out.avail - n
    <2> HIDE DEF a, n
    <2> QED BY <1>1, <1>2
  <1>8. /\ s = [off |-> iCurNalStreamOffset,
                avail |-> o.avail - Ahead(o.off, iCurNalStreamOffset), last |-> o.last]
        /\ s \in Circ
    BY <1>1, <1>4, <1>5, <1>6, <1>7, Consumed
  <1> QED BY <1>4, <1>5, <1>6, <1>7, <1>8

LEMMA RoomMadeStep ==
  ASSUME InputData, Places, Requests, FrameTokens, [Next]_vars, RoomMade, ~lost'
  PROVE  InputData'
  <1>1. InputTypes /\ OffsetsInOrder /\ FramesKept /\ StatusRight /\ TableHasRoom
        /\ RingChained /\ TableRead /\ EosParts /\ BuffersChained /\ InputChained
    BY DEF InputData, CellsInOrder
  <1>2. PICK o : o = CircBuffer_ConsumeUpToOffset(out, iCurOffset)
    OBVIOUS
  <1>3. PICK s : s = CircBuffer_ConsumeUpToOffset(o, iCurNalStreamOffset)
    OBVIOUS
  <1>4. /\ o = [off |-> iCurOffset, avail |-> out.avail - At(iCurOffset), last |-> out.last]
        /\ o \in Circ
        /\ s = [off |-> iCurNalStreamOffset,
                avail |-> out.avail - At(iCurNalStreamOffset), last |-> out.last]
        /\ s \in Circ
    BY <1>1, <1>2, <1>3, ConsumedParts
  <1>5. /\ \/ out' = o /\ iCurOffset' = iCurOffset
           \/ out' = s /\ iCurOffset' = iCurNalStreamOffset
        /\ UNCHANGED <<view, table, iCurNalStreamOffset>>
    BY <1>2, <1>3 DEF RoomMade, tableVars
  <1>6. /\ UNCHANGED <<ring, iStreamOffset, iNumFrmBlk2, inflight, pending>>
        /\ UNCHANGED <<ScDetectionComplete, ScdStatus>> /\ slave' # "detect"
        /\ inflight = <<>>
    BY NothingSent DEF RoomMade, hwVars, scdVars, appVars, pending, LastOrNext, NextRound
  <1>7. /\ iCurOffset \in Offset /\ iCurNalStreamOffset \in Offset
        /\ At(iCurOffset) <= At(iCurNalStreamOffset)
        /\ At(iCurOffset) \in Nat /\ At(iCurNalStreamOffset) \in Nat
    BY <1>1, PlaceTypes DEF OffsetsInOrder
  <1>8. /\ OffsetsInOrder' /\ FramesKept' /\ RingChained' /\ TableRead'
        /\ out'.avail \in Offset
        /\ out'.avail > 0 => out.avail > 0 /\ LastHeld' = LastHeld
    <2>1. CASE out' = o /\ iCurOffset' = iCurOffset
      <3>1. PICK x \in Offset : x = iCurOffset
        BY <1>7
      <3>2. PICK c : c = At(x)
        OBVIOUS
      <3>3. out'.off = x /\ out'.avail = out.avail - c
        BY <1>4, <2>1, <3>1, <3>2
      <3>4. iCurOffset' \in Offset /\ c <= At(iCurOffset') /\ At(iCurOffset') <= At(iCurNalStreamOffset)
        BY <1>7, <2>1, <3>1, <3>2
      <3> QED BY <1>1, <1>5, <1>6, <3>2, <3>3, <3>4, Freed
    <2>2. CASE out' = s /\ iCurOffset' = iCurNalStreamOffset
      <3>1. PICK x \in Offset : x = iCurNalStreamOffset
        BY <1>7
      <3>2. PICK c : c = At(x)
        OBVIOUS
      <3>3. out'.off = x /\ out'.avail = out.avail - c
        BY <1>4, <2>2, <3>1, <3>2
      <3>4. iCurOffset' \in Offset /\ c <= At(iCurOffset') /\ At(iCurOffset') <= At(iCurNalStreamOffset)
        BY <1>7, <2>2, <3>1, <3>2
      <3> QED BY <1>1, <1>5, <1>6, <3>2, <3>3, <3>4, Freed
    <2> QED BY <1>5, <2>1, <2>2
  <1>9. InputTypes'
    <2>1. out' \in Circ /\ iCurOffset' \in Offset
      BY <1>4, <1>5, <1>7
    <2> QED BY <1>1, <1>5, <1>6, <2>1 DEF InputTypes, pending
  <1>10. TableHasRoom'
    BY <1>1, <1>5, <1>6 DEF TableHasRoom
  <1>11. StatusRight'
    BY <1>1, <1>5, <1>6, StatusStays
  <1>12. EosParts' /\ BuffersChained' /\ InputChained'
    BY <1>1, <1>6, <1>8, AppMoves, PendingFollows
  <1> QED BY <1>8, <1>9, <1>10, <1>11, <1>12 DEF InputData, CellsInOrder

LEMMA FlushStep ==
  ASSUME InputData, Places, Requests, FrameTokens, [Next]_vars, InternalFlush
  PROVE  InputData'
  <1>1. InputTypes /\ EosParts /\ BuffersChained /\ InputChained
    BY DEF InputData, CellsInOrder
  <1>2. /\ table' = <<>> /\ iCurNalStreamOffset' = 0 /\ iCurOffset' = 0
        /\ out' = [off |-> 0, avail |-> 0, last |-> FALSE]
        /\ view' = [off |-> 0, avail |-> 0, last |-> FALSE]
        /\ UNCHANGED <<ring, iStreamOffset, iNumFrmBlk2, inflight, pending>>
        /\ ScDetectionComplete' = ScDetectionComplete
        /\ slave \in {"flush", "lastFlush"} /\ slave' # "detect" /\ inflight = <<>>
    BY NothingSent DEF InternalFlush, FlushInput, EmptyCirc, hwVars, scdVars, appVars, pending,
                       NextRound
  <1>3. ~ScDetectionComplete'
    BY <1>2 DEF Requests
  <1>4. 0 \in Offset /\ Ahead(0, 0) = 0
    <2>1. 0 \in Offset
      BY SizeIs DEF Offset
    <2> QED BY <2>1, AheadTells
  <1>5. InputTypes'
    BY <1>1, <1>2, <1>4 DEF InputTypes, Circ, pending
  <1>6. Len(table') = 0 /\ DOMAIN table' = {}
    BY <1>2
  <1>7. OffsetsInOrder'
    BY <1>2, <1>4, <1>6 DEF OffsetsInOrder, At
  <1>8. FramesKept'
    BY <1>2 DEF FramesKept
  <1>9. RingChained' /\ TableRead'
    <2>1. \A p \in Offset : At(p)' \in Nat
      BY <1>2, <1>4, AheadIs DEF At, Offset
    <2>2. \A p \in Offset : ~(At(p)' + 1 < out'.avail)
      BY <1>2, <2>1
    <2> QED BY <1>6, <2>2 DEF RingChained, TableRead
  <1>10. TableHasRoom'
    BY <1>2, <1>6, Sizes DEF TableHasRoom
  <1>11. StatusRight'
    BY <1>3 DEF StatusRight
  <1>12. EosParts' /\ BuffersChained' /\ InputChained'
    BY <1>1, <1>2, AppMoves, PendingFollows
  <1> QED BY <1>5, <1>7, <1>8, <1>9, <1>10, <1>11, <1>12 DEF InputData, CellsInOrder

---------------------------------------------------------------------------
(* Buffers are pushed *)

\* What changes only what is pending.
LEMMA PendingOnly ==
  ASSUME InputData, UNCHANGED circPlaces, UNCHANGED <<slave, ScDetectionComplete, ScdStatus>>,
         InputTypes', EosParts', BuffersChained', InputChained'
  PROVE  InputData'
  <1>1. UNCHANGED <<ring, view, table>>
    BY DEF circPlaces, circVars, tableVars
  <1>2. OffsetsInOrder' /\ FramesKept' /\ RingChained' /\ TableRead'
    BY OffsetsStay DEF InputData, CellsInOrder
  <1>3. StatusRight'
    BY <1>1, StatusStays DEF InputData
  <1>4. TableHasRoom'
    BY <1>1 DEF InputData, TableHasRoom
  <1> QED BY <1>2, <1>3, <1>4 DEF InputData, CellsInOrder

\* The end-of-stream NAL.
LEMMA EosCellsAre ==
  /\ EosCells \in Seq(Cell) /\ Len(EosCells) = 2
  /\ EosCells[1] = <<0, 1>> /\ EosCells[2] = <<0, 2>> /\ EosCells[1][2] = 1
  /\ EosCells[2][1] = EosCells[1][1]
  /\ <<EosCells[2]>> \in Seq(Cell) /\ Len(<<EosCells[2]>>) = 1 /\ <<EosCells[2]>>[1] = EosCells[2]
  /\ EosCells # <<>> /\ EosCells # <<EosCells[2]>> /\ <<EosCells[2]>> # <<>>
  <1>1. <<0, 1>> \in Cell /\ <<0, 2>> \in Cell
    BY DEF Cell
  <1>2. EosCells = <<<<0, 1>>, <<0, 2>>>>
    BY DEF EosCells, EosNal
  <1>3. /\ EosCells \in Seq(Cell) /\ Len(EosCells) = 2
        /\ EosCells[1] = <<0, 1>> /\ EosCells[2] = <<0, 2>>
    BY <1>1, <1>2
  <1>4. /\ <<EosCells[2]>> \in Seq(Cell) /\ Len(<<EosCells[2]>>) = 1
        /\ <<EosCells[2]>>[1] = EosCells[2]
    BY <1>1, <1>3
  <1>5. Len(<<>>) = 0
    OBVIOUS
  <1> QED BY <1>3, <1>4, <1>5

\* A buffer is added to the fifo.
LEMMA BufferQueued ==
  ASSUME InputTypes, BuffersChained, NEW buf \in Buffer, Filled(buf),
         fifo' = Append(fifo, buf), UNCHANGED <<workBuf, out, ring>>,
         fifo # <<>> => Follows(LastCell(fifo[Len(fifo)]), FirstCell(buf)),
         fifo = <<>> /\ workBuf # <<>> => Follows(LastCell(workBuf[1]), FirstCell(buf)),
         fifo = <<>> /\ workBuf = <<>> /\ out.avail > 0 => Follows(ring[LastHeld], FirstCell(buf)),
         workBuf # <<>> /\ out.avail > 0 => Follows(ring[LastHeld], BufMeta(workBuf[1])'.cells[1])
  PROVE  BuffersChained' /\ fifo' \in Seq(Buffer)
  <1> DEFINE n == Len(fifo)
             q == fifo'
  <1>1. fifo \in Seq(Buffer) /\ n \in Nat /\ DOMAIN fifo = 1 .. n /\ (fifo = <<>> <=> n = 0)
    <2>1. fifo \in Seq(Buffer)
      BY DEF InputTypes
    <2> QED BY <2>1, LenProperties, EmptySeq
  <1>2. /\ q \in Seq(Buffer) /\ DOMAIN q = 1 .. n + 1 /\ q[n + 1] = buf
        /\ \A k \in 1 .. n : q[k] = fifo[k]
        /\ q # <<>>
    <2>1. /\ q \in Seq(Buffer) /\ Len(q) = n + 1 /\ q[n + 1] = buf
          /\ \A k \in 1 .. n : q[k] = fifo[k]
      BY <1>1, AppendProperties
    <2> HIDE DEF q, n
    <2> QED BY <1>1, <2>1, LenProperties, EmptySeq
  <1>3. /\ \A k \in 1 .. n :
              /\ Filled(fifo[k])
              /\ k > 1 => Follows(LastCell(fifo[k - 1]), FirstCell(fifo[k]))
        /\ workBuf # <<>> =>
              /\ Filled(workBuf[1])
              /\ fifo # <<>> => Follows(LastCell(workBuf[1]), FirstCell(fifo[1]))
        /\ out.avail > 0 /\ (workBuf # <<>> \/ fifo # <<>>) => Follows(ring[LastHeld], NextCell)
    BY <1>1 DEF BuffersChained
  <1>4. q[1] = IF fifo = <<>> THEN buf ELSE fifo[1]
    <2> HIDE DEF q, n
    <2> QED BY <1>1, <1>2
  <1>5. ASSUME NEW k \in 1 .. n + 1
        PROVE  Filled(q[k]) /\ (k > 1 => Follows(LastCell(q[k - 1]), FirstCell(q[k])))
    <2>1. CASE k <= n
      <3>1. k \in 1 .. n /\ (k > 1 => k - 1 \in 1 .. n)
        <4> HIDE DEF q, n
        <4> QED BY <1>1, <2>1
      <3> HIDE DEF q, n
      <3> QED BY <1>2, <1>3, <3>1
    <2>2. CASE k = n + 1
      <3>1. k > 1 => n \in 1 .. n /\ k - 1 = n /\ fifo # <<>>
        <4> HIDE DEF q
        <4> QED BY <1>1, <2>2
      <3>2. q[k] = buf /\ (k > 1 => q[k - 1] = fifo[n])
        <4> HIDE DEF q, n
        <4> QED BY <1>2, <2>2, <3>1
      <3> HIDE DEF q
      <3> QED BY <3>1, <3>2
    <2> HIDE DEF q, n
    <2> QED BY <1>1, <2>1, <2>2
  <1>6. workBuf # <<>> => /\ Filled(workBuf[1])
                          /\ Follows(LastCell(workBuf[1]), FirstCell(q[1]))
    <2> HIDE DEF q
    <2> QED BY <1>3, <1>4
  <1>7. out.avail > 0 => Follows(ring[LastHeld], NextCell')
    <2>1. CASE workBuf # <<>>
      <3>1. NextCell' = BufMeta(workBuf[1])'.cells[1]
        BY <2>1 DEF NextCell
      <3> QED BY <2>1, <3>1
    <2>2. CASE workBuf = <<>>
      <3>1. NextCell' = FirstCell(q[1])
        BY <2>2 DEF NextCell
      <3>2. fifo # <<>> => NextCell = FirstCell(fifo[1])
        BY <2>2 DEF NextCell
      <3> HIDE DEF q
      <3> QED BY <1>3, <1>4, <2>2, <3>1, <3>2
    <2> QED BY <2>1, <2>2
  <1>8. LastHeld' = LastHeld
    BY DEF LastHeld
  <1>9. BuffersChained'
    BY <1>2, <1>5, <1>6, <1>7, <1>8 DEF BuffersChained
  <1> QED BY <1>2, <1>9

\* The end-of-stream buffer is pushed: a new NAL.
LEMMA EosPushed ==
  ASSUME InputTypes, EosParts, BuffersChained, NEW isLast \in BOOLEAN, PushEos(isLast),
         UNCHANGED <<workBuf, out, ring>>
  PROVE  /\ BuffersChained' /\ EosParts' /\ fifo' \in Seq(Buffer) /\ fifo' # <<>>
         /\ eosMeta' \in [cells : Seq(Cell), last : BOOLEAN]
  <1>1. PICK buf : buf = [id |-> "eos", cells |-> <<>>]
    OBVIOUS
  <1>2. buf \in Buffer /\ IsEos(buf) /\ Filled(buf) /\ FirstCell(buf)[2] = 1
    <2>1. <<>> \in Seq(Cell)
      OBVIOUS
    <2> QED BY <1>1, <2>1, EosCellsAre DEF Buffer, IsEos, Filled, FirstCell
  <1>3. fifo' = Append(fifo, buf) /\ eosMeta' = [cells |-> EosCells, last |-> isLast]
    BY <1>1 DEF PushEos
  <1>4. \A c : Follows(c, FirstCell(buf))
    BY <1>2 DEF Follows
  <1>5. eosMeta' # NoMeta /\ eosMeta'.cells = EosCells
    <2>1. eosMeta'.cells = EosCells /\ NoMeta.cells = <<>>
      BY <1>3 DEF NoMeta
    <2> QED BY <2>1, EosCellsAre
  <1>6. ASSUME workBuf # <<>>, out.avail > 0
        PROVE  Follows(ring[LastHeld], BufMeta(workBuf[1])'.cells[1])
    <2>1. CASE IsEos(workBuf[1])
      <3>1. BufMeta(workBuf[1])' = eosMeta'
        BY <1>5, <2>1 DEF BufMeta, IsEos
      <3> QED BY <1>5, <3>1, EosCellsAre DEF Follows
    <2>2. CASE ~IsEos(workBuf[1])
      <3>1. BufMeta(workBuf[1])' = BufMeta(workBuf[1])
        BY <2>2 DEF BufMeta, IsEos
      <3>2. NextCell = BufMeta(workBuf[1]).cells[1]
        BY <1>6 DEF NextCell
      <3> QED BY <1>6, <3>1, <3>2 DEF BuffersChained
    <2> QED BY <2>1, <2>2
  <1>7. BuffersChained' /\ fifo' \in Seq(Buffer)
    BY <1>2, <1>3, <1>4, <1>6, BufferQueued
  <1>8. EosParts'
    BY <1>5, EosCellsAre DEF EosParts, EosHalf
  <1>9. fifo' # <<>>
    <2>1. fifo \in Seq(Buffer)
      BY DEF InputTypes
    <2> QED BY <1>2, <1>3, <2>1, AppendProperties
  <1>10. eosMeta' \in [cells : Seq(Cell), last : BOOLEAN]
    BY <1>3, EosCellsAre
  <1> QED BY <1>7, <1>8, <1>9, <1>10

\* t is s without its first k cells; t is the first k cells of s.
Rest(s, k, t) ==
    /\ t \in Seq(Cell) /\ Chained(t) /\ Len(t) = Len(s) - k /\ Len(s) \in Nat
    /\ \A i \in 1 .. Len(s) - k : t[i] = s[i + k]
    /\ (t = <<>> <=> k = Len(s))
    /\ t # <<>> => Head(t) = s[k + 1]

First(s, k, t) ==
    /\ t \in Seq(Cell) /\ Chained(t) /\ Len(t) = k
    /\ \A i \in 1 .. k : t[i] = s[i]
    /\ (t = <<>> <=> k = 0)

\* Both parts of a chain are chains.
LEMMA RestChained ==
  ASSUME NEW s \in Seq(Cell), Chained(s), NEW k \in 0 .. Len(s)
  PROVE  Rest(s, k, SubSeq(s, k + 1, Len(s)))
  <1>0. PICK t : t = SubSeq(s, k + 1, Len(s))
    OBVIOUS
  <1>1. Len(s) \in Nat
    OBVIOUS
  <1>2. /\ t \in Seq(Cell) /\ Len(t) = Len(s) - k
        /\ \A i \in 1 .. Len(s) - k : t[i] = s[i + k]
    BY <1>0, <1>1, SubSeqProperties
  <1>3. t = <<>> <=> k = Len(s)
    <2>1. t = <<>> <=> Len(t) = 0
      BY <1>2, EmptySeq
    <2>2. k \in Nat
      OBVIOUS
    <2> QED BY <1>1, <1>2, <2>1, <2>2
  <1>4. Chained(t)
    <2> SUFFICES ASSUME NEW i \in 1 .. Len(t) - 1 PROVE Follows(t[i], t[i + 1])
      BY DEF Chained
    <2>1. i + k \in 1 .. Len(s) - 1 /\ i \in 1 .. Len(s) - k /\ i + 1 \in 1 .. Len(s) - k
          /\ (i + 1) + k = (i + k) + 1
      BY <1>1, <1>2
    <2>2. Follows(s[i + k], s[(i + k) + 1])
      BY <2>1 DEF Chained
    <2>3. t[i] = s[i + k] /\ t[i + 1] = s[(i + 1) + k]
      BY <1>2, <2>1
    <2> QED BY <2>1, <2>2, <2>3
  <1>5. t # <<>> => Head(t) = s[k + 1]
    <2>1. ASSUME t # <<>> PROVE 1 \in 1 .. Len(s) - k /\ 1 + k = k + 1
      BY <1>1, <1>3, <2>1
    <2> QED BY <1>2, <2>1
  <1> QED BY <1>0, <1>1, <1>2, <1>3, <1>4, <1>5 DEF Rest

LEMMA FirstChained ==
  ASSUME NEW s \in Seq(Cell), Chained(s), NEW k \in 0 .. Len(s)
  PROVE  First(s, k, SubSeq(s, 1, k))
  <1>0. PICK t : t = SubSeq(s, 1, k)
    OBVIOUS
  <1>1. Len(s) \in Nat
    OBVIOUS
  <1>2. /\ t \in Seq(Cell) /\ Len(t) = k
        /\ \A i \in 1 .. k : t[i] = s[i]
    BY <1>0, <1>1, SubSeqProperties
  <1>3. t = <<>> <=> k = 0
    BY <1>1, <1>2, EmptySeq
  <1>4. Chained(t)
    <2> SUFFICES ASSUME NEW i \in 1 .. Len(t) - 1 PROVE Follows(t[i], t[i + 1])
      BY DEF Chained
    <2>1. i \in 1 .. Len(s) - 1 /\ i \in 1 .. k /\ i + 1 \in 1 .. k
      BY <1>1, <1>2
    <2> QED BY <1>2, <2>1 DEF Chained
  <1> QED BY <1>0, <1>2, <1>3, <1>4 DEF First

---------------------------------------------------------------------------
(* by the application *)

LEMMA InputType ==
  ASSUME InputTypes
  PROVE  /\ input \in Seq(Cell) /\ Len(input) \in Nat /\ (input = <<>> <=> Len(input) = 0)
         /\ input # <<>> => Head(input) = input[1]
         /\ fifo \in Seq(Buffer) /\ Len(fifo) \in Nat /\ (fifo = <<>> <=> Len(fifo) = 0)
         /\ workBuf \in Seq(Buffer)
  <1>1. input \in Seq(Cell) /\ fifo \in Seq(Buffer) /\ workBuf \in Seq(Buffer)
    BY DEF InputTypes
  <1> QED BY <1>1, EmptySeq, LenProperties

\* The cells pushed are a beginning of the input, before the first flush.
LEMMA PushedCells ==
  ASSUME InputTypes, Push
  PROVE  \E k \in 1 .. Len(input) :
            /\ ~IsFlush(input[1])
            /\ fifo' = Append(fifo, [id |-> "app", cells |-> SubSeq(input, 1, k)])
            /\ input' = SubSeq(input, k + 1, Len(input))
  <1>1. PICK n \in ChunkSizes :
            LET chunk == SubSeq(input, 1, Min({n, Len(input)}))
                flushAt == SelectInSeq(chunk, IsFlush)
                cells == IF flushAt = 0 THEN chunk ELSE SubSeq(chunk, 1, flushAt - 1)
            IN  /\ cells # <<>>
                /\ input' = SubSeq(input, Len(cells) + 1, Len(input))
                /\ fifo' = Append(fifo, [id |-> "app", cells |-> cells])
    BY DEF Push
  <1>2. PICK m : m = Min({n, Len(input)})
    OBVIOUS
  <1>3. PICK chunk : chunk = SubSeq(input, 1, m)
    OBVIOUS
  <1>4. PICK flushAt : flushAt = SelectInSeq(chunk, IsFlush)
    OBVIOUS
  <1>5. PICK cells : cells = IF flushAt = 0 THEN chunk ELSE SubSeq(chunk, 1, flushAt - 1)
    OBVIOUS
  <1>6. /\ cells # <<>>
        /\ input' = SubSeq(input, Len(cells) + 1, Len(input))
        /\ fifo' = Append(fifo, [id |-> "app", cells |-> cells])
    BY <1>1, <1>2, <1>3, <1>4, <1>5
  <1>7. input \in Seq(Cell) /\ Len(input) \in Nat
    BY InputType
  <1>8. m \in 0 .. Len(input)
    <2>1. n \in Nat
      BY Sizes
    <2> QED BY <1>2, <1>7, <2>1, LesserOf
  <1>9. /\ chunk \in Seq(Cell) /\ Len(chunk) = m
        /\ \A i \in 1 .. m : chunk[i] = input[i]
    BY <1>3, <1>7, <1>8, SubSeqProperties
  <1> DEFINE I == {i \in 1 .. Len(chunk) : IsFlush(chunk[i])}
  <1>10. flushAt = IF I # {} THEN Min(I) ELSE 0
    BY <1>4 DEF SelectInSeq
  <1>11. I # {} => Min(I) \in I /\ \A i \in I : Min(I) <= i
    <2>1. I \in SUBSET Nat
      BY <1>8, <1>9
    <2> HIDE DEF I
    <2> QED BY <2>1, LeastOf
  <1>12. \/ flushAt = 0 /\ I = {}
         \/ flushAt \in 1 .. m /\ \A i \in I : flushAt <= i
    <2>1. I # {} => Min(I) \in 1 .. m
      BY <1>9, <1>11
    <2> HIDE DEF I
    <2> QED BY <1>8, <1>10, <1>11, <2>1
  <1>13. PICK k \in 0 .. m :
            /\ cells = SubSeq(chunk, 1, k)
            /\ \A i \in 1 .. k : i \notin I
    <2>1. CASE flushAt = 0
      <3>1. chunk = SubSeq(chunk, 1, m)
        BY <1>8, <1>9
      <3>2. m \in 0 .. m
        BY <1>8
      <3> QED BY <1>5, <1>12, <2>1, <3>1, <3>2
    <2>2. CASE flushAt # 0
      <3>1. flushAt - 1 \in 0 .. m /\ \A i \in 1 .. flushAt - 1 : i \notin I
        <4>1. flushAt \in 1 .. m /\ \A i \in I : flushAt <= i
          BY <1>12, <2>2
        <4> HIDE DEF I
        <4> QED BY <1>8, <4>1
      <3> QED BY <1>5, <2>2, <3>1
    <2> QED BY <2>1, <2>2
  <1>14. cells \in Seq(Cell) /\ Len(cells) = k /\ \A i \in 1 .. k : cells[i] = chunk[i]
    BY <1>8, <1>9, <1>13, SubSeqProperties
  <1>15. k # 0
    BY <1>6, <1>14, EmptySeq
  <1>16. k \in 1 .. Len(input) /\ 1 \in 1 .. k /\ 1 \in 1 .. m
    BY <1>7, <1>8, <1>13, <1>15
  <1>17. ~IsFlush(input[1])
    <2>1. ~IsFlush(chunk[1])
      BY <1>9, <1>13, <1>16
    <2> QED BY <1>9, <1>16, <2>1
  <1>18. cells = SubSeq(input, 1, k)
    <2>1. /\ SubSeq(input, 1, k) \in Seq(Cell) /\ Len(SubSeq(input, 1, k)) = k
          /\ \A i \in 1 .. k : SubSeq(input, 1, k)[i] = input[i]
      BY <1>7, <1>16, SubSeqProperties
    <2>2. \A i \in 1 .. k : cells[i] = input[i]
      <3> TAKE i \in 1 .. k
      <3>1. i \in 1 .. m
        BY <1>8, <1>13
      <3> QED BY <1>9, <1>14, <3>1
    <2> QED BY <1>14, <2>1, <2>2, SeqEqual
  <1> QED BY <1>6, <1>14, <1>16, <1>17, <1>18

LEMMA PushStep ==
  ASSUME InputData, Places, [Next]_vars, Push
  PROVE  InputData'
  <1>1. InputTypes /\ EosParts /\ BuffersChained /\ InputChained
    BY DEF InputData, CellsInOrder
  <1>2. /\ app = "pushes" /\ app' = app
        /\ UNCHANGED circPlaces /\ UNCHANGED <<slave, ScDetectionComplete, ScdStatus>>
        /\ UNCHANGED <<prog, workBuf, eosMeta, out, ring>>
    BY DEF Push, circPlaces, circVars, hwVars, scdVars, slaveVars
  <1>3. PICK k \in 1 .. Len(input) :
            /\ ~IsFlush(input[1])
            /\ fifo' = Append(fifo, [id |-> "app", cells |-> SubSeq(input, 1, k)])
            /\ input' = SubSeq(input, k + 1, Len(input))
    BY <1>1, PushedCells
  <1>4. PICK s : s = input
    OBVIOUS
  <1>5. PICK cells : cells = SubSeq(s, 1, k)
    OBVIOUS
  <1>6. PICK t : t = SubSeq(s, k + 1, Len(s))
    OBVIOUS
  <1>7. s \in Seq(Cell) /\ Chained(s) /\ Len(s) \in Nat /\ k \in 0 .. Len(s) /\ k \in 1 .. Len(s)
    BY <1>1, <1>3, <1>4, InputType DEF InputChained
  <1>8. /\ cells \in Seq(Cell) /\ Chained(cells) /\ Len(cells) = k
        /\ \A i \in 1 .. k : cells[i] = s[i]
        /\ cells # <<>>
    <2>1. /\ cells \in Seq(Cell) /\ Chained(cells) /\ Len(cells) = k
          /\ \A i \in 1 .. k : cells[i] = s[i]
          /\ (cells = <<>> <=> k = 0)
      BY <1>5, <1>7, FirstChained DEF First
    <2>2. k # 0
      BY <1>7
    <2> QED BY <2>1, <2>2
  <1>9. /\ t \in Seq(Cell) /\ Chained(t)
        /\ t # <<>> => k # Len(s) /\ Head(t) = s[k + 1]
    <2>1. /\ t \in Seq(Cell) /\ Chained(t) /\ Len(t) = Len(s) - k /\ Len(s) \in Nat
          /\ \A i \in 1 .. Len(s) - k : t[i] = s[i + k]
          /\ (t = <<>> <=> k = Len(s))
          /\ t # <<>> => Head(t) = s[k + 1]
      <3>1. Rest(s, k, t)
        BY <1>6, <1>7, RestChained
      <3> QED BY <3>1 DEF Rest
    <2> QED BY <2>1
  <1>10. PICK buf : buf = [id |-> "app", cells |-> cells]
    OBVIOUS
  <1>11. /\ buf \in Buffer /\ ~IsEos(buf) /\ Filled(buf)
         /\ FirstCell(buf) = s[1] /\ LastCell(buf) = s[k]
    <2>1. buf.id = "app" /\ buf.cells = cells /\ buf \in Buffer
      BY <1>8, <1>10 DEF Buffer
    <2>2. ~IsEos(buf)
      BY <2>1 DEF IsEos
    <2>3. cells[1] = s[1] /\ cells[Len(cells)] = s[k]
      BY <1>7, <1>8
    <2> QED BY <1>8, <2>1, <2>2, <2>3 DEF Filled, FirstCell, LastCell
  <1>12. fifo' = Append(fifo, buf) /\ input' = t
    BY <1>3, <1>4, <1>5, <1>6, <1>10
  <1>13. s # <<>> /\ Head(s) = s[1] /\ ~IsFlush(Head(s))
    BY <1>1, <1>3, <1>4, <1>7, InputType
  <1>14. /\ fifo # <<>> => Follows(LastCell(fifo[Len(fifo)]), s[1])
         /\ fifo = <<>> /\ workBuf # <<>> => Follows(LastCell(workBuf[1]), s[1])
         /\ fifo = <<>> /\ workBuf = <<>> /\ out.avail > 0 => Follows(ring[LastHeld], s[1])
    BY <1>1, <1>2, <1>4, <1>13 DEF InputChained
  <1>15. workBuf # <<>> /\ out.avail > 0 => Follows(ring[LastHeld], BufMeta(workBuf[1])'.cells[1])
    <2>1. BufMeta(workBuf[1])' = BufMeta(workBuf[1])
      BY <1>2 DEF BufMeta
    <2> QED BY <1>1, <2>1 DEF BuffersChained, NextCell
  <1>16. BuffersChained' /\ fifo' \in Seq(Buffer)
    BY <1>1, <1>2, <1>11, <1>12, <1>14, <1>15, BufferQueued
  <1>17. EosParts'
    BY <1>1, <1>2 DEF EosParts, EosHalf
  <1>18. InputTypes'
    BY <1>1, <1>2, <1>9, <1>12, <1>16 DEF InputTypes, circPlaces, circVars, tableVars
  <1>19. InputChained'
    <2>1. fifo' # <<>> /\ fifo'[Len(fifo')] = buf
      BY <1>1, <1>11, <1>12, InputType, AppendProperties
    <2>2. t # <<>> => Follows(LastCell(buf), Head(t))
      <3>1. ASSUME t # <<>> PROVE k \in 1 .. Len(s) - 1
        BY <1>7, <1>9, <3>1
      <3> QED BY <1>7, <1>9, <1>11, <3>1 DEF Chained
    <2> QED BY <1>9, <1>12, <2>1, <2>2 DEF InputChained
  <1> QED BY <1>2, <1>16, <1>17, <1>18, <1>19, PendingOnly

LEMMA FlushCalledStep ==
  ASSUME InputData, Places, [Next]_vars, FlushCalled
  PROVE  InputData'
  <1>1. InputTypes /\ EosParts /\ BuffersChained /\ InputChained
    BY DEF InputData, CellsInOrder
  <1>2. /\ app = "pushes" /\ app' = "awaits"
        /\ input # <<>> /\ IsFlush(Head(input)) /\ input' = Tail(input)
        /\ UNCHANGED circPlaces /\ UNCHANGED <<slave, ScDetectionComplete, ScdStatus>>
        /\ UNCHANGED <<prog, workBuf, out, ring>>
        /\ PushEos(TRUE) \/ UNCHANGED <<fifo, eosMeta>>
    BY DEF FlushCalled, circPlaces, circVars, hwVars, scdVars, slaveVars
  <1>3. PICK s : s = input
    OBVIOUS
  <1>4. s \in Seq(Cell) /\ Chained(s) /\ Len(s) \in Nat /\ 1 \in 0 .. Len(s) /\ 1 \in 1 .. Len(s)
        /\ Head(s) = s[1]
    BY <1>1, <1>2, <1>3, InputType DEF InputChained
  <1>5. PICK t : t = SubSeq(s, 1 + 1, Len(s))
    OBVIOUS
  <1>6. /\ t \in Seq(Cell) /\ Chained(t)
        /\ t # <<>> => Head(t) = s[2] /\ Len(s) # 1
        /\ Len(t) = Len(s) - 1 /\ \A i \in 1 .. Len(s) - 1 : t[i] = s[i + 1]
    <2>1. /\ t \in Seq(Cell) /\ Chained(t) /\ Len(t) = Len(s) - 1 /\ Len(s) \in Nat
          /\ \A i \in 1 .. Len(s) - 1 : t[i] = s[i + 1]
          /\ (t = <<>> <=> 1 = Len(s))
          /\ t # <<>> => Head(t) = s[1 + 1]
      <3>1. Rest(s, 1, t)
        BY <1>4, <1>5, RestChained
      <3> QED BY <3>1 DEF Rest
    <2> QED BY <2>1
  <1>7. input' = t
    <2>1. /\ Tail(s) \in Seq(Cell) /\ Len(Tail(s)) = Len(s) - 1
          /\ \A i \in 1 .. Len(s) - 1 : Tail(s)[i] = s[i + 1]
      BY <1>4
    <2>2. /\ Len(t) = Len(s) - 1 /\ \A i \in 1 .. Len(s) - 1 : t[i] = s[i + 1]
      BY <1>6
    <2>3. Tail(s) = t
      BY <1>4, <1>6, <2>1, <2>2, SeqEqual
    <2> QED BY <1>2, <1>3, <2>3
  <1>8. \A c : IsFlush(c)' = IsFlush(c)
    BY <1>2 DEF IsFlush, Nut
  <1>9. ASSUME t # <<>>, ~IsFlush(Head(t)) PROVE \A c : Follows(c, Head(t))
    <2>1. 1 \in 1 .. Len(s) - 1
      <3>1. Len(s) # 1 /\ Len(s) \in Nat /\ Len(s) >= 1
        BY <1>4, <1>6, <1>9
      <3>2. PICK n : n = Len(s)
        OBVIOUS
      <3>3. n \in Nat /\ n # 1 /\ n >= 1
        BY <3>1, <3>2
      <3>4. 1 \in 1 .. n - 1
        BY <3>3
      <3> QED BY <3>2, <3>4
    <2>2. Follows(s[1], s[2])
      BY <1>4, <2>1 DEF Chained
    <2>3. s[2][1] # s[1][1]
      BY <1>2, <1>3, <1>4, <1>6, <1>9 DEF IsFlush
    <2> QED BY <1>6, <1>9, <2>2, <2>3 DEF Follows
  <1>10. InputChained'
    <2>1. IsFlush(Head(t))' = IsFlush(Head(t))
      BY <1>8
    <2>2. Head(input') = Head(t)
      BY <1>7
    <2>3. IsFlush(Head(input))' = IsFlush(Head(t))
      BY <1>2, <2>2 DEF IsFlush, Nut
    <2> QED BY <1>6, <1>7, <1>9, <2>3 DEF InputChained
  <1>11. BuffersChained' /\ EosParts' /\ fifo' \in Seq(Buffer)
         /\ eosMeta' \in [cells : Seq(Cell), last : BOOLEAN]
    <2>1. CASE PushEos(TRUE)
      BY <1>1, <1>2, <2>1, EosPushed
    <2>2. CASE UNCHANGED <<fifo, eosMeta>>
      <3>1. EosParts'
        BY <1>1, <1>2, <2>2 DEF EosParts, EosHalf, Joined
      <3>2. BuffersChained'
        BY <1>1, <1>2, <2>2 DEF BuffersChained, NextCell, BufMeta, LastHeld
      <3> QED BY <1>1, <2>2, <3>1, <3>2 DEF InputTypes
    <2> QED BY <1>2, <2>1, <2>2
  <1>12. InputTypes'
    BY <1>1, <1>2, <1>6, <1>7, <1>11 DEF InputTypes, circPlaces, circVars, tableVars
  <1> QED BY <1>2, <1>10, <1>11, <1>12, PendingOnly

LEMMA DestroyCalledStep ==
  ASSUME InputData, Places, [Next]_vars, DestroyCalled
  PROVE  InputData'
  <1>1. InputTypes /\ EosParts /\ BuffersChained /\ InputChained
    BY DEF InputData, CellsInOrder
  <1>2. /\ app' = "stops" /\ PushEos(FALSE) /\ input' = input
        /\ UNCHANGED circPlaces /\ UNCHANGED <<slave, ScDetectionComplete, ScdStatus>>
        /\ UNCHANGED <<prog, workBuf, out, ring>>
    BY DEF DestroyCalled, circPlaces, circVars, hwVars, scdVars, slaveVars
  <1>3. BuffersChained' /\ EosParts' /\ fifo' \in Seq(Buffer)
        /\ eosMeta' \in [cells : Seq(Cell), last : BOOLEAN]
    BY <1>1, <1>2, EosPushed
  <1>4. InputTypes'
    BY <1>1, <1>2, <1>3 DEF InputTypes, circPlaces, circVars, tableVars
  <1>5. InputChained'
    BY <1>1, <1>2 DEF InputChained
  <1> QED BY <1>2, <1>3, <1>4, <1>5, PendingOnly

LEMMA JoinedStep ==
  ASSUME InputData, Places, [Next]_vars, SlaveJoined
  PROVE  InputData'
  <1>1. InputTypes /\ EosParts /\ BuffersChained /\ InputChained
    BY DEF InputData, CellsInOrder
  <1>2. /\ app' = "detaches" /\ fifo' = <<>> /\ workBuf' = <<>> /\ input' = input
        /\ UNCHANGED circPlaces /\ UNCHANGED <<slave, ScDetectionComplete, ScdStatus>>
        /\ UNCHANGED <<prog, eosMeta, out, ring>>
    BY DEF SlaveJoined, circPlaces, circVars, hwVars, scdVars, slaveVars
  <1>3. BuffersChained'
    BY <1>2 DEF BuffersChained
  <1>4. EosParts'
    BY <1>1, <1>2 DEF EosParts, EosHalf, Joined
  <1>5. InputTypes'
    BY <1>1, <1>2 DEF InputTypes, circPlaces, circVars, tableVars
  <1>6. InputChained'
    BY <1>1, <1>2 DEF InputChained
  <1> QED BY <1>2, <1>3, <1>4, <1>5, <1>6, PendingOnly

---------------------------------------------------------------------------
(* Cells are copied *)

\* A turn of the circular buffer.
LEMMA ModTurn ==
  ASSUME NEW n \in Nat, n > 0, NEW m \in Int
  PROVE  (m + n) % n = m % n
  <1> DEFINE p == m \div n
             r == m % n
             q == (m + n) \div n
             s == (m + n) % n
  <1>1. m = n * p + r /\ p \in Int /\ r \in Int /\ 0 <= r /\ r < n
    BY SMT
  <1>2. m + n = n * q + s /\ q \in Int /\ s \in Int /\ 0 <= s /\ s < n
    <2> DEFINE k == m + n
    <2>1. k \in Int
      OBVIOUS
    <2>2. k = n * (k \div n) + (k % n) /\ k \div n \in Int /\ k % n \in Int
          /\ 0 <= k % n /\ k % n < n
      <3> HIDE DEF k
      <3> QED BY <2>1, SMT
    <2> QED BY <2>2
  <1> HIDE DEF p, r, q, s
  <1>3. CASE q >= p + 2
    <2>1. n * q >= n * (p + 2)
      BY <1>1, <1>2, <1>3
    <2>2. n * (p + 2) = n * p + n + n
      BY <1>1
    <2> QED BY <1>1, <1>2, <2>1, <2>2
  <1>4. CASE q <= p
    <2>1. n * q <= n * p
      BY <1>1, <1>2, <1>4
    <2> QED BY <1>1, <1>2, <2>1
  <1>5. CASE q = p + 1
    <2>1. n * q = n * p + n
      BY <1>1, <1>5
    <2>2. s = r
      BY <1>1, <1>2, <2>1
    <2> QED BY <2>2 DEF s, r
  <1> QED BY <1>1, <1>2, <1>3, <1>4, <1>5

\* The n cells copied behind the a cells that are held from x on.
LEMMA NewPlaces ==
  ASSUME NEW x \in Offset, NEW a \in Nat, NEW n \in Nat, a + n < Size, NEW q \in Offset
  PROVE  /\ Ahead(x + a, q) < n => /\ a <= Ahead(x, q) /\ Ahead(x, q) < a + n
                                   /\ Ahead(x + a, q) = Ahead(x, q) - a
         /\ a <= Ahead(x, q) => Ahead(x + a, q) = Ahead(x, q) - a
         /\ Ahead(x + a, q) \in Nat
  <1> DEFINE w == (x + a) % Size
             d == Ahead(x, q)
             e == Ahead(w, q)
  <1>1. a \in 0 .. Size /\ a < Size /\ x \in Nat /\ x < Size /\ q \in Nat /\ q < Size
    BY SizeIs DEF Offset
  <1>2. w \in Offset /\ Ahead(x, w) = a /\ w = IF x + a >= Size THEN x + a - Size ELSE x + a
    BY <1>1, Advanced
  <1>3. Ahead(x + a, q) = e
    <2>1. CASE x + a < Size
      <3>1. w = x + a
        BY <1>1, <1>2, <2>1, SizeIs
      <3> HIDE DEF w
      <3> QED BY <3>1
    <2>2. CASE x + a >= Size
      <3>1. w = x + a - Size
        BY <1>1, <1>2, <2>2, SizeIs
      <3> HIDE DEF w
      <3>2. q - w = q - (x + a) + Size
        BY <1>1, <3>1, SizeIs
      <3> DEFINE m == q - (x + a)
      <3>3. m \in Int /\ q - w = m + Size
        BY <1>1, <3>2, SizeIs
      <3>4. (m + Size) % Size = m % Size
        <4> HIDE DEF m
        <4>1. m \in Int /\ Size \in Nat /\ Size > 0
          BY <3>3, SizeIs
        <4> QED BY <4>1, ModTurn
      <3> QED BY <3>3, <3>4 DEF Ahead
    <2> QED BY <1>1, <2>1, <2>2, SizeIs
  <1>4. /\ d = (IF x <= q THEN q - x ELSE Size + q - x)
        /\ e = (IF w <= q THEN q - w ELSE Size + q - w)
    BY <1>2, AheadIs
  <1> HIDE DEF d, e, w
  <1>5. /\ e < n => a <= d /\ d < a + n /\ e = d - a
        /\ a <= d => e = d - a
        /\ e \in Nat
    BY <1>1, <1>2, <1>4, SizeIs
  <1> QED BY <1>3, <1>5 DEF d

NewPlace(x, a, n, q) ==
    /\ Ahead(x + a, q) < n => /\ a <= Ahead(x, q) /\ Ahead(x, q) < a + n
                              /\ Ahead(x + a, q) = Ahead(x, q) - a
    /\ a <= Ahead(x, q) => Ahead(x + a, q) = Ahead(x, q) - a
    /\ Ahead(x + a, q) \in Nat

LEMMA NewPlaceIs ==
  ASSUME NEW x \in Offset, NEW a \in Nat, NEW n \in Nat, a + n < Size, NEW q \in Offset
  PROVE  NewPlace(x, a, n, q)
  BY NewPlaces DEF NewPlace

\* The last of a cells.
LEMMA LastPlace ==
  ASSUME NEW x \in Nat, NEW a \in Nat, a < Size, NEW d \in Nat, d + 1 = a
  PROVE  a - 1 \in 0 .. Size /\ a - 1 < Size /\ x + a - 1 = x + (a - 1) /\ a - 1 = d
  BY SizeIs

LEMMA NotMore ==
  ASSUME NEW w \in Nat, NEW a \in Nat, NEW n \in Nat, w <= a, a + n < Size
  PROVE  w + n \in Nat /\ w + n < Size
  BY SizeIs

\* The cell behind a copied one.
LEMMA NextCopied ==
  ASSUME NEW d \in Nat, NEW a \in Nat, NEW n \in Nat, NEW m \in Nat,
         n <= m, d + 1 < a + n, d + 1 > a
  PROVE  LET i == d + 1 - a
         IN  /\ i \in 1 .. n /\ i + 1 \in 1 .. n /\ d + 1 = a + i /\ (d + 1) + 1 = a + (i + 1)
             /\ i \in 1 .. m - 1
  OBVIOUS

CopiedTo(x, a, cells, n) ==
    ring' = [p \in 0 .. Size - 1 |-> LET i == Ahead(x + a, p)
                                    IN  IF i < n THEN cells[i + 1] ELSE ring[p]]

\* n cells are copied behind those that are still held: the chain goes on, and
\* the last cell is the one copied last.
Copies(x, c, a, cells, n) ==
    /\ x = iCurOffset /\ c = At(x) /\ a = out.avail - c
    /\ cells \in Seq(Cell) /\ Chained(cells) /\ n \in Nat /\ n <= Len(cells) /\ a + n < Size
    /\ n > 0 /\ out.avail > 0 => Follows(ring[LastHeld], cells[1])
    /\ out'.off = x /\ out'.avail = a + n
    /\ view' = [off |-> view.off, avail |-> view.avail + n, last |-> view.last]
    /\ CopiedTo(x, a, cells, n)

FramesStay ==
    UNCHANGED <<table, iCurOffset, iCurNalStreamOffset, iStreamOffset, iNumFrmBlk2, inflight>>

\* The last cell that is held after n of the cells have been copied.
EndsWith(a, cells, n) ==
    /\ n > 0 => ring'[LastHeld'] = cells[n]
    /\ n = 0 /\ a > 0 => out.avail > 0 /\ ring'[LastHeld'] = ring[LastHeld]

\* The cells copied are a chain behind those held.
LEMMA Copied ==
  ASSUME InputTypes, OffsetsInOrder, FramesKept, RingChained, TableRead, FrameTokens,
         NEW x, NEW c, NEW a, NEW cells, NEW n, Copies(x, c, a, cells, n), FramesStay
  PROVE  /\ OffsetsInOrder' /\ FramesKept' /\ TableRead' /\ RingChained'
         /\ ring' \in [Offset -> Cell] /\ a \in Nat /\ a + n \in Offset /\ view' \in Circ
         /\ EndsWith(a, cells, n)
         /\ n = 0 => ring' = ring
  <1> SUFFICES
        ASSUME x = iCurOffset, c = At(x), a = out.avail - c,
               cells \in Seq(Cell), Chained(cells), n \in Nat, n <= Len(cells), a + n < Size,
               n > 0 /\ out.avail > 0 => Follows(ring[LastHeld], cells[1]),
               out'.off = x, out'.avail = a + n,
               view' = [off |-> view.off, avail |-> view.avail + n, last |-> view.last],
               CopiedTo(x, a, cells, n),
               UNCHANGED <<table, iCurOffset, iCurNalStreamOffset, iStreamOffset, iNumFrmBlk2,
                           inflight>>
        PROVE  /\ OffsetsInOrder' /\ FramesKept' /\ TableRead' /\ RingChained'
               /\ ring' \in [Offset -> Cell] /\ a \in Nat /\ a + n \in Offset /\ view' \in Circ
               /\ n > 0 => ring'[LastHeld'] = cells[n]
               /\ n = 0 /\ a > 0 => out.avail > 0 /\ ring'[LastHeld'] = ring[LastHeld]
               /\ n = 0 => ring' = ring
    BY DEF Copies, FramesStay, EndsWith
  <1>1. /\ x \in Offset /\ c \in Nat /\ c <= out.avail /\ out.avail \in Nat /\ out.avail < Size
        /\ view.avail \in Nat /\ view \in Circ /\ ring \in [Offset -> Cell]
    <2>1. /\ x \in Offset /\ c \in Nat /\ out.avail \in Nat /\ out.avail < Size
          /\ view.avail \in Nat /\ view \in Circ /\ ring \in [Offset -> Cell]
      BY PlaceTypes, AtType DEF InputTypes
    <2>2. /\ At(iCurOffset) <= At(iCurNalStreamOffset)
          /\ At(iCurNalStreamOffset) <= At(view.off)
          /\ At(view.off) + view.avail = out.avail /\ At(iCurOffset) = c
          /\ At(iCurNalStreamOffset) \in Nat /\ At(view.off) \in Nat
      BY PlaceTypes DEF OffsetsInOrder
    <2>3. c <= out.avail
      BY <2>1, <2>2
    <2> QED BY <2>1, <2>3
  <1>2. a \in Nat /\ a + n \in Offset /\ a <= out.avail /\ Len(cells) \in Nat
    <2>1. a \in Nat /\ a <= out.avail
      BY <1>1
    <2> QED BY <2>1, SizeIs DEF Offset
  <1>12. x \in Nat /\ x < Size /\ a + n < Size /\ a < Size
    BY <1>1, <1>2, SizeIs DEF Offset
  <1>3. ASSUME NEW q \in Offset
        PROVE  /\ Ahead(x, q) \in Nat /\ At(q)' = Ahead(x, q)
               /\ Ahead(x, q) < a => ring'[q] = ring[q]
               /\ \A i \in 1 .. n : Ahead(x, q) + 1 = a + i => ring'[q] = cells[i]
    <2>6. /\ Ahead(x + a, q) < n => /\ a <= Ahead(x, q) /\ Ahead(x, q) < a + n
                                    /\ Ahead(x + a, q) = Ahead(x, q) - a
          /\ a <= Ahead(x, q) => Ahead(x + a, q) = Ahead(x, q) - a
          /\ Ahead(x + a, q) \in Nat
      <3>1. x \in Offset /\ a \in Nat /\ n \in Nat /\ a + n < Size
        BY <1>1, <1>2
      <3>2. NewPlace(x, a, n, q)
        BY <3>1, NewPlaceIs
      <3> QED BY <3>2 DEF NewPlace
    <2> DEFINE e == Ahead(x + a, q)
               d == Ahead(x, q)
    <2>1. /\ e < n => a <= d /\ d < a + n /\ e = d - a
          /\ a <= d => e = d - a
          /\ e \in Nat /\ d \in Nat
      <3>1. d \in Nat
        BY <1>1, Nearer
      <3> QED BY <2>6, <3>1
    <2>2. ring'[q] = IF e < n THEN cells[e + 1] ELSE ring[q]
      BY DEF Offset, CopiedTo
    <2>3. At(q)' = d
      BY DEF At
    <2> HIDE DEF e, d
    <2>4. d < a => ~(e < n)
      BY <1>2, <2>1
    <2>5. ASSUME NEW i \in 1 .. n, d + 1 = a + i PROVE e < n /\ e + 1 = i
      BY <1>2, <2>1, <2>5
    <2> QED BY <2>1, <2>2, <2>3, <2>4, <2>5 DEF d
  <1>4. /\ OffsetsInOrder' /\ FramesKept' /\ TableRead'
        /\ \A q \in Offset : Ahead(x, q) + 1 < a => Follows(ring[q], ring[(q + 1) % Size])
        /\ a > 0 => out.avail > 0 /\ (x + a - 1) % Size = LastHeld
    <2>1. /\ out'.avail = out.avail - c + n
          /\ view'.off = view.off /\ view'.avail = view.avail + n
          /\ \A q \in Offset : Ahead(x, q) < out.avail - c => ring'[q] = ring[q]
      BY <1>1, <1>3 DEF Circ
    <2>2. /\ iCurOffset' \in Offset /\ c <= At(iCurOffset')
          /\ At(iCurOffset') <= At(iCurNalStreamOffset)
      BY <1>1 DEF OffsetsInOrder
    <2> QED BY <1>1, <2>1, <2>2, Moved
  <1>5. ring' \in [Offset -> Cell]
    <2>1. ASSUME NEW p \in 0 .. Size - 1
          PROVE  (IF Ahead(x + a, p) < n THEN cells[Ahead(x + a, p) + 1] ELSE ring[p]) \in Cell
      <3>1. Ahead(x + a, p) \in Nat
        BY <1>1, <1>2, NewPlaces DEF Offset
      <3>2. ASSUME Ahead(x + a, p) < n PROVE Ahead(x + a, p) + 1 \in 1 .. Len(cells)
        <4> DEFINE e == Ahead(x + a, p)
        <4>1. e < n /\ e \in Nat
          BY <3>1, <3>2
        <4> HIDE DEF e
        <4> QED BY <1>2, <4>1 DEF e
      <3>3. \A i \in 1 .. Len(cells) : cells[i] \in Cell
        BY ElementOfSeq
      <3>4. ring[p] \in Cell
        BY <1>1 DEF Offset
      <3> QED BY <3>2, <3>3, <3>4
    <2> QED BY <2>1 DEF Offset, CopiedTo
  <1>6. view' \in Circ
    <2>1. view'.avail = view.avail + n /\ view'.off = view.off /\ view'.last = view.last
          /\ view' = [off |-> view'.off, avail |-> view'.avail, last |-> view'.last]
      BY <1>1 DEF Circ
    <2>2. view.avail + n \in Offset
      <3>1. view.avail <= a
        <4>1. /\ c <= At(view.off) /\ At(view.off) + view.avail = out.avail
              /\ At(view.off) \in Nat
          <5>1. /\ At(iCurOffset) <= At(iCurNalStreamOffset)
                /\ At(iCurNalStreamOffset) <= At(view.off)
                /\ At(view.off) + view.avail = out.avail /\ At(iCurOffset) = c
                /\ At(iCurNalStreamOffset) \in Nat /\ At(view.off) \in Nat
            BY PlaceTypes DEF OffsetsInOrder
          <5> QED BY <1>1, <5>1
        <4> QED BY <1>1, <4>1
      <3>2. view.avail + n \in Nat /\ view.avail + n < Size
        <4>1. view.avail \in Nat /\ a \in Nat /\ n \in Nat /\ a + n < Size
          BY <1>1, <1>2, <1>12
        <4> QED BY <3>1, <4>1, NotMore
      <3> QED BY <3>2, SizeIs DEF Offset
    <2> QED BY <1>1, <2>1, <2>2 DEF Circ
  <1>7. ASSUME a + n > 0
        PROVE  LastHeld' \in Offset /\ Ahead(x, LastHeld') + 1 = a + n
    <2> DEFINE m == a + n - 1
    <2>1. m \in 0 .. Size /\ m < Size /\ x + (a + n) - 1 = x + m /\ m + 1 = a + n
      BY <1>2, <1>7, <1>12, SizeIs
    <2>2. LastHeld' = (x + m) % Size
      <3> HIDE DEF m
      <3>1. LastHeld' = (x + (a + n) - 1) % Size
        BY DEF LastHeld
      <3> QED BY <2>1, <3>1
    <2> HIDE DEF m
    <2>3. (x + m) % Size \in Offset /\ Ahead(x, (x + m) % Size) = m
      BY <1>1, <2>1, Advanced
    <2> QED BY <2>1, <2>2, <2>3
  <1>8. n > 0 => ring'[LastHeld'] = cells[n]
    <2>1. PICK y : y = LastHeld'
      OBVIOUS
    <2>2. ASSUME n > 0 PROVE y \in Offset /\ Ahead(x, y) + 1 = a + n /\ n \in 1 .. n
      BY <1>2, <1>7, <2>1, <2>2
    <2>3. ASSUME n > 0 PROVE ring'[y] = cells[n]
      BY <1>3, <2>2, <2>3
    <2> QED BY <2>1, <2>3
  <1>9. ASSUME n = 0, a > 0 PROVE out.avail > 0 /\ ring'[LastHeld'] = ring[LastHeld]
    <2>1. PICK y : y = LastHeld'
      OBVIOUS
    <2>2. y \in Offset /\ Ahead(x, y) + 1 = a
      BY <1>2, <1>7, <1>9, <2>1
    <2>3. ring'[y] = ring[y]
      <3>1. Ahead(x, y) < a
        BY <1>2, <1>3, <2>2
      <3> QED BY <1>3, <2>2, <3>1
    <2>4. y = LastHeld
      <3>1. LastHeld' = (x + (a + n) - 1) % Size
        BY DEF LastHeld
      <3>2. a + n = a
        BY <1>2, <1>9
      <3> QED BY <1>4, <1>9, <2>1, <3>1, <3>2
    <2> QED BY <1>4, <1>9, <2>1, <2>3, <2>4
  <1>10. n = 0 => ring' = ring
    <2>1. ASSUME n = 0, NEW q \in Offset PROVE ring'[q] = ring[q]
      <3>1. Ahead(x + a, q) \in Nat
        BY <1>1, <1>2, NewPlaces
      <3>2. ~(Ahead(x + a, q) < n)
        BY <2>1, <3>1
      <3> QED BY <3>2 DEF Offset, CopiedTo
    <2> QED BY <1>1, <1>5, <2>1
  <1>11. RingChained'
    <2> SUFFICES ASSUME NEW q \in Offset, Ahead(x, q) + 1 < a + n
                 PROVE  Follows(ring'[q], ring'[(q + 1) % Size])
      BY <1>3 DEF RingChained
    <2> DEFINE d == Ahead(x, q)
    <2>1. PICK y : y = (q + 1) % Size
      OBVIOUS
    <2>2. d \in Nat /\ d + 1 < a + n /\ y \in Offset /\ Ahead(x, y) = d + 1
      <3>1. Ahead(x, q) + 1 < Size
        BY <1>2, <1>3, <1>12, SizeIs
      <3> QED BY <1>1, <1>3, <2>1, <3>1, AheadFrom
    <2> HIDE DEF d
    <2>3. CASE d + 1 < a
      <3>1. d < a
        BY <1>2, <2>2, <2>3
      <3>2. ring'[q] = ring[q] /\ ring'[y] = ring[y]
        BY <1>3, <2>2, <2>3, <3>1 DEF d
      <3> QED BY <1>4, <2>1, <2>3, <3>2 DEF d
    <2>4. CASE d + 1 = a
      <3>1. d < a /\ n > 0 /\ a > 0 /\ 1 \in 1 .. n /\ (d + 1) + 1 = a + 1
        BY <1>2, <2>2, <2>4
      <3>2. ring'[q] = ring[q] /\ ring'[y] = cells[1]
        BY <1>3, <2>2, <3>1 DEF d
      <3>3. q = LastHeld
        <4> DEFINE m == a - 1
        <4>1. m \in 0 .. Size /\ m < Size /\ x + a - 1 = x + m /\ m = d
          <5>1. x \in Nat /\ a \in Nat /\ a < Size /\ d \in Nat /\ d + 1 = a
            BY <1>2, <1>12, <2>2, <2>4
          <5> QED BY <5>1, LastPlace
        <4>2. LastHeld = (x + m) % Size
          <5> HIDE DEF m
          <5> QED BY <1>4, <3>1, <4>1
        <4> HIDE DEF m
        <4>3. (x + m) % Size \in Offset /\ Ahead(x, (x + m) % Size) = m
          BY <1>1, <4>1, Advanced
        <4> QED BY <1>1, <4>1, <4>2, <4>3, AheadTells DEF d
      <3> QED BY <1>4, <2>1, <3>1, <3>2, <3>3
    <2>5. CASE d + 1 > a
      <3> DEFINE i == d + 1 - a
      <3>1. i \in 1 .. n /\ i + 1 \in 1 .. n /\ d + 1 = a + i /\ (d + 1) + 1 = a + (i + 1)
            /\ i \in 1 .. Len(cells) - 1
        <4>1. d \in Nat /\ Len(cells) \in Nat /\ n <= Len(cells) /\ d + 1 < a + n
          BY <1>2, <2>2
        <4>2. a \in Nat /\ n \in Nat /\ d + 1 > a
          BY <1>2, <2>5
        <4> QED BY <4>1, <4>2, NextCopied
      <3> HIDE DEF i
      <3>2. ring'[q] = cells[i] /\ ring'[y] = cells[i + 1]
        BY <1>3, <2>2, <3>1 DEF d
      <3> QED BY <2>1, <3>1, <3>2 DEF Chained
    <2> QED BY <1>2, <2>2, <2>3, <2>4, <2>5
  <1> QED BY <1>2, <1>4, <1>5, <1>6, <1>8, <1>9, <1>10, <1>11

---------------------------------------------------------------------------
(* The buffer that is copied *)

\* What is left of the buffer b that is copied, f being those behind it.
Taken(b, f, cells) ==
    /\ b \in Buffer /\ f \in Seq(Buffer) /\ Filled(b)
    /\ cells \in Seq(Cell) /\ cells # <<>> /\ Chained(cells)
    /\ cells[Len(cells)] = LastCell(b)
    /\ IsEos(b) => cells \in {EosCells, <<EosCells[2]>>}
    /\ ~IsEos(b) => cells = b.cells /\ ~EosHalf
    /\ out.avail > 0 => Follows(ring[LastHeld], cells[1])
    /\ \A k \in DOMAIN f : /\ Filled(f[k])
                           /\ k > 1 => Follows(LastCell(f[k - 1]), FirstCell(f[k]))
    /\ f # <<>> => Follows(LastCell(b), FirstCell(f[1]))
    /\ app \in {"pushes", "awaits"} /\ input # <<>> /\ ~IsFlush(Head(input)) =>
          /\ f # <<>> => Follows(LastCell(f[Len(f)]), Head(input))
          /\ f = <<>> => Follows(LastCell(b), Head(input))

\* What BufMeta tells of a buffer.
LEMMA MetaOf ==
  ASSUME EosParts, NEW b \in Buffer, Filled(b)
  PROVE  /\ BufMeta(b).cells \in Seq(Cell) /\ BufMeta(b).cells # <<>> /\ Chained(BufMeta(b).cells)
         /\ BufMeta(b).cells[Len(BufMeta(b).cells)] = LastCell(b)
         /\ IsEos(b) => BufMeta(b).cells \in {EosCells, <<EosCells[2]>>}
         /\ ~IsEos(b) => BufMeta(b).cells = b.cells /\ BufMeta(b).last = FALSE
         /\ IsEos(b) => BufMeta(b).last \in {FALSE, eosMeta.last}
         /\ ~EosHalf => BufMeta(b).cells[1] = FirstCell(b)
  <1>1. CASE ~IsEos(b)
    <2>1. BufMeta(b).cells = b.cells /\ BufMeta(b).last = FALSE
      BY <1>1 DEF BufMeta
    <2>2. b.cells \in Seq(Cell)
      BY DEF Buffer
    <2> QED BY <1>1, <2>1, <2>2 DEF Filled, LastCell, FirstCell
  <1>2. CASE IsEos(b) /\ eosMeta = NoMeta
    <2>1. BufMeta(b).cells = EosCells /\ BufMeta(b).last = FALSE
      BY <1>2 DEF BufMeta
    <2>2. Chained(EosCells)
      BY EosCellsAre DEF Chained, Follows
    <2> QED BY <1>2, <2>1, <2>2, EosCellsAre DEF LastCell, FirstCell
  <1>3. CASE IsEos(b) /\ eosMeta # NoMeta
    <2>1. BufMeta(b) = eosMeta
      BY <1>3 DEF BufMeta
    <2>2. eosMeta.cells \in {EosCells, <<EosCells[2]>>}
      BY <1>3 DEF EosParts
    <2>3. Chained(EosCells)
      BY EosCellsAre DEF Chained, Follows
    <2>4. Chained(<<EosCells[2]>>)
      BY EosCellsAre DEF Chained
    <2> QED BY <1>3, <2>1, <2>2, <2>3, <2>4, EosCellsAre DEF LastCell, FirstCell, EosHalf
  <1> QED BY <1>1, <1>2, <1>3

\* The buffer copied goes on where the circular buffer ends.
LEMMA WorkTaken ==
  ASSUME InputTypes, EosParts, BuffersChained, InputChained, app \notin Joined, NEW b, NEW f,
         \/ workBuf # <<>> /\ b = workBuf[1] /\ f = fifo
         \/ workBuf = <<>> /\ fifo # <<>> /\ b = fifo[1] /\ f = Tail(fifo)
  PROVE  Taken(b, f, BufMeta(b).cells) /\ BufMeta(b).last \in BOOLEAN
  <1>1. /\ fifo \in Seq(Buffer) /\ Len(fifo) \in Nat /\ DOMAIN fifo = 1 .. Len(fifo)
        /\ workBuf \in Seq(Buffer) /\ (fifo = <<>> <=> Len(fifo) = 0)
        /\ eosMeta.last \in BOOLEAN
    BY InputType, LenProperties DEF InputTypes
  <1>2. /\ \A k \in 1 .. Len(fifo) :
              /\ Filled(fifo[k])
              /\ k > 1 => Follows(LastCell(fifo[k - 1]), FirstCell(fifo[k]))
        /\ workBuf # <<>> =>
              /\ Filled(workBuf[1])
              /\ fifo # <<>> => Follows(LastCell(workBuf[1]), FirstCell(fifo[1]))
        /\ out.avail > 0 /\ (workBuf # <<>> \/ fifo # <<>>) => Follows(ring[LastHeld], NextCell)
    BY <1>1 DEF BuffersChained
  <1>3. app \in {"pushes", "awaits"} /\ input # <<>> /\ ~IsFlush(Head(input)) =>
          /\ fifo # <<>> => Follows(LastCell(fifo[Len(fifo)]), Head(input))
          /\ fifo = <<>> /\ workBuf # <<>> => Follows(LastCell(workBuf[1]), Head(input))
    BY DEF InputChained
  <1>4. CASE workBuf # <<>> /\ b = workBuf[1] /\ f = fifo
    <2>1. b \in Buffer /\ Filled(b)
      <3>1. Len(workBuf) \in Nat /\ Len(workBuf) # 0
        BY <1>1, <1>4, EmptySeq
      <3>2. PICK m : m = Len(workBuf)
        OBVIOUS
      <3>3. 1 \in 1 .. m
        BY <3>1, <3>2
      <3>4. workBuf[1] \in Buffer
        BY <1>1, <3>2, <3>3, ElementOfSeq
      <3> QED BY <1>2, <1>4, <3>4
    <2>2. NextCell = BufMeta(b).cells[1]
      BY <1>4 DEF NextCell
    <2>3. ~IsEos(b) => ~EosHalf
      BY <1>4 DEF EosParts
    <2> QED BY <1>1, <1>2, <1>3, <1>4, <2>1, <2>2, <2>3, MetaOf DEF Taken
  <1>5. CASE workBuf = <<>> /\ fifo # <<>> /\ b = fifo[1] /\ f = Tail(fifo)
    <2>1. 1 \in 1 .. Len(fifo) /\ Len(fifo) - 1 \in Nat
      BY <1>1, <1>5
    <2>2. b \in Buffer /\ Filled(b)
      BY <1>1, <1>2, <1>5, <2>1, ElementOfSeq
    <2>3. ~EosHalf
      BY <1>5 DEF EosParts
    <2>4. NextCell = BufMeta(b).cells[1]
      BY <1>5, <2>2, <2>3, MetaOf DEF NextCell
    <2>5. /\ f \in Seq(Buffer) /\ Len(f) = Len(fifo) - 1 /\ DOMAIN f = 1 .. Len(fifo) - 1
          /\ \A k \in 1 .. Len(fifo) - 1 : f[k] = fifo[k + 1]
          /\ (f = <<>> <=> Len(fifo) - 1 = 0)
      <3>1. /\ f \in Seq(Buffer) /\ Len(f) = Len(fifo) - 1
            /\ \A k \in 1 .. Len(fifo) - 1 : f[k] = fifo[k + 1]
        BY <1>1, <1>5
      <3> QED BY <3>1, EmptySeq, LenProperties
    <2>6. ASSUME NEW k \in 1 .. Len(fifo) - 1
          PROVE  Filled(f[k]) /\ (k > 1 => Follows(LastCell(f[k - 1]), FirstCell(f[k])))
      <3>1. k + 1 \in 1 .. Len(fifo) /\ k + 1 > 1 /\ (k + 1) - 1 = k
            /\ (k > 1 => k - 1 \in 1 .. Len(fifo) - 1 /\ (k - 1) + 1 = k)
        BY <1>1
      <3>2. Filled(fifo[k + 1]) /\ Follows(LastCell(fifo[k]), FirstCell(fifo[k + 1]))
        BY <1>2, <3>1
      <3>3. f[k] = fifo[k + 1] /\ (k > 1 => f[k - 1] = fifo[k])
        BY <2>5, <3>1
      <3> QED BY <3>2, <3>3
    <2>7. f # <<>> => /\ Follows(LastCell(b), FirstCell(f[1]))
                      /\ f[Len(f)] = fifo[Len(fifo)]
      <3>1. ASSUME f # <<>>
            PROVE  /\ 2 \in 1 .. Len(fifo) /\ 2 - 1 = 1 /\ 1 \in 1 .. Len(fifo) - 1 /\ 1 + 1 = 2
                   /\ Len(fifo) - 1 \in 1 .. Len(fifo) - 1 /\ (Len(fifo) - 1) + 1 = Len(fifo)
        <4>1. Len(fifo) - 1 # 0
          BY <2>5, <3>1
        <4> QED BY <1>1, <2>1, <4>1
      <3>2. f # <<>> => Follows(LastCell(fifo[1]), FirstCell(fifo[2]))
        BY <1>2, <3>1
      <3> QED BY <1>5, <2>5, <3>1, <3>2
    <2>8. f = <<>> => fifo[Len(fifo)] = b
      <3>0. PICK m : m = Len(fifo)
        OBVIOUS
      <3>1. f = <<>> => Len(fifo) = 1
        <4>1. m \in Nat /\ (f = <<>> <=> m - 1 = 0)
          BY <1>1, <2>5, <3>0
        <4> QED BY <3>0, <4>1
      <3> QED BY <1>5, <3>1
    <2> QED BY <1>1, <1>2, <1>3, <1>5, <2>2, <2>3, <2>4, <2>5, <2>6, <2>7, <2>8, MetaOf DEF Taken
  <1> QED BY <1>4, <1>5

\* What is left to copy, when none of the buffer is.
LEMMA PlacesLeft ==
  ASSUME NEW n \in Nat, NEW m \in Nat, n < m
  PROVE  /\ 1 \in 1 .. m - n /\ 1 + n = n + 1
         /\ m - n \in 1 .. m - n /\ m - n + n = m
         /\ n > 0 => n \in 1 .. m - 1
  OBVIOUS

\* n cells of the buffer are copied.
Leaves(b, f, cells, n, rest, l, left) ==
    /\ Taken(b, f, cells) /\ n \in Nat /\ n <= Len(cells)
    /\ rest = SubSeq(cells, n + 1, Len(cells)) /\ l \in BOOLEAN
    /\ left = [id |-> b.id, cells |-> IF IsEos(b) THEN <<>> ELSE rest]
    /\ fifo' = f /\ workBuf' = IF rest = <<>> THEN <<>> ELSE <<left>>
    /\ eosMeta' = IF ~IsEos(b) THEN eosMeta
                  ELSE IF rest = <<>> THEN NoMeta ELSE [cells |-> rest, last |-> l]

\* What is left of it goes on where its copied cells end.
LEMMA WorkLeft ==
  ASSUME InputTypes, EosParts, InputChained, app \notin Joined,
         NEW b, NEW f, NEW cells, NEW n, NEW rest, NEW l, NEW left,
         Leaves(b, f, cells, n, rest, l, left), EndsWith(out'.avail, cells, n),
         UNCHANGED <<app, input, prog>>
  PROVE  /\ EosParts' /\ BuffersChained' /\ InputChained'
         /\ fifo' \in Seq(Buffer) /\ workBuf' \in Seq(Buffer)
         /\ eosMeta' \in [cells : Seq(Cell), last : BOOLEAN]
  <1> SUFFICES
        ASSUME Taken(b, f, cells), n \in Nat, n <= Len(cells),
               rest = SubSeq(cells, n + 1, Len(cells)), l \in BOOLEAN,
               left = [id |-> b.id, cells |-> IF IsEos(b) THEN <<>> ELSE rest],
               fifo' = f, workBuf' = IF rest = <<>> THEN <<>> ELSE <<left>>,
               eosMeta' = IF ~IsEos(b) THEN eosMeta
                          ELSE IF rest = <<>> THEN NoMeta ELSE [cells |-> rest, last |-> l],
               Chained(input),
               n > 0 => ring'[LastHeld'] = cells[n],
               n = 0 /\ out'.avail > 0 => out.avail > 0 /\ ring'[LastHeld'] = ring[LastHeld]
        PROVE  /\ EosParts' /\ BuffersChained' /\ InputChained'
               /\ fifo' \in Seq(Buffer) /\ workBuf' \in Seq(Buffer)
               /\ eosMeta' \in [cells : Seq(Cell), last : BOOLEAN]
    BY DEF Leaves, EndsWith, InputChained
  <1>1. /\ b \in Buffer /\ f \in Seq(Buffer) /\ Filled(b)
        /\ cells \in Seq(Cell) /\ cells # <<>> /\ Chained(cells)
        /\ cells[Len(cells)] = LastCell(b)
        /\ IsEos(b) => cells \in {EosCells, <<EosCells[2]>>}
        /\ ~IsEos(b) => cells = b.cells /\ ~EosHalf
        /\ out.avail > 0 => Follows(ring[LastHeld], cells[1])
        /\ f # <<>> => Follows(LastCell(b), FirstCell(f[1]))
        /\ Len(cells) \in Nat /\ Len(cells) # 0
    BY EmptySeq DEF Taken
  <1>2. /\ rest \in Seq(Cell) /\ Chained(rest) /\ Len(rest) = Len(cells) - n
        /\ \A i \in 1 .. Len(cells) - n : rest[i] = cells[i + n]
        /\ (rest = <<>> <=> n = Len(cells))
    <2>1. Rest(cells, n, SubSeq(cells, n + 1, Len(cells)))
      BY <1>1, RestChained
    <2> QED BY <2>1 DEF Rest
  <1>3. rest = <<>> => ring'[LastHeld'] = LastCell(b)
    <2>1. rest = <<>> => n = Len(cells) /\ n > 0
      BY <1>1, <1>2
    <2> QED BY <1>1, <2>1
  <1>4. rest # <<>> => /\ rest[1] = cells[n + 1] /\ rest[Len(rest)] = LastCell(b)
                       /\ n > 0 => Follows(cells[n], cells[n + 1])
    <2>1. ASSUME rest # <<>>
          PROVE  /\ 1 \in 1 .. Len(cells) - n /\ 1 + n = n + 1
                 /\ Len(rest) \in 1 .. Len(cells) - n /\ Len(rest) + n = Len(cells)
                 /\ n > 0 => n \in 1 .. Len(cells) - 1
      <3>1. n # Len(cells)
        BY <1>2, <2>1
      <3>2. PICK m : m = Len(cells)
        OBVIOUS
      <3>3. m \in Nat /\ n < m /\ Len(rest) = m - n
        BY <1>1, <1>2, <3>1, <3>2
      <3>4. /\ 1 \in 1 .. m - n /\ 1 + n = n + 1
            /\ m - n \in 1 .. m - n /\ m - n + n = m
            /\ n > 0 => n \in 1 .. m - 1
        BY <3>3, PlacesLeft
      <3> QED BY <3>2, <3>3, <3>4
    <2> QED BY <1>1, <1>2, <2>1 DEF Chained
  <1>5. /\ left \in Buffer /\ (IsEos(left) <=> IsEos(b))
        /\ rest # <<>> => Filled(left) /\ LastCell(left) = LastCell(b)
    <2>1. left.id = b.id /\ left.cells = IF IsEos(b) THEN <<>> ELSE rest
      OBVIOUS
    <2>2. left \in Buffer
      <3>1. <<>> \in Seq(Cell)
        OBVIOUS
      <3> QED BY <1>1, <1>2, <3>1 DEF Buffer
    <2>3. IsEos(left) <=> IsEos(b)
      BY <2>1 DEF IsEos
    <2> QED BY <1>2, <1>4, <2>1, <2>2, <2>3 DEF Filled, LastCell
  <1>6. ASSUME rest # <<>> PROVE BufMeta(left)'.cells = rest
    <2>1. CASE ~IsEos(b)
      <3>1. ~IsEos(left) /\ left.cells = rest
        BY <1>5, <2>1
      <3> QED BY <3>1 DEF BufMeta, IsEos
    <2>2. CASE IsEos(b)
      <3>1. eosMeta'.cells = rest /\ NoMeta.cells = <<>>
        BY <1>6, <2>2 DEF NoMeta
      <3>2. eosMeta' # NoMeta
        BY <1>6, <3>1
      <3>3. IsEos(left)
        BY <1>5, <2>2
      <3> QED BY <3>1, <3>2, <3>3 DEF BufMeta, IsEos
    <2> QED BY <2>1, <2>2
  <1>7. EosParts'
    <2>1. CASE ~IsEos(b)
      <3>1. eosMeta' = eosMeta /\ ~EosHalf
        BY <1>1, <2>1
      <3> QED BY <3>1 DEF EosParts, EosHalf
    <2>2. CASE IsEos(b) /\ rest = <<>>
      <3>1. eosMeta' = NoMeta /\ eosMeta'.cells = <<>>
        BY <2>2 DEF NoMeta
      <3> QED BY <3>1, EosCellsAre DEF EosParts, EosHalf
    <2>3. CASE IsEos(b) /\ rest # <<>>
      <3>1. eosMeta'.cells = rest
        BY <2>3
      <3>2. rest \in {EosCells, <<EosCells[2]>>}
        <4>1. CASE n = 0
          <5>1. /\ Len(rest) = Len(cells) /\ \A i \in 1 .. Len(cells) : rest[i] = cells[i]
            <6>1. PICK m : m = Len(cells)
              OBVIOUS
            <6>2. m \in Nat /\ m - n = m /\ \A i \in 1 .. m : i + n = i
              BY <1>1, <4>1, <6>1
            <6> QED BY <1>2, <6>1, <6>2
          <5>2. rest \in Seq(Cell) /\ cells \in Seq(Cell)
            BY <1>1, <1>2
          <5>3. rest = cells
            BY <5>1, <5>2, SeqEqual
          <5> QED BY <1>1, <2>3, <5>3
        <4>2. CASE n > 0
          <5>1. n # Len(cells)
            BY <1>2, <2>3
          <5>2. cells = EosCells /\ n = 1
            <6>1. PICK m : m = Len(cells)
              OBVIOUS
            <6>2. m \in Nat /\ m > 1 /\ n < m
              BY <1>1, <4>2, <5>1, <6>1
            <6>3. cells = EosCells
              BY <1>1, <2>3, <6>1, <6>2, EosCellsAre
            <6>4. m = 2
              BY <6>1, <6>3, EosCellsAre
            <6> QED BY <4>2, <6>2, <6>3, <6>4
          <5>3. Len(rest) = 1 /\ rest[1] = EosCells[2]
            BY <1>2, <1>4, <2>3, <5>2, EosCellsAre
          <5>4. rest = <<EosCells[2]>>
            <6>1. PICK t : t = <<EosCells[2]>>
              OBVIOUS
            <6>2. t \in Seq(Cell) /\ Len(t) = 1 /\ t[1] = EosCells[2]
              BY <6>1, EosCellsAre
            <6>3. \A i \in 1 .. Len(t) : rest[i] = t[i]
              BY <5>3, <6>2
            <6>4. rest = t
              BY <1>2, <5>3, <6>2, <6>3, SeqEqual
            <6> QED BY <6>1, <6>4
          <5> QED BY <5>4
        <4> QED BY <4>1, <4>2
      <3>3. workBuf' # <<>> /\ IsEos(workBuf'[1])
        BY <1>5, <2>3
      <3> QED BY <2>3, <3>1, <3>2, <3>3 DEF EosParts, EosHalf, IsEos
    <2> QED BY <2>1, <2>2, <2>3
  <1>8. workBuf' = <<>> <=> rest = <<>>
    OBVIOUS
  <1>9. /\ fifo' \in Seq(Buffer) /\ workBuf' \in Seq(Buffer)
        /\ eosMeta' \in [cells : Seq(Cell), last : BOOLEAN]
    <2>1. eosMeta \in [cells : Seq(Cell), last : BOOLEAN]
      BY DEF InputTypes
    <2>2. workBuf' \in Seq(Buffer)
      BY <1>5
    <2>3. NoMeta \in [cells : Seq(Cell), last : BOOLEAN]
      BY DEF NoMeta
    <2> QED BY <1>1, <1>2, <2>1, <2>2, <2>3
  <1>10. BuffersChained'
    <2>1. /\ \A k \in DOMAIN f : /\ Filled(f[k])
                                 /\ k > 1 => Follows(LastCell(f[k - 1]), FirstCell(f[k]))
      BY DEF Taken
    <2>2. CASE rest = <<>>
      <3>1. workBuf' = <<>> /\ (f # <<>> => NextCell' = FirstCell(f[1]))
        BY <2>2 DEF NextCell
      <3> QED BY <1>1, <1>3, <2>1, <2>2, <3>1 DEF BuffersChained
    <2>3. CASE rest # <<>>
      <3>1. workBuf' # <<>> /\ workBuf'[1] = left
        BY <2>3
      <3>2. NextCell' = rest[1]
        <4>1. NextCell' = BufMeta(workBuf[1])'.cells[1]
          BY <3>1 DEF NextCell
        <4>2. BufMeta(workBuf[1])' = BufMeta(left)'
          BY <3>1 DEF BufMeta, IsEos
        <4> QED BY <1>6, <2>3, <4>1, <4>2
      <3>3. out'.avail > 0 => Follows(ring'[LastHeld'], NextCell')
        <4>1. CASE n > 0
          BY <1>4, <2>3, <3>2, <4>1
        <4>2. CASE n = 0
          <5>1. rest[1] = cells[1]
            BY <1>4, <2>3, <4>2
          <5> QED BY <1>1, <3>2, <4>2, <5>1
        <4> QED BY <4>1, <4>2
      <3> QED BY <1>1, <1>5, <2>1, <2>3, <3>1, <3>3 DEF BuffersChained
    <2> QED BY <2>2, <2>3
  <1>11. InputChained'
    <2>1. IsFlush(Head(input))' = IsFlush(Head(input))
      BY DEF IsFlush, Nut
    <2>2. app \in {"pushes", "awaits"} /\ input # <<>> /\ ~IsFlush(Head(input)) =>
          /\ f # <<>> => Follows(LastCell(f[Len(f)]), Head(input))
          /\ f = <<>> => Follows(LastCell(b), Head(input))
      BY DEF Taken
    <2>3. rest # <<>> => LastCell(workBuf'[1]) = LastCell(b)
      BY <1>5
    <2> QED BY <1>3, <1>8, <2>1, <2>2, <2>3 DEF InputChained
  <1> QED BY <1>7, <1>9, <1>10, <1>11

---------------------------------------------------------------------------
(* AL_Patchworker_Transfer *)

\* The buffer AL_Patchworker_Transfer works on, if there is one.
LEMMA WorkIs ==
  ASSUME InputTypes,
         NEW work, work = IF workBuf # <<>> THEN workBuf ELSE SubSeq(fifo, 1, Min({1, Len(fifo)}))
  PROVE  \/ workBuf = <<>> /\ fifo = <<>> /\ work = <<>>
         \/ workBuf # <<>> /\ work # <<>> /\ work[1] = workBuf[1]
         \/ workBuf = <<>> /\ fifo # <<>> /\ work # <<>> /\ work[1] = fifo[1]
  <1>1. fifo \in Seq(Buffer) /\ Len(fifo) \in Nat /\ (fifo = <<>> <=> Len(fifo) = 0)
    BY InputType
  <1>2. PICK m : m = Min({1, Len(fifo)})
    OBVIOUS
  <1>3. m \in Nat /\ m <= 1 /\ m <= Len(fifo) /\ (m = 1 \/ m = Len(fifo))
    BY <1>1, <1>2, LesserOf
  <1>4. CASE workBuf # <<>>
    BY <1>4
  <1>5. CASE workBuf = <<>>
    <2>1. work = SubSeq(fifo, 1, m)
      BY <1>2, <1>5
    <2>2. work \in Seq(Buffer) /\ Len(work) = m /\ \A i \in 1 .. m : work[i] = fifo[i]
      <3>1. m \in 0 .. Len(fifo) /\ 1 \in 1 .. Len(fifo) + 1
        BY <1>1, <1>3
      <3>2. PICK t : t = SubSeq(fifo, 1, m)
        OBVIOUS
      <3>3. t \in Seq(Buffer) /\ Len(t) = m /\ \A i \in 1 .. m : t[i] = fifo[i]
        BY <1>1, <3>1, <3>2, SubSeqProperties
      <3>4. t = work
        BY <2>1, <3>2
      <3> QED BY <3>3, <3>4
    <2>3. work = <<>> <=> m = 0
      BY <2>2, EmptySeq
    <2>4. CASE fifo = <<>>
      BY <1>1, <1>3, <1>5, <2>3, <2>4
    <2>5. CASE fifo # <<>>
      <3>1. m = 1
        BY <1>1, <1>3, <2>5
      <3> QED BY <1>5, <2>2, <2>3, <2>5, <3>1
    <2> QED BY <2>4, <2>5
  <1> QED BY <1>4, <1>5

\* Meta data, field by field.
LEMMA MetaType ==
  ASSUME InputTypes, NEW b \in Buffer
  PROVE  /\ BufMeta(b) \in [cells : Seq(Cell), last : BOOLEAN]
         /\ \A z : [b EXCEPT !.cells = z] = [id |-> b.id, cells |-> z]
         /\ \A z : [BufMeta(b) EXCEPT !.cells = z] = [cells |-> z, last |-> BufMeta(b).last]
  <1>1. b \in [id : {"app", "eos"}, cells : Seq(Cell)]
    BY DEF Buffer
  <1>2. BufMeta(b) \in [cells : Seq(Cell), last : BOOLEAN]
    <2>1. eosMeta \in [cells : Seq(Cell), last : BOOLEAN]
      BY DEF InputTypes
    <2>2. CASE ~IsEos(b)
      <3>1. BufMeta(b) = [cells |-> b.cells, last |-> FALSE]
        BY <2>2 DEF BufMeta
      <3> QED BY <1>1, <3>1
    <2>3. CASE IsEos(b) /\ eosMeta = NoMeta
      <3>1. BufMeta(b) = [cells |-> EosCells, last |-> FALSE]
        BY <2>3 DEF BufMeta
      <3> QED BY <3>1, EosCellsAre
    <2>4. CASE IsEos(b) /\ eosMeta # NoMeta
      <3>1. BufMeta(b) = eosMeta
        BY <2>4 DEF BufMeta
      <3> QED BY <2>1, <3>1
    <2> QED BY <2>2, <2>3, <2>4
  <1>3. PICK m : m = BufMeta(b)
    OBVIOUS
  <1>4. \A z : [m EXCEPT !.cells = z] = [cells |-> z, last |-> m.last]
    BY <1>2, <1>3
  <1>5. \A z : [b EXCEPT !.cells = z] = [id |-> b.id, cells |-> z]
    BY <1>1
  <1> QED BY <1>2, <1>3, <1>4, <1>5

\* What the slave does to the circular buffer.
ReadInto(o, meta, n, copied) ==
    /\ CopiedTo(o.off, o.avail, meta.cells, n)
    /\ out' = [o EXCEPT !.avail = @ + n, !.last = @ \/ (copied /\ meta.last)]
    /\ view' = [view EXCEPT !.avail = @ + n]

\* And to the buffer it copies.
ReadFrom(work, meta, n, rest, copied) ==
    /\ fifo' = IF workBuf = <<>> /\ fifo # <<>> THEN Tail(fifo) ELSE fifo
    /\ workBuf' = IF copied \/ work = <<>> THEN <<>>
                  ELSE <<[work[1] EXCEPT !.cells = IF IsEos(work[1]) THEN <<>> ELSE rest]>>
    /\ eosMeta' = IF work = <<>> \/ ~IsEos(work[1]) THEN eosMeta
                  ELSE IF copied THEN NoMeta ELSE [meta EXCEPT !.cells = rest]

Read(o, work, meta, n, rest) ==
    /\ o = CircBuffer_ConsumeUpToOffset(out, iCurOffset)
    /\ work = IF workBuf # <<>> THEN workBuf ELSE SubSeq(fifo, 1, Min({1, Len(fifo)}))
    /\ meta = IF work = <<>> THEN NoMeta ELSE BufMeta(work[1])
    /\ n = Min({Len(meta.cells), Size - 1 - o.avail})
    /\ rest = SubSeq(meta.cells, n + 1, Len(meta.cells))
    /\ ReadInto(o, meta, n, work # <<>> /\ rest = <<>>)
    /\ ReadFrom(work, meta, n, rest, work # <<>> /\ rest = <<>>)

\* SlaveReads, in the two parts above.
LEMMA ReadParts ==
  ASSUME SlaveReads
  PROVE  \E o, work, meta, n, rest : Read(o, work, meta, n, rest)
  <1>1. PICK o : o = CircBuffer_ConsumeUpToOffset(out, iCurOffset)
    OBVIOUS
  <1>2. PICK work : work = IF workBuf # <<>> THEN workBuf
                           ELSE SubSeq(fifo, 1, Min({1, Len(fifo)}))
    OBVIOUS
  <1>3. PICK meta : meta = IF work = <<>> THEN NoMeta ELSE BufMeta(work[1])
    OBVIOUS
  <1>4. PICK n : n = Min({Len(meta.cells), Size - 1 - o.avail})
    OBVIOUS
  <1>5. PICK rest : rest = SubSeq(meta.cells, n + 1, Len(meta.cells))
    OBVIOUS
  <1>6. ReadInto(o, meta, n, work # <<>> /\ rest = <<>>)
    BY <1>1, <1>2, <1>3, <1>4, <1>5
    DEF SlaveReads, ReadInto, CopiedTo, AL_CIRCULAR_BUFFER_SIZE_MARGIN
  <1>7. ReadFrom(work, meta, n, rest, work # <<>> /\ rest = <<>>)
    BY <1>1, <1>2, <1>3, <1>4, <1>5
    DEF SlaveReads, ReadFrom, AL_CIRCULAR_BUFFER_SIZE_MARGIN
  <1>8. Read(o, work, meta, n, rest)
    BY <1>1, <1>2, <1>3, <1>4, <1>5, <1>6, <1>7 DEF Read
  <1> QED BY <1>8

---------------------------------------------------------------------------
(* and the step that calls it *)

\* No more is copied than there is room for.
LEMMA ReadSizes ==
  ASSUME NEW m \in Nat, NEW a \in Offset, NEW n, n = Min({m, Size - 1 - a})
  PROVE  n \in Nat /\ n <= m /\ a + n < Size /\ a + n \in Offset
  <1>1. a \in Nat /\ a < Size /\ Size - 1 - a \in Nat
    BY SizeIs DEF Offset
  <1>2. n \in Nat /\ n <= m /\ n <= Size - 1 - a
    BY <1>1, LesserOf
  <1> QED BY <1>1, <1>2, SizeIs DEF Offset

LEMMA CircSet ==
  ASSUME NEW c \in [off : Offset, avail : Offset, last : BOOLEAN], NEW v, NEW m
  PROVE  [c EXCEPT !.avail = v, !.last = m] = [off |-> c.off, avail |-> v, last |-> m]
  <1> DEFINE D == {"off", "avail", "last"}
             e == [c EXCEPT !.avail = v, !.last = m]
             f == [off |-> c.off, avail |-> v, last |-> m]
  <1>1. c = [i \in D |-> c[i]]
    OBVIOUS
  <1>2. e = [i \in D |-> e[i]] /\ e["off"] = c.off /\ e["avail"] = v /\ e["last"] = m
    BY <1>1
  <1>3. f = [i \in D |-> f[i]] /\ f["off"] = c.off /\ f["avail"] = v /\ f["last"] = m
    OBVIOUS
  <1> HIDE DEF e, f
  <1> QED BY <1>2, <1>3

\* The meta data with n more cells, the last ones if l.
Grows(c, n, l) == [c EXCEPT !.avail = @ + n, !.last = @ \/ l]

LEMMA Longer ==
  ASSUME NEW c \in Circ, NEW n, NEW l \in BOOLEAN
  PROVE  \E m \in BOOLEAN : Grows(c, n, l) = [off |-> c.off, avail |-> c.avail + n, last |-> m]
  <1>1. PICK m \in BOOLEAN : m = (c.last \/ l)
    OBVIOUS
  <1>2. Grows(c, n, l) = [c EXCEPT !.avail = @ + n, !.last = m]
    BY <1>1, Zenon DEF Grows
  <1>3. [c EXCEPT !.avail = @ + n, !.last = m] = [off |-> c.off, avail |-> c.avail + n, last |-> m]
    BY CircSet DEF Circ
  <1> QED BY <1>2, <1>3

\* The circular buffer after a transfer.
ReadsInto(o, meta, n, copied) ==
    /\ o = CircBuffer_ConsumeUpToOffset(out, iCurOffset)
    /\ copied \in BOOLEAN /\ meta.cells \in Seq(Cell) /\ meta.last \in BOOLEAN
    /\ Chained(meta.cells)
    /\ n = Min({Len(meta.cells), Size - 1 - o.avail}) /\ ReadInto(o, meta, n, copied)
    /\ n > 0 /\ out.avail > 0 => Follows(ring[LastHeld], meta.cells[1])

\* What a transfer keeps.
LEMMA ReadIntoKeeps ==
  ASSUME InputTypes, OffsetsInOrder, FramesKept, RingChained, TableRead, FrameTokens,
         NEW o, NEW meta, NEW n, NEW copied, ReadsInto(o, meta, n, copied), FramesStay
  PROVE  /\ OffsetsInOrder' /\ FramesKept' /\ TableRead' /\ RingChained'
         /\ ring' \in [Offset -> Cell] /\ out' \in Circ /\ view' \in Circ
         /\ n \in Nat /\ n <= Len(meta.cells)
         /\ EndsWith(out'.avail, meta.cells, n)
         /\ n = 0 => ring' = ring
         /\ n = 0 /\ out'.avail > 0 => out.avail > 0 /\ LastHeld' = LastHeld
  <1> SUFFICES
        ASSUME o = CircBuffer_ConsumeUpToOffset(out, iCurOffset),
               copied \in BOOLEAN, meta.cells \in Seq(Cell), meta.last \in BOOLEAN,
               Chained(meta.cells), n = Min({Len(meta.cells), Size - 1 - o.avail}),
               ReadInto(o, meta, n, copied),
               n > 0 /\ out.avail > 0 => Follows(ring[LastHeld], meta.cells[1])
        PROVE  /\ OffsetsInOrder' /\ FramesKept' /\ TableRead' /\ RingChained'
               /\ ring' \in [Offset -> Cell] /\ out' \in Circ /\ view' \in Circ
               /\ n \in Nat /\ n <= Len(meta.cells)
               /\ EndsWith(out'.avail, meta.cells, n)
               /\ n = 0 => ring' = ring
               /\ n = 0 /\ out'.avail > 0 => out.avail > 0 /\ LastHeld' = LastHeld
    BY DEF ReadsInto
  <1>1. PICK s : s = CircBuffer_ConsumeUpToOffset(o, iCurNalStreamOffset)
    OBVIOUS
  <1>2. /\ o = [off |-> iCurOffset, avail |-> out.avail - At(iCurOffset), last |-> out.last]
        /\ o \in Circ
    BY <1>1, ConsumedParts
  <1>3. PICK x : x = iCurOffset
    OBVIOUS
  <1>4. PICK c : c = At(x)
    OBVIOUS
  <1>5. PICK a : a = out.avail - c
    OBVIOUS
  <1>6. PICK cells : cells = meta.cells
    OBVIOUS
  <1>7. /\ o.off = x /\ o.avail = a /\ a \in Offset /\ o.last \in BOOLEAN
        /\ cells \in Seq(Cell) /\ Chained(cells) /\ Len(cells) \in Nat
    BY <1>2, <1>3, <1>4, <1>5, <1>6 DEF Circ
  <1>8. n \in Nat /\ n <= Len(cells) /\ a + n < Size /\ a + n \in Offset
    BY <1>6, <1>7, ReadSizes
  <1>9. /\ out'.off = x /\ out'.avail = a + n /\ out' \in Circ
        /\ view' = [off |-> view.off, avail |-> view.avail + n, last |-> view.last]
        /\ CopiedTo(x, a, cells, n)
    <2>1. out' = [o EXCEPT !.avail = @ + n, !.last = @ \/ (copied /\ meta.last)]
          /\ view' = [view EXCEPT !.avail = @ + n]
          /\ CopiedTo(x, a, cells, n)
      BY <1>6, <1>7 DEF ReadInto
    <2>2. PICK l \in BOOLEAN : l = (copied /\ meta.last)
      OBVIOUS
    <2>6. PICK m \in BOOLEAN : Grows(o, n, l) = [off |-> o.off, avail |-> o.avail + n, last |-> m]
      <3>1. o \in Circ
        BY <1>2
      <3> QED BY <3>1, Longer
    <2>7. out' = Grows(o, n, l)
      BY <2>1, <2>2, Zenon DEF Grows
    <2>3. out' = [off |-> x, avail |-> a + n, last |-> m]
      BY <1>7, <2>6, <2>7
    <2>4. view' = [off |-> view.off, avail |-> view.avail + n, last |-> view.last]
      <3>1. view \in [off : Offset, avail : Offset, last : BOOLEAN]
        BY DEF InputTypes, Circ
      <3> QED BY <2>1, <3>1
    <2>5. x \in Offset
      BY <1>3, PlaceTypes
    <2>8. out' \in Circ
      BY <1>8, <2>3, <2>5 DEF Circ
    <2>9. CopiedTo(x, a, cells, n)
      BY <2>1
    <2> QED BY <2>3, <2>4, <2>8, <2>9
  <1>10. n > 0 /\ out.avail > 0 => Follows(ring[LastHeld], cells[1])
    BY <1>6
  <1>11. /\ OffsetsInOrder' /\ FramesKept' /\ TableRead' /\ RingChained'
         /\ ring' \in [Offset -> Cell] /\ a \in Nat /\ a + n \in Offset /\ view' \in Circ
         /\ EndsWith(a, cells, n)
         /\ n = 0 => ring' = ring
    <2>1. /\ x = iCurOffset /\ c = At(x) /\ a = out.avail - c /\ cells \in Seq(Cell)
          /\ Chained(cells) /\ n \in Nat /\ n <= Len(cells) /\ a + n < Size
          /\ n > 0 /\ out.avail > 0 => Follows(ring[LastHeld], cells[1])
          /\ out'.off = x /\ out'.avail = a + n
          /\ view' = [off |-> view.off, avail |-> view.avail + n, last |-> view.last]
          /\ CopiedTo(x, a, cells, n)
      BY <1>3, <1>4, <1>5, <1>7, <1>8, <1>9, <1>10
    <2>2. Copies(x, c, a, cells, n)
      BY <2>1 DEF Copies
    <2> QED BY <2>2, Copied
  <1>12. n = 0 => out'.avail = a
    BY <1>9, <1>11
  <1>13. ASSUME n = 0, a > 0 PROVE LastHeld' = LastHeld
    <2>1. c < out.avail /\ x \in Offset
      <3>1. c \in Nat /\ out.avail \in Nat /\ x \in Offset
        BY <1>3, <1>4, PlaceTypes, AtType
      <3> QED BY <1>5, <1>13, <3>1
    <2>2. (x + a - 1) % Size = LastHeld
      BY <1>4, <1>5, <2>1, LastStays
    <2>3. LastHeld' = (x + a - 1) % Size
      BY <1>9, <1>12, <1>13 DEF LastHeld
    <2> QED BY <2>2, <2>3
  <1>14. EndsWith(out'.avail, meta.cells, n)
    BY <1>6, <1>11, <1>12 DEF EndsWith
  <1>15. n = 0 /\ out'.avail > 0 => out.avail > 0 /\ LastHeld' = LastHeld
    BY <1>11, <1>12, <1>13 DEF EndsWith
  <1> QED BY <1>6, <1>8, <1>9, <1>11, <1>14, <1>15

LEMMA ReadStep ==
  ASSUME InputData, Places, Requests, FrameTokens, [Next]_vars, SlaveReads
  PROVE  InputData'
  <1>1. /\ InputTypes /\ OffsetsInOrder /\ FramesKept /\ StatusRight /\ TableHasRoom
        /\ RingChained /\ TableRead /\ EosParts /\ BuffersChained /\ InputChained
    BY DEF InputData, CellsInOrder
  <1>2. PICK o, work, meta, n, rest : Read(o, work, meta, n, rest)
    BY ReadParts
  <1>3. /\ o = CircBuffer_ConsumeUpToOffset(out, iCurOffset)
        /\ work = IF workBuf # <<>> THEN workBuf ELSE SubSeq(fifo, 1, Min({1, Len(fifo)}))
        /\ meta = IF work = <<>> THEN NoMeta ELSE BufMeta(work[1])
        /\ n = Min({Len(meta.cells), Size - 1 - o.avail})
        /\ rest = SubSeq(meta.cells, n + 1, Len(meta.cells))
        /\ ReadInto(o, meta, n, work # <<>> /\ rest = <<>>)
        /\ ReadFrom(work, meta, n, rest, work # <<>> /\ rest = <<>>)
    BY <1>2 DEF Read
  <1>4. /\ slave = "read" /\ slave' = "search"
        /\ UNCHANGED <<app, prog, input, table, iCurOffset, iCurNalStreamOffset, iStreamOffset,
                       iNumFrmBlk2, inflight, ScDetectionComplete>>
    BY DEF SlaveReads, appVars, scdVars, tableVars, hwVars
  <1>5. app \notin Joined /\ ~ScDetectionComplete'
    BY <1>4 DEF Places, Requests
  <1>6. StatusRight' /\ TableHasRoom'
    BY <1>1, <1>4, <1>5 DEF StatusRight, TableHasRoom
  <1>7. PICK copied \in BOOLEAN : copied = (work # <<>> /\ rest = <<>>)
    OBVIOUS
  <1>8. ReadInto(o, meta, n, copied) /\ ReadFrom(work, meta, n, rest, copied)
    BY <1>3, <1>7
  <1>9. \/ workBuf = <<>> /\ fifo = <<>> /\ work = <<>>
        \/ workBuf # <<>> /\ work # <<>> /\ work[1] = workBuf[1]
        \/ workBuf = <<>> /\ fifo # <<>> /\ work # <<>> /\ work[1] = fifo[1]
    BY <1>1, <1>3, WorkIs
  <1>10. /\ OffsetsInOrder' /\ FramesKept' /\ TableRead' /\ RingChained'
         /\ ring' \in [Offset -> Cell] /\ out' \in Circ /\ view' \in Circ
         /\ EosParts' /\ BuffersChained' /\ InputChained'
         /\ fifo' \in Seq(Buffer) /\ workBuf' \in Seq(Buffer)
         /\ eosMeta' \in [cells : Seq(Cell), last : BOOLEAN]
    <2>1. CASE work = <<>>
      <3>1. meta.cells = <<>> /\ meta.last = FALSE /\ Len(meta.cells) = 0
            /\ meta.cells \in Seq(Cell) /\ Chained(meta.cells)
        <4>1. meta.cells = <<>> /\ meta.last = FALSE
          BY <1>3, <2>1 DEF NoMeta
        <4>2. <<>> \in Seq(Cell) /\ Chained(<<>>) /\ Len(<<>>) = 0
          BY DEF Chained
        <4> QED BY <4>1, <4>2
      <3>2. o.avail \in Offset
        <4>1. PICK s : s = CircBuffer_ConsumeUpToOffset(o, iCurNalStreamOffset)
          OBVIOUS
        <4>2. o \in Circ
          BY <1>1, <1>3, <4>1, ConsumedParts
        <4> QED BY <4>2 DEF Circ
      <3>3. n = 0
        <4>1. n \in Nat /\ n <= 0
          BY <1>3, <3>1, <3>2, ReadSizes
        <4> QED BY <4>1
      <3>4. /\ OffsetsInOrder' /\ FramesKept' /\ TableRead' /\ RingChained'
            /\ ring' \in [Offset -> Cell] /\ out' \in Circ /\ view' \in Circ
            /\ ring' = ring
            /\ out'.avail > 0 => out.avail > 0 /\ LastHeld' = LastHeld
        <4>1. meta.last \in BOOLEAN
          BY <3>1
        <4>2. n > 0 /\ out.avail > 0 => Follows(ring[LastHeld], meta.cells[1])
          BY <3>3
        <4>3. ReadsInto(o, meta, n, copied)
          BY <1>3, <1>8, <3>1, <4>1, <4>2 DEF ReadsInto
        <4> QED BY <1>1, <1>4, <3>3, <4>3, ReadIntoKeeps DEF FramesStay
      <3>5. UNCHANGED pending
        <4>1. workBuf = <<>> /\ fifo = <<>>
          BY <1>9, <2>1
        <4>2. workBuf' = <<>> /\ fifo' = fifo /\ eosMeta' = eosMeta
          BY <1>8, <2>1, <4>1 DEF ReadFrom
        <4> QED BY <1>4, <4>1, <4>2 DEF pending
      <3>6. EosParts' /\ BuffersChained' /\ InputChained'
        BY <1>1, <1>4, <3>4, <3>5, PendingFollows
      <3> QED BY <1>1, <3>4, <3>5, <3>6 DEF InputTypes, pending
    <2>2. CASE work # <<>>
      <3>1. PICK b : b = work[1]
        OBVIOUS
      <3>2. PICK f : f = IF workBuf = <<>> /\ fifo # <<>> THEN Tail(fifo) ELSE fifo
        OBVIOUS
      <3>3. PICK cells : cells = BufMeta(b).cells
        OBVIOUS
      <3>4. Taken(b, f, cells) /\ BufMeta(b).last \in BOOLEAN
        <4>1. \/ workBuf # <<>> /\ b = workBuf[1] /\ f = fifo
              \/ workBuf = <<>> /\ fifo # <<>> /\ b = fifo[1] /\ f = Tail(fifo)
          BY <1>9, <2>2, <3>1, <3>2
        <4> QED BY <1>1, <1>5, <3>3, <4>1, WorkTaken
      <3>5. meta = BufMeta(b) /\ meta.cells = cells
        BY <1>3, <2>2, <3>1, <3>3
      <3>6. /\ cells \in Seq(Cell) /\ Chained(cells) /\ b \in Buffer
            /\ out.avail > 0 => Follows(ring[LastHeld], cells[1])
        BY <3>4 DEF Taken
      <3>7. /\ OffsetsInOrder' /\ FramesKept' /\ TableRead' /\ RingChained'
            /\ ring' \in [Offset -> Cell] /\ out' \in Circ /\ view' \in Circ
            /\ n \in Nat /\ n <= Len(cells) /\ EndsWith(out'.avail, cells, n)
        <4>1. /\ meta.cells \in Seq(Cell) /\ meta.last \in BOOLEAN /\ Chained(meta.cells)
              /\ n > 0 /\ out.avail > 0 => Follows(ring[LastHeld], meta.cells[1])
          BY <3>4, <3>5, <3>6
        <4>2. /\ OffsetsInOrder' /\ FramesKept' /\ TableRead' /\ RingChained'
              /\ ring' \in [Offset -> Cell] /\ out' \in Circ /\ view' \in Circ
              /\ n \in Nat /\ n <= Len(meta.cells) /\ EndsWith(out'.avail, meta.cells, n)
          <5>1. ReadsInto(o, meta, n, copied)
            BY <1>3, <1>8, <4>1 DEF ReadsInto
          <5> QED BY <1>1, <1>4, <5>1, ReadIntoKeeps DEF FramesStay
        <4> QED BY <3>5, <4>2
      <3>8. PICK l \in BOOLEAN : l = meta.last
        BY <3>4, <3>5
      <3>9. PICK left : left = [id |-> b.id, cells |-> IF IsEos(b) THEN <<>> ELSE rest]
        OBVIOUS
      <3>10. fifo' = f /\ rest = SubSeq(cells, n + 1, Len(cells))
        BY <1>3, <1>8, <3>2, <3>5 DEF ReadFrom
      <3>11. workBuf' = IF rest = <<>> THEN <<>> ELSE <<left>>
        <4>1. left = [b EXCEPT !.cells = IF IsEos(b) THEN <<>> ELSE rest]
          BY <1>1, <3>6, <3>9, MetaType
        <4>2. workBuf' = IF copied \/ work = <<>> THEN <<>>
                         ELSE <<[b EXCEPT !.cells = IF IsEos(b) THEN <<>> ELSE rest]>>
          BY <1>8, <3>1 DEF ReadFrom
        <4> QED BY <1>7, <2>2, <4>1, <4>2
      <3>12. eosMeta' = IF ~IsEos(b) THEN eosMeta
                        ELSE IF rest = <<>> THEN NoMeta ELSE [cells |-> rest, last |-> l]
        <4>1. [meta EXCEPT !.cells = rest] = [cells |-> rest, last |-> l]
          BY <1>1, <3>5, <3>6, <3>8, MetaType
        <4>2. eosMeta' = IF work = <<>> \/ ~IsEos(b) THEN eosMeta
                         ELSE IF copied THEN NoMeta ELSE [meta EXCEPT !.cells = rest]
          BY <1>8, <3>1 DEF ReadFrom
        <4> QED BY <1>7, <2>2, <4>1, <4>2
      <3>14. /\ EosParts' /\ BuffersChained' /\ InputChained'
             /\ fifo' \in Seq(Buffer) /\ workBuf' \in Seq(Buffer)
             /\ eosMeta' \in [cells : Seq(Cell), last : BOOLEAN]
        <4>1. Leaves(b, f, cells, n, rest, l, left)
          BY <3>4, <3>7, <3>9, <3>10, <3>11, <3>12 DEF Leaves
        <4>2. EndsWith(out'.avail, cells, n)
          BY <3>7
        <4> QED BY <1>1, <1>4, <1>5, <4>1, <4>2, WorkLeft
      <3> QED BY <3>7, <3>14
    <2> QED BY <2>1, <2>2
  <1>11. InputTypes'
    BY <1>1, <1>4, <1>10 DEF InputTypes
  <1> QED BY <1>6, <1>10, <1>11 DEF InputData, CellsInOrder

---------------------------------------------------------------------------
(* The invariant holds *)

LEMMA InputInit == Init => InputInv
  <1> SUFFICES ASSUME Init PROVE InputInv
    OBVIOUS
  <1>1. prog \in Prog /\ input \in Seq(Cell) /\ Chained(input)
    BY Sizes, ProgramChained DEF Init
  <1>2. /\ table = <<>> /\ iCurNalStreamOffset = 0 /\ iCurOffset = 0
        /\ out = [off |-> 0, avail |-> 0, last |-> FALSE]
        /\ view = [off |-> 0, avail |-> 0, last |-> FALSE]
        /\ fifo = <<>> /\ workBuf = <<>> /\ inflight = <<>>
        /\ eosMeta = [cells |-> <<>>, last |-> FALSE]
        /\ ScDetectionComplete = FALSE /\ slave = "wait"
    BY DEF Init, EmptyCirc, NoMeta
  <1>3. 0 \in Offset /\ Ahead(0, 0) = 0
    <2>1. 0 \in Offset
      BY SizeIs DEF Offset
    <2> QED BY <2>1, AheadTells
  <1>4. ring \in [Offset -> Cell] /\ iStreamOffset \in [0 .. iStackSize - 1 -> Offset]
    <2>1. <<EosNal, 2>> \in Cell
      BY DEF EosNal, Cell
    <2> QED BY <1>3, <2>1 DEF Init, Offset
  <1>5. InputTypes
    <2>1. eosMeta \in [cells : Seq(Cell), last : BOOLEAN]
      <3>1. <<>> \in Seq(Cell)
        OBVIOUS
      <3> QED BY <1>2, <3>1
    <2>2. out \in Circ /\ view \in Circ
      BY <1>2, <1>3 DEF Circ
    <2>3. fifo \in Seq(Buffer) /\ workBuf \in Seq(Buffer) /\ table \in Seq(NalRange)
      BY <1>2
    <2> QED BY <1>1, <1>2, <1>3, <1>4, <2>1, <2>2, <2>3 DEF InputTypes
  <1>6. Len(table) = 0 /\ DOMAIN table = {} /\ DOMAIN inflight = {} /\ DOMAIN fifo = {}
    BY <1>2
  <1>7. OffsetsInOrder
    BY <1>2, <1>3, <1>6 DEF OffsetsInOrder, At
  <1>8. FramesKept
    BY <1>6 DEF FramesKept
  <1>9. RingChained /\ TableRead
    <2>1. \A p \in Offset : At(p) \in Nat
      BY <1>2, <1>3, AheadIs DEF At, Offset
    <2>2. \A p \in Offset : ~(At(p) + 1 < out.avail)
      BY <1>2, <2>1
    <2> QED BY <1>6, <2>2 DEF RingChained, TableRead
  <1>10. TableHasRoom
    BY <1>2, <1>6, Sizes DEF TableHasRoom
  <1>11. StatusRight
    BY <1>2 DEF StatusRight
  <1>12. EosParts
    BY <1>2 DEF EosParts, EosHalf, NoMeta
  <1>13. BuffersChained
    BY <1>2, <1>6 DEF BuffersChained
  <1>14. InputChained
    <2>1. ~(out.avail > 0)
      BY <1>2
    <2> QED BY <1>1, <1>2, <2>1 DEF InputChained
  <1> QED BY AsksInit, <1>5, <1>7, <1>8, <1>9, <1>10, <1>11, <1>12, <1>13, <1>14
          DEF InputInv, CellsInOrder

\* What has been discarded stays so.
LEMMA LostStays ==
  ASSUME Places, [Next]_vars, ~lost'
  PROVE  ~lost
  <1>1. CASE App
    BY <1>1 DEF App, Push, FlushCalled, EndOfStreamSeen, Destroying, DestroyCalled,
         DestroyContinues, DestroySlave, SlaveJoined, ChannelDestroyed, DestroyStartCodeChannel,
         historyVars
  <1>2. CASE SlaveWakes \/ SlaveDrains \/ SlaveReads \/ NoUnit \/ StartCodesAdded
    BY <1>2 DEF Places, SlaveWakes, SlaveDrains, SlaveReads, NoUnit, StartCodesAdded, historyVars
  <1>3. CASE UnitLaunched \/ UnitRefused \/ UnitDropped \/ UnitFatal
    BY <1>3 DEF UnitLaunched, UnitRefused, UnitDropped, UnitFatal, historyVars
  <1>4. CASE RoomMade \/ RoomLeft \/ InternalFlush
    BY <1>4 DEF RoomMade, RoomLeft, InternalFlush, historyVars
  <1>5. CASE StartCodeThread \/ Callback \/ Done \/ UNCHANGED vars
    BY <1>5 DEF StartCodeThread, StartCodesFound, DetectorBusy, EndScd, StartCodeThreadEnds,
         Callback, EndDecoding, FrameEnded, Done, vars, historyVars
  <1> QED BY <1>1, <1>2, <1>3, <1>4, <1>5 DEF Next, Slave

\* Every step, with the lemma of its action.
LEMMA InputStep == InputInv /\ FrameTokens /\ [Next]_vars => InputInv'
  <1> SUFFICES ASSUME InputInv, FrameTokens, [Next]_vars, ~lost' PROVE InputData'
    BY AsksStep DEF InputInv, InputData
  <1>1. Places /\ Requests /\ ~lost
    BY LostStays DEF InputInv, Asks
  <1>2. InputData
    BY <1>1 DEF InputInv, InputData
  <1>3. CASE Push \/ FlushCalled \/ DestroyCalled \/ SlaveJoined
    BY <1>1, <1>2, <1>3, PushStep, FlushCalledStep, DestroyCalledStep, JoinedStep
  <1>4. CASE IdleSteps
    BY <1>1, <1>2, <1>4, IdleStep
  <1>5. CASE SlaveReads
    BY <1>1, <1>2, <1>5, ReadStep
  <1>6. CASE NoUnit \/ StartCodesAdded \/ StartCodesFound \/ DetectorBusy
    BY <1>1, <1>2, <1>6, NoUnitStep, AddedStep, DetectedStep
  <1>7. CASE UnitLaunched \/ UnitRefused \/ UnitDropped
    BY <1>1, <1>2, <1>7, LaunchStep, ConsumeStep DEF ConsumedOnly
  <1>8. CASE RoomMade \/ InternalFlush
    BY <1>1, <1>2, <1>8, RoomMadeStep, FlushStep
  <1>9. CASE EndDecoding
    BY <1>1, <1>2, <1>9, DecodedStep
  <1> QED BY <1>3, <1>4, <1>5, <1>6, <1>7, <1>8, <1>9
          DEF Next, App, Destroying, DestroyContinues, Slave, StartCodeThread, Callback, IdleSteps

---------------------------------------------------------------------------
(* What it says *)

\* The bytes follow from the order of the offsets.
LEMMA KeptBytes == InputInv /\ ~lost => BytesAreKept
  <1> SUFFICES ASSUME InputInv, ~lost PROVE BytesAreKept
    OBVIOUS
  <1>1. InputTypes /\ OffsetsInOrder /\ FramesKept /\ TableRead
    BY DEF InputInv, CellsInOrder
  <1>2. /\ At(iCurNalStreamOffset) \in Nat /\ At(view.off) \in Nat /\ view.avail \in Nat
        /\ out.avail \in Nat /\ out.avail < Size
        /\ out.off \in Offset /\ view.off \in Offset
        /\ At(iCurNalStreamOffset) <= At(view.off) /\ At(view.off) + view.avail = out.avail
    BY <1>1, PlaceTypes DEF OffsetsInOrder
  <1>3. ASSUME NEW i \in DOMAIN inflight, NEW b \in inflight[i]
        PROVE  Ahead(out.off, b[1]) < out.avail /\ ring[b[1]] = b[2]
    <2>1. b[1] \in Offset /\ ring[b[1]] = b[2] /\ At(b[1]) < At(iCurNalStreamOffset)
      BY <1>1, <1>3 DEF FramesKept
    <2>2. At(b[1]) \in Nat
      BY <1>1, <2>1, AtType
    <2>3. At(b[1]) < out.avail
      BY <1>2, <2>1, <2>2
    <2> QED BY <2>1, <2>3 DEF At
  <1>4. ASSUME NEW i \in DOMAIN table
        PROVE  /\ Ahead(out.off, table[i].uPosition) < out.avail
               /\ \A k \in 0 .. table[i].uSize - 1 :
                     ring[(table[i].uPosition + k) % Size][1] = table[i].nal
    <2>1. i \in 1 .. Len(table)
      BY <1>1, NalType
    <2>2. PICK x \in Offset : x = table[i].uPosition
      BY <1>1, <2>1, NalType
    <2>3. PICK n \in Nat : n = table[i].uSize /\ n < Size
      BY <1>1, <2>1, NalType, SizeIs DEF Offset
    <2>4. At(x) < out.avail
      <3>1. At(x) \in Nat /\ EndAt(i) \in Nat /\ At(x) < EndAt(i) /\ EndAt(i) <= At(view.off)
        BY <1>1, <2>1, <2>2, EndOfNal, SizeIs DEF OffsetsInOrder, Offset
      <3> QED BY <1>2, <3>1
    <2>5. ASSUME NEW k \in 0 .. n - 1
          PROVE  ring[(x + k) % Size][1] = table[i].nal
      <3>1. k \in 0 .. Size /\ k < Size
        BY <2>3, SizeIs
      <3>2. (x + k) % Size \in Offset /\ Ahead(x, (x + k) % Size) = k
        BY <3>1, Advanced
      <3>3. Ahead(x, (x + k) % Size) < n
        BY <2>3, <3>2
      <3> QED BY <1>1, <2>2, <2>3, <3>2, <3>3 DEF TableRead
    <2> QED BY <2>2, <2>3, <2>4, <2>5 DEF At
  <1>5. ASSUME NEW i \in 0 .. view.avail - 1
        PROVE  Ahead(out.off, (view.off + i) % Size) < out.avail
    <2>1. i \in Nat /\ At(view.off) + i < out.avail /\ At(view.off) + i < Size
      BY <1>2, SizeIs
    <2>2. At((view.off + i) % Size) = At(view.off) + i
      BY <1>2, <2>1, AheadFrom DEF At
    <2> QED BY <2>1, <2>2 DEF At
  <1> QED BY <1>3, <1>4, <1>5 DEF BytesAreKept

\* The ranges follow from it too.
LEMMA InputRanges == InputInv /\ FrameTokens /\ ~lost => TypeOK
  <1> SUFFICES ASSUME InputInv, FrameTokens, ~lost PROVE TypeOK
    OBVIOUS
  <1>1. InputTypes /\ OffsetsInOrder /\ TableHasRoom /\ Places /\ OneWork
    BY DEF InputInv, Asks
  <1>2. /\ At(view.off) \in Nat /\ view.avail \in Nat
        /\ out.avail \in Nat /\ out.avail < Size
        /\ out.off \in Offset /\ view.off \in Offset
        /\ At(view.off) + view.avail = out.avail
    BY <1>1, PlaceTypes DEF OffsetsInOrder
  <1>3. out.avail \in 0 .. Size - 1 /\ out.off \in 0 .. Size - 1 /\ view.avail \in 0 .. out.avail
    BY <1>2, SizeIs DEF Offset
  <1>4. (view.off + view.avail) % Size = (out.off + out.avail) % Size
    <2> DEFINE p == (view.off + view.avail) % Size
               q == (out.off + out.avail) % Size
    <2>1. At(view.off) + view.avail < Size
      BY <1>2, SizeIs
    <2>2. p \in Offset /\ At(p) = out.avail
      BY <1>2, <2>1, AheadFrom DEF At
    <2>3. out.avail \in 0 .. Size
      BY <1>2, SizeIs
    <2>4. q \in Offset /\ At(q) = out.avail
      BY <1>2, <2>3, Advanced DEF At
    <2> HIDE DEF p, q
    <2>5. p = q
      BY <1>2, <2>2, <2>4, AheadTells DEF At
    <2> QED BY <2>5 DEF p, q
  <1>5. /\ Sem \in 0 .. iStackSize
        /\ Sem + Len(inflight) + (IF ending THEN 1 ELSE 0) = iStackSize
        /\ iNumFrmBlk1 - iNumFrmBlk2 = Len(inflight)
    BY EmptyQueue, Sizes DEF FrameTokens
  <1>6. Len(workBuf) <= 1
    <2>1. CASE workBuf = <<>>
      BY <2>1
    <2>2. CASE workBuf # <<>>
      <3>1. PICK b : b = workBuf[1]
        OBVIOUS
      <3>2. workBuf = <<b>>
        BY <1>1, <2>2, <3>1 DEF OneWork
      <3>3. Len(<<b>>) = 1
        OBVIOUS
      <3> QED BY <3>2, <3>3
    <2> QED BY <2>1, <2>2
  <1>7. incomingWorkSem \in Nat /\ keepGoing \in 0 .. 1
    BY <1>1 DEF Places
  <1> QED BY <1>1, <1>3, <1>4, <1>5, <1>6, <1>7 DEF TypeOK, TableHasRoom

\* Until input is discarded the invariant of DecInputInvariant holds: the threads
\* ask each other one thing at a time, and the offsets of what is decoded, parsed,
\* scanned and held follow each other, with the NALs and frames between them.
THEOREM InputIsInvariant == InputSpec => []InputInv
  <1> DEFINE IInv == FrameTokens /\ RingType /\ InputInv
  <1>1. Init => IInv
    BY TokensInit, InputInit
  <1>2. IInv /\ [Next]_vars => IInv'
    BY TokensStep, InputStep
  <1> QED BY <1>1, <1>2, PTL DEF InputSpec

\* The hardware and the parser find in the circular buffer the bytes they were
\* told of, although the slave copies input behind them and the callback frees
\* what is before them, unless input was discarded to avoid a stall.
THEOREM BytesKept == InputSpec => [](~lost => BytesAreKept)
  BY KeptBytes, InputIsInvariant, PTL

\* Variables keep the ranges the code gives them: no more is consumed than is
\* held, the table has room for every answer of the detector, and the view is the
\* end of what is held, unless input was discarded.
THEOREM InputTypesAreKept == InputSpec => [](~lost => TypeOK)
  BY InputRanges, TokensConserved, InputIsInvariant, PTL
=============================================================================
