-------------------------- MODULE DecodeFlowProofs --------------------------
(***************************************************************************)
(* Proofs about DecodeFlow, for every stack size, every number of buffers  *)
(* and every stream: the tokens of pCtx->Sem, the ring of reference lists, *)
(* the reference counts, what is overwritten, and what a flush leaves.     *)
(***************************************************************************)
EXTENDS DecodeFlowInvariant, QueueLemmas, TLAPS

---------------------------------------------------------------------------
(* The invariant holds at first and is preserved *)

\* At the start every token is in Sem and nothing is in flight.
LEMMA FlowInvInit == FlowInit => FlowInv
  <1> SUFFICES ASSUME FlowInit PROVE FlowInv
    OBVIOUS
  <1>1. inflight = <<>> /\ Len(inflight) = 0 /\ inflight \in Seq(Range(inflight))
    BY EmptySeq DEF FlowInit
  <1>2. iStackSize \in Nat
    BY FlowAssumption
  <1>3. ~HoldsToken /\ ~Flushing /\ ~Finished /\ cpc = "idle" /\ taken = 0
    BY DEF FlowInit, HoldsToken, Reserved, Flushing, Finished
  <1>4. FlowTypes
    BY <1>1, <1>2 DEF FlowInit, FlowTypes
  <1>5. TokensConserved /\ CountersAgree
    BY <1>1, <1>2, <1>3 DEF FlowInit, TokensConserved, CountersAgree
  <1> QED BY <1>1, <1>3, <1>4, <1>5 DEF FlowInv

\* Steps of the decoder thread before it has a token, and to the launch.
LEMMA ReserveStep ==
  ASSUME FlowInv, ReserveStart \/ BeginFrame \/ BeginFrameFails \/ GetAnnex \/ InitRefBuffers
                  \/ CancelFrame \/ UpdatePictManager
  PROVE  FlowInv'
  <1>1. iStackSize \in Nat
    BY FlowAssumption
  <1>2. CASE ReserveStart
    BY <1>1, <1>2 DEF ReserveStart, FlowInv, FlowTypes, TokensConserved, CountersAgree,
                      HoldsToken, Reserved, Flushing, Finished
  <1>3. CASE BeginFrameFails
    BY <1>1, <1>3 DEF BeginFrameFails, FlowInv, FlowTypes, TokensConserved,
                      CountersAgree, HoldsToken, Reserved, Flushing, Finished
  <1>7. CASE CancelFrame
    BY <1>1, <1>7 DEF CancelFrame, FlowInv, FlowTypes, TokensConserved,
                      CountersAgree, HoldsToken, Reserved, Flushing, Finished
  <1>4. CASE BeginFrame \/ GetAnnex
    BY <1>1, <1>4 DEF BeginFrame, GetAnnex, cntVars, FlowInv, FlowTypes, TokensConserved,
                      CountersAgree, HoldsToken, Reserved, Flushing, Finished
  <1>5. CASE InitRefBuffers
    BY <1>1, <1>5 DEF InitRefBuffers, cntVars, FlowInv, FlowTypes, TokensConserved,
                      CountersAgree, HoldsToken, Reserved, Flushing, Finished
  <1>6. CASE UpdatePictManager
    BY <1>1, <1>6 DEF UpdatePictManager, Update, cntVars, FlowInv, FlowTypes,
                      TokensConserved, CountersAgree, HoldsToken, Reserved, Flushing, Finished
  <1> QED BY <1>2, <1>3, <1>4, <1>5, <1>6, <1>7

\* The token goes with the command.
LEMMA LaunchStep == FlowInv /\ LaunchFrameDecoding => FlowInv'
  <1> SUFFICES ASSUME FlowInv, LaunchFrameDecoding PROVE FlowInv'
    OBVIOUS
  <1>1. /\ inflight' \in Seq(Range(inflight')) /\ inflight' # <<>>
        /\ Len(inflight') = Len(inflight) + 1 /\ Len(inflight) \in Nat
    BY Queued DEF LaunchFrameDecoding, FlowInv, FlowTypes
  <1> QED BY <1>1, FlowAssumption
          DEF LaunchFrameDecoding, FlowInv, FlowTypes, TokensConserved, CountersAgree,
              HoldsToken, Reserved, Flushing, Finished

\* A flush goes on when all the tokens are taken: then no command is in
\* flight and the callback thread has released the last token.
LEMMA FlushStep ==
  ASSUME FlowInv, StartFlush \/ Leave \/ WaitFrameSent \/ AllFramesSent \/ DecoderDisplays
                  \/ Terminate \/ AnnexesTerminated
  PROVE  FlowInv'
  <1>1. iStackSize \in Nat
    BY FlowAssumption
  <1>2. Len(inflight) \in Nat /\ (inflight = <<>> <=> Len(inflight) = 0)
    BY EmptyQueue DEF FlowInv, FlowTypes
  <1>3. CASE StartFlush \/ Leave
    BY <1>1, <1>2, <1>3 DEF StartFlush, Leave, cntVars, FlowInv, FlowTypes, TokensConserved,
                       CountersAgree, HoldsToken, Reserved, Flushing, Finished
  <1>4. CASE WaitFrameSent
    BY <1>1, <1>2, <1>4 DEF WaitFrameSent, FlowInv, FlowTypes, TokensConserved, CountersAgree,
                       HoldsToken, Reserved, Flushing, Finished
  <1>5. CASE AllFramesSent
    <2>1. Len(inflight) = 0 /\ cpc # "post" /\ Sem = 0
      BY <1>1, <1>2, <1>5 DEF AllFramesSent, FlowInv, FlowTypes, TokensConserved
    <2>2. inflight = <<>> /\ cpc = "idle"
      BY <1>2, <2>1 DEF FlowInv
    <2> QED BY <1>1, <1>2, <1>5, <2>1, <2>2
            DEF AllFramesSent, FlowInv, FlowTypes, TokensConserved, CountersAgree,
                HoldsToken, Reserved, Flushing, Finished
  <1>6. CASE DecoderDisplays
    BY <1>1, <1>2, <1>6 DEF DecoderDisplays, ShowHead, cntVars, FlowInv, FlowTypes,
                       TokensConserved, CountersAgree, HoldsToken, Reserved, Flushing, Finished
  <1>7. CASE Terminate \/ AnnexesTerminated
    BY <1>1, <1>2, <1>7 DEF Terminate, AnnexesTerminated, cntVars, FlowInv, FlowTypes,
                       TokensConserved, CountersAgree, HoldsToken, Reserved, Flushing, Finished
  <1> QED BY <1>3, <1>4, <1>5, <1>6, <1>7

\* The callback thread: while it works the command is still in the queue,
\* so that the decoder thread is not in a flush.
LEMMA CallbackStep == FlowInv /\ CallbackThread => FlowInv'
  <1> SUFFICES ASSUME FlowInv, CallbackThread PROVE FlowInv'
    OBVIOUS
  <1>1. iStackSize \in Nat
    BY FlowAssumption
  <1>2. Len(inflight) \in Nat /\ (inflight = <<>> <=> Len(inflight) = 0)
    BY EmptyQueue DEF FlowInv, FlowTypes
  <1>3. CASE PictureDecoded
    BY <1>1, <1>2, <1>3 DEF PictureDecoded, cntVars, decVars, FlowInv, FlowTypes,
         TokensConserved, CountersAgree, HoldsToken, Reserved, Flushing, Finished
  <1>4. CASE ReferencesUnlocked
    BY <1>1, <1>2, <1>4 DEF ReferencesUnlocked, decVars, FlowInv, FlowTypes, TokensConserved,
         CountersAgree, HoldsToken, Reserved, Flushing, Finished
  <1>5. CASE CallbackDisplays
    BY <1>1, <1>2, <1>5 DEF CallbackDisplays, ShowHead, cntVars, decVars, FlowInv, FlowTypes,
         TokensConserved, CountersAgree, HoldsToken, Reserved, Flushing, Finished
  <1>6. CASE PictureUnlocked
    <2>1. /\ inflight' \in Seq(Range(inflight'))
          /\ Len(inflight') = Len(inflight) - 1
      BY <1>6, Dequeued DEF PictureUnlocked, FlowInv, FlowTypes
    <2> QED BY <1>1, <1>2, <1>6, <2>1
            DEF PictureUnlocked, cntVars, decVars, FlowInv, FlowTypes, TokensConserved,
                CountersAgree, HoldsToken, Reserved, Flushing, Finished
  <1>7. CASE SemReleased
    BY <1>1, <1>2, <1>7 DEF SemReleased, decVars, FlowInv, FlowTypes, TokensConserved,
         CountersAgree, HoldsToken, Reserved, Flushing, Finished
  <1> QED BY <1>3, <1>4, <1>5, <1>6, <1>7 DEF CallbackThread

\* Every step of the three threads keeps the tokens.
LEMMA FlowInvStep == FlowInv /\ [FlowNext]_flowVars => FlowInv'
  <1> SUFFICES ASSUME FlowInv, [FlowNext]_flowVars PROVE FlowInv'
    OBVIOUS
  <1>1. CASE DecoderThread
    BY <1>1, ReserveStep, LaunchStep, FlushStep DEF DecoderThread
  <1>2. CASE CallbackThread
    BY <1>2, CallbackStep
  <1>3. ASSUME \/ \E b \in Frm : PutDisplayPicture(b)
               \/ Destroy \/ Exited \/ UNCHANGED flowVars
        PROVE  FlowInv'
    <2>1. UNCHANGED <<Sem, taken, iNumFrmBlk1, iNumFrmBlk2, inflight, dpc, cpc>>
      BY <1>3 DEF PutDisplayPicture, Destroy, Exited, flowVars, cntVars, decVars
    <2> QED BY <2>1 DEF FlowInv, FlowTypes, TokensConserved, CountersAgree, HoldsToken,
                        Reserved, Flushing, Finished
  <1> QED BY <1>1, <1>2, <1>3 DEF FlowNext

\* The tokens of Sem are conserved by every step of the three threads.
THEOREM TokenInvariant == FlowSpec => []FlowInv
  BY FlowInvInit, FlowInvStep, PTL DEF FlowSpec

---------------------------------------------------------------------------
(* What follows *)

\* The decoder thread displays only when the callback thread does not, so that
\* no picture at the head of the fifo is shown twice (TryDisplayOneFrame).
THEOREM NoTwoDisplays == FlowSpec => []OneThreadDisplays
  <1>1. FlowInv => OneThreadDisplays
    BY DEF FlowInv, Flushing, OneThreadDisplays
  <1> QED BY <1>1, TokenInvariant, PTL
---------------------------------------------------------------------------
(* The ring of reference lists *)

\* Only AL_InitRefBuffers writes the ring.
LEMMA OnlyInitWritesRing ==
  ASSUME [FlowNext]_flowVars, ~InitRefBuffers
  PROVE  refRing' = refRing
  <1>1. CASE ReserveStart \/ BeginFrame \/ BeginFrameFails \/ GetAnnex \/ CancelFrame
    BY <1>1 DEF ReserveStart, BeginFrame, BeginFrameFails, GetAnnex, CancelFrame
  <1>2. CASE UpdatePictManager \/ LaunchFrameDecoding \/ StartFlush \/ Leave
    BY <1>2 DEF UpdatePictManager, Update, LaunchFrameDecoding, StartFlush, Leave
  <1>3. CASE \/ WaitFrameSent \/ AllFramesSent \/ DecoderDisplays
             \/ Terminate \/ AnnexesTerminated
    BY <1>3 DEF WaitFrameSent, AllFramesSent, DecoderDisplays, Terminate, AnnexesTerminated
  <1>4. CASE CallbackThread
    BY <1>4 DEF CallbackThread, PictureDecoded, ReferencesUnlocked, CallbackDisplays,
                PictureUnlocked, SemReleased
  <1>5. CASE (\E b \in Frm : PutDisplayPicture(b)) \/ Destroy \/ Exited \/ UNCHANGED flowVars
    BY <1>5 DEF PutDisplayPicture, Destroy, Exited, flowVars
  <1> QED BY <1>1, <1>2, <1>3, <1>4, <1>5 DEF FlowNext, DecoderThread

\* The ring is a function of its slots.
RingType == refRing = [o \in Ring |-> refRing[o]]

\* It stays one.
LEMMA RingTypeInvariant == FlowSpec => []RingType
  <1>1. FlowInit => RingType
    BY DEF FlowInit, RingType
  <1>2. RingType /\ [FlowNext]_flowVars => RingType'
    <2> SUFFICES ASSUME RingType, [FlowNext]_flowVars PROVE RingType'
      OBVIOUS
    <2>1. CASE InitRefBuffers
      <3>1. PICK list : refRing' = [refRing EXCEPT ![Offset(iNumFrmBlk1)] = list]
        BY <2>1 DEF InitRefBuffers
      <3> QED BY <3>1 DEF RingType
    <2>2. CASE ~InitRefBuffers
      BY <2>2, OnlyInitWritesRing DEF RingType
    <2> QED BY <2>1, <2>2
  <1> QED BY <1>1, <1>2, PTL DEF FlowSpec

\* The lists of the pictures in flight stay until EndDecoding has unlocked
\* their references: the slot of a new picture (iNumFrmBlk1 modulo the size of the
\* ring, AL_InitRefBuffers) is none of theirs, since the picture has a token.
ReferenceListsKept ==
    \A k \in iNumFrmBlk2 .. iNumFrmBlk1 - 1 : refRing'[Offset(k)] = refRing[Offset(k)]

\* No step writes the list of a picture in flight (AL_InitRefBuffers).
THEOREM ReferencesAreKept == FlowSpec => [][ReferenceListsKept]_flowVars
  <1>1. FlowInv /\ RingType /\ [FlowNext]_flowVars => [ReferenceListsKept]_flowVars
    <2> SUFFICES ASSUME FlowInv, RingType, [FlowNext]_flowVars,
                        NEW k \in iNumFrmBlk2 .. iNumFrmBlk1 - 1
                 PROVE  refRing'[Offset(k)] = refRing[Offset(k)]
      BY DEF ReferenceListsKept
    <2>1. CASE InitRefBuffers
      <3>1. HoldsToken
        BY <2>1 DEF InitRefBuffers, HoldsToken, Reserved
      <3>2. /\ Len(inflight) \in Nat /\ Sem \in Nat /\ taken \in Nat
            /\ iNumFrmBlk1 \in Nat /\ iNumFrmBlk2 \in Nat
            /\ MaxStack \in Nat /\ iStackSize \in 1 .. MaxStack
        BY EmptyQueue, FlowAssumption DEF FlowInv, FlowTypes
      <3>3. iNumFrmBlk1 - iNumFrmBlk2 <= Len(inflight) /\ Len(inflight) < MaxStack
        BY <3>1, <3>2 DEF FlowInv, TokensConserved, CountersAgree
      <3>4. /\ k \in Nat /\ MaxStack > 0
            /\ k < iNumFrmBlk1 /\ iNumFrmBlk1 < k + MaxStack
        BY <3>2, <3>3
      <3>5. Offset(iNumFrmBlk1) # Offset(k)
        BY <3>2, <3>4, RingPlaces DEF Offset
      <3>6. Offset(k) \in Ring
        BY <3>2, <3>4 DEF Offset, Ring
      <3>7. PICK list : refRing' = [refRing EXCEPT ![Offset(iNumFrmBlk1)] = list]
        BY <2>1 DEF InitRefBuffers
      <3> QED BY <3>5, <3>6, <3>7 DEF RingType
    <2>2. CASE ~InitRefBuffers
      BY <2>2, OnlyInitWritesRing
    <2> QED BY <2>1, <2>2
  <1> QED BY <1>1, TokenInvariant, RingTypeInvariant, PTL DEF FlowSpec

---------------------------------------------------------------------------
(* How many elements of a sequence are in a set *)

\* How many elements of s are in T.
Count(s, T) == Cardinality({i \in DOMAIN s : s[i] \in T})

\* t is s with one more element, at position i.
Grown(s, t, i) ==
    /\ Len(t) = Len(s) + 1 /\ i \in 1 .. Len(t)
    /\ \A j \in 1 .. i - 1 : t[j] = s[j]
    /\ \A j \in i .. Len(s) : t[j + 1] = s[j]

\* A count is a number, at most the length; it is 0 or the length when none or all count.
LEMMA CountType ==
  ASSUME NEW S, NEW s \in Seq(S), NEW T
  PROVE  /\ IsFiniteSet({i \in DOMAIN s : s[i] \in T})
         /\ Count(s, T) \in Nat /\ Count(s, T) <= Len(s)
         /\ Count(s, T) = 0 <=> \A i \in DOMAIN s : s[i] \notin T
         /\ (\A i \in DOMAIN s : s[i] \in T) => Count(s, T) = Len(s)
  <1> DEFINE I == {i \in DOMAIN s : s[i] \in T}
  <1>1. DOMAIN s = 1 .. Len(s) /\ Len(s) \in Nat
    BY LenProperties
  <1>2. IsFiniteSet(1 .. Len(s)) /\ Cardinality(1 .. Len(s)) = Len(s)
    BY <1>1, FS_Interval
  <1>3. IsFiniteSet(I) /\ Cardinality(I) <= Len(s)
    BY <1>1, <1>2, FS_Subset
  <1>4. Cardinality(I) \in Nat /\ (Cardinality(I) = 0 <=> I = {})
    BY <1>3, FS_CardinalityType, FS_EmptySet
  <1>5. (\A i \in DOMAIN s : s[i] \in T) => I = 1 .. Len(s)
    BY <1>1
  <1> QED BY <1>2, <1>3, <1>4, <1>5 DEF Count

\* One more element counts for one at most.
LEMMA CountGrown ==
  ASSUME NEW S, NEW s \in Seq(S), NEW t \in Seq(S), NEW i, Grown(s, t, i), NEW T
  PROVE  Count(t, T) = Count(s, T) + (IF t[i] \in T THEN 1 ELSE 0)
  <1> DEFINE I == {j \in DOMAIN s : s[j] \in T}
             J == {j \in DOMAIN t : t[j] \in T}
             g == [j \in I |-> IF j < i THEN j ELSE j + 1]
  <1>1. /\ DOMAIN s = 1 .. Len(s) /\ DOMAIN t = 1 .. Len(t)
        /\ Len(s) \in Nat /\ Len(t) = Len(s) + 1 /\ i \in 1 .. Len(t)
    BY LenProperties DEF Grown
  <1>2. \A j \in I : g[j] \in J \ {i}
    BY <1>1 DEF Grown
  <1>3. \A j, k \in I : g[j] = g[k] => j = k
    BY <1>1
  <1>4. \A k \in J \ {i} : \E j \in I : g[j] = k
    <2> TAKE k \in J \ {i}
    <2>1. CASE k < i
      BY <1>1, <2>1 DEF Grown
    <2>2. CASE k > i
      <3>1. k - 1 \in i .. Len(s) /\ t[(k - 1) + 1] = s[k - 1] /\ (k - 1) + 1 = k
        BY <1>1, <2>2 DEF Grown
      <3>2. k - 1 \in I /\ g[k - 1] = k
        BY <1>1, <2>2, <3>1
      <3> QED BY <3>2
    <2> QED BY <1>1, <2>1, <2>2
  <1>5. IsFiniteSet(I) /\ IsFiniteSet(J) /\ Cardinality(I) \in Nat
    BY CountType, FS_CardinalityType
  <1>6. Cardinality(J \ {i}) = Cardinality(I)
    <2>1. g \in Bijection(I, J \ {i})
      <3>1. g \in [I -> J \ {i}]
        BY <1>2
      <3> HIDE DEF g
      <3> QED BY <1>3, <1>4, <3>1 DEF Bijection, Injection, Surjection, IsInjective
    <2>2. ExistsBijection(I, J \ {i})
      BY <2>1 DEF ExistsBijection
    <2> QED BY <1>5, <2>2, FS_Bijection
  <1>7. Cardinality(J \ {i}) = IF i \in J THEN Cardinality(J) - 1 ELSE Cardinality(J)
    BY <1>5, FS_RemoveElement
  <1>8. Cardinality(J) \in Nat
    BY <1>5, FS_CardinalityType
  <1> QED BY <1>1, <1>5, <1>6, <1>7, <1>8 DEF Count

\* Append adds an element at the end.
LEMMA AppendGrown ==
  ASSUME NEW S, NEW s \in Seq(S), NEW e \in S
  PROVE  /\ Append(s, e) \in Seq(S) /\ Grown(s, Append(s, e), Len(s) + 1)
         /\ Append(s, e)[Len(s) + 1] = e
  BY AppendProperties, LenProperties DEF Grown

\* Tail takes the first element away.
LEMMA TailGrown ==
  ASSUME NEW S, NEW s \in Seq(S), s # <<>>
  PROVE  /\ Tail(s) \in Seq(S) /\ Head(s) \in S /\ Head(s) = s[1]
         /\ Grown(Tail(s), s, 1) /\ Len(s) \in Nat /\ Len(s) > 0
  BY HeadTailProperties, LenProperties, EmptySeq DEF Grown

\* RemoveAt takes the element at i away.
LEMMA RemoveAtGrown ==
  ASSUME NEW S, NEW s \in Seq(S), NEW i \in 1 .. Len(s)
  PROVE  RemoveAt(s, i) \in Seq(S) /\ Grown(RemoveAt(s, i), s, i)
  <1> DEFINE a == SubSeq(s, 1, i - 1)
             b == SubSeq(s, i + 1, Len(s))
             n == Len(s)
  <1>1. n \in Nat /\ \A j \in 1 .. n : s[j] \in S
    BY LenProperties, ElementOfSeq
  <1>2. /\ a \in Seq(S) /\ Len(a) = i - 1
        /\ \A j \in 1 .. i - 1 : a[j] = s[j]
    <2>1. 1 \in Int /\ i - 1 \in Int /\ \A j \in 1 .. i - 1 : s[j] \in S
      BY <1>1
    <2>2. /\ a \in Seq(S) /\ Len(a) = (IF 1 <= i - 1 THEN (i - 1) - 1 + 1 ELSE 0)
          /\ \A j \in 1 .. (i - 1) - 1 + 1 : a[j] = s[1 + j - 1]
      BY <2>1, SubSeqProperties
    <2> QED BY <1>1, <2>2
  <1>3. /\ b \in Seq(S) /\ Len(b) = n - i
        /\ \A j \in 1 .. n - i : b[j] = s[i + j]
    <2>1. i + 1 \in Int /\ n \in Int /\ \A j \in i + 1 .. n : s[j] \in S
      BY <1>1
    <2>2. /\ b \in Seq(S) /\ Len(b) = (IF i + 1 <= n THEN n - (i + 1) + 1 ELSE 0)
          /\ \A j \in 1 .. n - (i + 1) + 1 : b[j] = s[(i + 1) + j - 1]
      BY <2>1, SubSeqProperties
    <2> QED BY <1>1, <2>2
  <1>4. /\ RemoveAt(s, i) \in Seq(S) /\ Len(RemoveAt(s, i)) = n - 1
        /\ \A j \in 1 .. n - 1 : RemoveAt(s, i)[j] = IF j <= i - 1 THEN s[j] ELSE s[j + 1]
    <2>1. RemoveAt(s, i) = a \o b
      BY DEF RemoveAt
    <2> HIDE DEF a, b
    <2>2. /\ a \o b \in Seq(S) /\ Len(a \o b) = Len(a) + Len(b)
          /\ \A j \in 1 .. Len(a) + Len(b) :
                (a \o b)[j] = IF j <= Len(a) THEN a[j] ELSE b[j - Len(a)]
      BY <1>2, <1>3, ConcatProperties
    <2>3. ASSUME NEW j \in 1 .. n - 1, j <= i - 1
          PROVE  (a \o b)[j] = s[j]
      BY <1>1, <1>2, <1>3, <2>2, <2>3
    <2>4. ASSUME NEW j \in 1 .. n - 1, ~(j <= i - 1)
          PROVE  (a \o b)[j] = s[j + 1]
      <3>1. j - (i - 1) \in 1 .. n - i /\ i + (j - (i - 1)) = j + 1
        BY <1>1, <2>4
      <3>2. (a \o b)[j] = b[j - (i - 1)]
        BY <1>1, <1>2, <1>3, <2>2, <2>4
      <3> QED BY <1>1, <1>3, <3>1, <3>2
    <2>5. Len(a \o b) = n - 1
      BY <1>1, <1>2, <1>3, <2>2
    <2> QED BY <2>1, <2>2, <2>3, <2>4, <2>5
  <1> HIDE DEF a, b
  <1> QED BY <1>1, <1>4 DEF Grown

\* InsertAt adds an element at i.
LEMMA InsertAtGrown ==
  ASSUME NEW S, NEW s \in Seq(S), NEW e \in S, NEW i \in 1 .. Len(s) + 1
  PROVE  /\ InsertAt(s, i, e) \in Seq(S) /\ Grown(s, InsertAt(s, i, e), i)
         /\ InsertAt(s, i, e)[i] = e
  <1> DEFINE a == SubSeq(s, 1, i - 1)
             b == SubSeq(s, i, Len(s))
             n == Len(s)
             c == a \o <<e>>
  <1>1. n \in Nat /\ \A j \in 1 .. n : s[j] \in S
    BY LenProperties, ElementOfSeq
  <1>2. /\ a \in Seq(S) /\ Len(a) = i - 1
        /\ \A j \in 1 .. i - 1 : a[j] = s[j]
    <2>1. 1 \in Int /\ i - 1 \in Int /\ \A j \in 1 .. i - 1 : s[j] \in S
      BY <1>1
    <2>2. /\ a \in Seq(S) /\ Len(a) = (IF 1 <= i - 1 THEN (i - 1) - 1 + 1 ELSE 0)
          /\ \A j \in 1 .. (i - 1) - 1 + 1 : a[j] = s[1 + j - 1]
      BY <2>1, SubSeqProperties
    <2> QED BY <1>1, <2>2
  <1>3. /\ b \in Seq(S) /\ Len(b) = n - i + 1
        /\ \A j \in 1 .. n - i + 1 : b[j] = s[i + j - 1]
    <2>1. i \in Int /\ n \in Int /\ \A j \in i .. n : s[j] \in S
      BY <1>1
    <2>2. /\ b \in Seq(S) /\ Len(b) = (IF i <= n THEN n - i + 1 ELSE 0)
          /\ \A j \in 1 .. n - i + 1 : b[j] = s[i + j - 1]
      BY <2>1, SubSeqProperties
    <2> QED BY <1>1, <2>2
  <1>4. /\ c \in Seq(S) /\ Len(c) = i /\ c[i] = e
        /\ \A j \in 1 .. i - 1 : c[j] = s[j]
    <2>1. a \o <<e>> = Append(a, e)
      BY <1>2, AppendIsConcat
    <2> HIDE DEF a
    <2>2. /\ Append(a, e) \in Seq(S) /\ Len(Append(a, e)) = Len(a) + 1
          /\ \A j \in 1 .. Len(a) : Append(a, e)[j] = a[j]
          /\ Append(a, e)[Len(a) + 1] = e
      BY <1>2, AppendProperties
    <2>3. Len(a) + 1 = i
      BY <1>1, <1>2
    <2> QED BY <1>2, <2>1, <2>2, <2>3
  <1>5. InsertAt(s, i, e) = c \o b
    BY DEF InsertAt
  <1> HIDE DEF a, b, c
  <1>6. /\ c \o b \in Seq(S) /\ Len(c \o b) = Len(c) + Len(b)
        /\ \A j \in 1 .. Len(c) + Len(b) :
              (c \o b)[j] = IF j <= Len(c) THEN c[j] ELSE b[j - Len(c)]
    BY <1>3, <1>4, ConcatProperties
  <1>7. ASSUME NEW j \in i .. n PROVE (c \o b)[j + 1] = s[j]
    <2>1. j + 1 \in 1 .. n + 1 /\ j + 1 > i /\ (j + 1) - i \in 1 .. n - i + 1
          /\ i + ((j + 1) - i) - 1 = j
      BY <1>1
    <2> QED BY <1>1, <1>3, <1>4, <1>6, <2>1
  <1>8. ASSUME NEW j \in 1 .. i PROVE (c \o b)[j] = c[j]
    BY <1>1, <1>3, <1>4, <1>6
  <1> QED BY <1>1, <1>3, <1>4, <1>5, <1>6, <1>7, <1>8 DEF Grown

---------------------------------------------------------------------------
(* The loops of the picture manager and of the DPB *)

\* What a loop does to q in its i-th turn, for the element x.
LoopBody(loop, q, i, x) ==
    CASE loop = "UnlockRefID"   -> Unlock(q, x)
      [] loop = "Display"       -> DisplayNode(q, i)
      [] loop = "Flush"         -> RemoveHead(q)
      [] loop = "RemoveUseless" -> RemoveIfUseless(q, x)
      [] loop = "MakeRoom"      -> Bump(q, x)
      [] loop = "RefList"       -> ListIfRef(q, x)

\* r[i] is what i turns of the loop make of m.
IsLoop(r, loop, m, xs, n) ==
    r = [i \in 0 .. n |-> IF i = 0 THEN m ELSE LoopBody(loop, r[i - 1], i, xs[i])]

\* The same, without its domain.
Turns(r, loop, m, xs, n) ==
    r[0] = m /\ \A i \in 1 .. n : r[i] = LoopBody(loop, r[i - 1], i, xs[i])

\* The function of the values of a loop after each of its turns exists.
LEMMA LoopExists ==
  ASSUME NEW loop, NEW m, NEW xs, NEW n \in Nat
  PROVE  \E r : IsLoop(r, loop, m, xs, n)
  <1> DEFINE Body(q, i) == LoopBody(loop, q, i, xs[i])
             Is(r, k) == r = [i \in 0 .. k |-> IF i = 0 THEN m ELSE Body(r[i - 1], i)]
             Bad == {k \in Nat : ~\E r : Is(r, k)}
  <1> HIDE DEF Body
  <1>1. SUFFICES ASSUME n \in Bad PROVE FALSE
    BY DEF Bad, Body, IsLoop
  <1>2. PICK k \in Bad : \A j \in Bad : k <= j
    <2>1. Bad \in SUBSET Nat /\ Bad # {}
      BY <1>1
    <2> HIDE DEF Bad
    <2> QED BY <2>1, LeastExists
  <1>3. CASE k = 0
    <2>1. Is([i \in 0 .. 0 |-> m], 0)
      OBVIOUS
    <2> HIDE DEF Is
    <2> QED BY <1>2, <1>3, <2>1
  <1>4. CASE k # 0
    <2>1. k \in Nat /\ k - 1 \in Nat /\ k - 1 \notin Bad
      <3>1. k \in Nat
        BY <1>2
      <3> HIDE DEF Bad
      <3> QED BY <1>2, <1>4, <3>1
    <2>2. PICK r : Is(r, k - 1)
      BY <2>1
    <2> DEFINE q == [i \in 0 .. k |-> IF i = 0 THEN m ELSE Body(r[i - 1], i)]
    <2>3. ASSUME NEW i \in 0 .. k - 1 PROVE q[i] = r[i]
      <3>1. r[i] = IF i = 0 THEN m ELSE Body(r[i - 1], i)
        BY <2>2, <2>3
      <3>2. i \in 0 .. k
        BY <2>1, <2>3
      <3> QED BY <3>1, <3>2
    <2>4. \A i \in 0 .. k : i # 0 => q[i - 1] = r[i - 1]
      <3> HIDE DEF q
      <3> QED BY <1>2, <2>1, <2>3
    <2>5. q = [i \in 0 .. k |-> IF i = 0 THEN m ELSE Body(q[i - 1], i)]
      <3> DEFINE h == q
      <3>1. \A i \in 0 .. k : h[i] = IF i = 0 THEN m ELSE Body(r[i - 1], i)
        OBVIOUS
      <3>2. h = [i \in 0 .. k |-> h[i]]
        OBVIOUS
      <3> HIDE DEF h
      <3>3. \A i \in 0 .. k : i # 0 => h[i - 1] = r[i - 1]
        BY <2>4 DEF h
      <3>4. h = [i \in 0 .. k |-> IF i = 0 THEN m ELSE Body(h[i - 1], i)]
        BY <3>1, <3>2, <3>3
      <3> QED BY <3>4 DEF h
    <2>6. Is(q, k)
      BY <2>5
    <2> HIDE DEF Is, q
    <2> QED BY <1>2, <2>6
  <1> QED BY <1>3, <1>4

\* The turns of a loop, one by one.
LEMMA LoopTurns ==
  ASSUME NEW r, NEW loop, NEW m, NEW xs, NEW n \in Nat, IsLoop(r, loop, m, xs, n)
  PROVE  Turns(r, loop, m, xs, n)
  <1> DEFINE F == [i \in 0 .. n |-> IF i = 0 THEN m ELSE LoopBody(loop, r[i - 1], i, xs[i])]
  <1>1. r = F
    BY DEF IsLoop
  <1>2. ASSUME NEW i \in 0 .. n
        PROVE  F[i] = IF i = 0 THEN m ELSE LoopBody(loop, r[i - 1], i, xs[i])
    OBVIOUS
  <1> HIDE DEF F
  <1>3. F[0] = m
    BY <1>2
  <1>4. ASSUME NEW i \in 1 .. n PROVE F[i] = LoopBody(loop, r[i - 1], i, xs[i])
    <2>1. i \in 0 .. n /\ i # 0
      OBVIOUS
    <2> QED BY <1>2, <2>1
  <1> QED BY <1>1, <1>3, <1>4 DEF Turns

\* AL_PictMngr_UnlockRefID is a loop over the list.
LEMMA UnlockSteps ==
  ASSUME NEW m, NEW list, Len(list) \in Nat
  PROVE  \E r : Turns(r, "UnlockRefID", m, list, Len(list)) /\ UnlockRefID(m, list) = r[Len(list)]
  <1> DEFINE n == Len(list)
             Is(r) == r = [i \in 0 .. n |-> IF i = 0 THEN m ELSE Unlock(r[i - 1], list[i])]
             r == CHOOSE r : Is(r)
  <1>1. PICK q : IsLoop(q, "UnlockRefID", m, list, n)
    BY LoopExists
  <1>2. Is(q)
    BY <1>1 DEF IsLoop, LoopBody
  <1>3. Is(r)
    <2> HIDE DEF Is
    <2> QED BY <1>2
  <1>4. UnlockRefID(m, list) = r[n]
    BY DEF UnlockRefID
  <1> HIDE DEF r
  <1>5. n \in Nat /\ IsLoop(r, "UnlockRefID", m, list, n)
    BY <1>3 DEF IsLoop, LoopBody
  <1>6. Turns(r, "UnlockRefID", m, list, n)
    BY <1>5, LoopTurns
  <1> QED BY <1>4, <1>6

\* AL_Dpb_Display goes over the nodes, up to k.
LEMMA DisplaySteps ==
  ASSUME NEW m, NEW k, k \in Nat
  PROVE  \E r : Turns(r, "Display", m, m.nodes, k) /\ Display(m, k) = r[k]
  <1> DEFINE n == k
             Is(r) == r = [i \in 0 .. n |-> IF i = 0 THEN m ELSE DisplayNode(r[i - 1], i)]
             r == CHOOSE r : Is(r)
  <1>1. PICK q : IsLoop(q, "Display", m, m.nodes, n)
    BY LoopExists
  <1>2. Is(q)
    BY <1>1 DEF IsLoop, LoopBody
  <1>3. Is(r)
    <2> HIDE DEF Is
    <2> QED BY <1>2
  <1>4. Display(m, k) = r[n]
    BY DEF Display
  <1> HIDE DEF r
  <1>5. n \in Nat /\ IsLoop(r, "Display", m, m.nodes, n)
    BY <1>3 DEF IsLoop, LoopBody
  <1>6. Turns(r, "Display", m, m.nodes, n)
    BY <1>5, LoopTurns
  <1> QED BY <1>4, <1>6

\* sApiFlush removes the head once for each node.
LEMMA FlushSteps ==
  ASSUME NEW m, Len(m.nodes) \in Nat
  PROVE  \E r : Turns(r, "Flush", m, m.nodes, Len(m.nodes)) /\ Flush(m) = r[Len(m.nodes)]
  <1> DEFINE n == Len(m.nodes)
             Is(r) == r = [i \in 0 .. n |-> IF i = 0 THEN m ELSE RemoveHead(r[i - 1])]
             r == CHOOSE r : Is(r)
  <1>1. PICK q : IsLoop(q, "Flush", m, m.nodes, n)
    BY LoopExists
  <1>2. Is(q)
    BY <1>1 DEF IsLoop, LoopBody
  <1>3. Is(r)
    <2> HIDE DEF Is
    <2> QED BY <1>2
  <1>4. Flush(m) = r[n]
    BY DEF Flush
  <1> HIDE DEF r
  <1>5. n \in Nat /\ IsLoop(r, "Flush", m, m.nodes, n)
    BY <1>3 DEF IsLoop, LoopBody
  <1>6. Turns(r, "Flush", m, m.nodes, n)
    BY <1>5, LoopTurns
  <1> QED BY <1>4, <1>6

\* The first loop of AL_Dpb_AVC_Cleanup looks at each node once.
LEMMA RemoveUselessSteps ==
  ASSUME NEW m, Len(m.nodes) \in Nat
  PROVE  \E r : Turns(r, "RemoveUseless", m, m.nodes, Len(m.nodes)) /\ RemoveUseless(m) = r[Len(m.nodes)]
  <1> DEFINE n == Len(m.nodes)
             Is(r) == r = [i \in 0 .. n |-> IF i = 0 THEN m ELSE RemoveIfUseless(r[i - 1], m.nodes[i])]
             r == CHOOSE r : Is(r)
  <1>1. PICK q : IsLoop(q, "RemoveUseless", m, m.nodes, n)
    BY LoopExists
  <1>2. Is(q)
    BY <1>1 DEF IsLoop, LoopBody
  <1>3. Is(r)
    <2> HIDE DEF Is
    <2> QED BY <1>2
  <1>4. RemoveUseless(m) = r[n]
    BY DEF RemoveUseless
  <1> HIDE DEF r
  <1>5. n \in Nat /\ IsLoop(r, "RemoveUseless", m, m.nodes, n)
    BY <1>3 DEF IsLoop, LoopBody
  <1>6. Turns(r, "RemoveUseless", m, m.nodes, n)
    BY <1>5, LoopTurns
  <1> QED BY <1>4, <1>6

\* So does the second, which displays and removes while the DPB is too full.
LEMMA MakeRoomSteps ==
  ASSUME NEW m, Len(m.nodes) \in Nat
  PROVE  \E r : Turns(r, "MakeRoom", m, m.nodes, Len(m.nodes)) /\ MakeRoom(m) = r[Len(m.nodes)]
  <1> DEFINE n == Len(m.nodes)
             Is(r) == r = [i \in 0 .. n |-> IF i = 0 THEN m ELSE Bump(r[i - 1], m.nodes[i])]
             r == CHOOSE r : Is(r)
  <1>1. PICK q : IsLoop(q, "MakeRoom", m, m.nodes, n)
    BY LoopExists
  <1>2. Is(q)
    BY <1>1 DEF IsLoop, LoopBody
  <1>3. Is(r)
    <2> HIDE DEF Is
    <2> QED BY <1>2
  <1>4. MakeRoom(m) = r[n]
    BY DEF MakeRoom
  <1> HIDE DEF r
  <1>5. n \in Nat /\ IsLoop(r, "MakeRoom", m, m.nodes, n)
    BY <1>3 DEF IsLoop, LoopBody
  <1>6. Turns(r, "MakeRoom", m, m.nodes, n)
    BY <1>5, LoopTurns
  <1> QED BY <1>4, <1>6

\* AL_InitRefBuffers lists the references in one pass over the nodes.
LEMMA RefListSteps ==
  ASSUME NEW m, Len(m.nodes) \in Nat
  PROVE  \E r : Turns(r, "RefList", <<>>, m.nodes, Len(m.nodes)) /\ RefList(m) = r[Len(m.nodes)]
  <1> DEFINE n == Len(m.nodes)
             Is(r) == r = [i \in 0 .. n |-> IF i = 0 THEN <<>> ELSE ListIfRef(r[i - 1], m.nodes[i])]
             r == CHOOSE r : Is(r)
  <1>1. PICK q : IsLoop(q, "RefList", <<>>, m.nodes, n)
    BY LoopExists
  <1>2. Is(q)
    BY <1>1 DEF IsLoop, LoopBody
  <1>3. Is(r)
    <2> HIDE DEF Is
    <2> QED BY <1>2
  <1>4. RefList(m) = r[n]
    BY DEF RefList
  <1> HIDE DEF r
  <1>5. n \in Nat /\ IsLoop(r, "RefList", <<>>, m.nodes, n)
    BY <1>3 DEF IsLoop, LoopBody
  <1>6. Turns(r, "RefList", <<>>, m.nodes, n)
    BY <1>5, LoopTurns
  <1> QED BY <1>4, <1>6

---------------------------------------------------------------------------
(* What the parts of the picture manager refer to *)

\* The counts of references, outputs and marks of a sequence are numbers, 0 when there is none.
LEMMA RefsType ==
  ASSUME NEW S, NEW s \in Seq(S)
  PROVE  /\ \A f : FrmRefs(s, f) \in Nat /\ (FrmRefs(s, f) = 0 <=> f \notin FramesOf(s))
         /\ \A a : MvRefs(s, a) \in Nat /\ (MvRefs(s, a) = 0 <=> \A i \in DOMAIN s : s[i].mv # a)
         /\ \A f : FifoRefs(s, f) \in Nat /\ (FifoRefs(s, f) = 0 <=> f \notin Range(s))
         /\ NumOutput(s) \in Nat /\ (NumOutput(s) = 0 <=> \A i \in DOMAIN s : ~s[i].bPicOutputFlag)
         /\ NumRef(s) \in Nat /\ NumRef(s) <= Len(s)
         /\ (\A i \in DOMAIN s : s[i].isRef) => NumRef(s) = Len(s)
  <1>1. \A i \in DOMAIN s : s[i] \in S
    BY LenProperties, ElementOfSeq
  <1>2. ASSUME NEW f
        PROVE  FrmRefs(s, f) \in Nat /\ (FrmRefs(s, f) = 0 <=> f \notin FramesOf(s))
    <2> DEFINE T == {e \in S : e.frm = f}
    <2>1. FrmRefs(s, f) = Count(s, T)
      <3>1. {i \in DOMAIN s : s[i].frm = f} = {i \in DOMAIN s : s[i] \in T}
        BY <1>1
      <3> QED BY <3>1 DEF FrmRefs, Occurrences, Count
    <2>2. Count(s, T) \in Nat /\ (Count(s, T) = 0 <=> \A i \in DOMAIN s : s[i] \notin T)
      BY CountType
    <2> QED BY <1>1, <2>1, <2>2 DEF FramesOf
  <1>3. ASSUME NEW a
        PROVE  MvRefs(s, a) \in Nat /\ (MvRefs(s, a) = 0 <=> \A i \in DOMAIN s : s[i].mv # a)
    <2> DEFINE T == {e \in S : e.mv = a}
    <2>1. MvRefs(s, a) = Count(s, T)
      <3>1. {i \in DOMAIN s : s[i].mv = a} = {i \in DOMAIN s : s[i] \in T}
        BY <1>1
      <3> QED BY <3>1 DEF MvRefs, Occurrences, Count
    <2>2. Count(s, T) \in Nat /\ (Count(s, T) = 0 <=> \A i \in DOMAIN s : s[i] \notin T)
      BY CountType
    <2> QED BY <1>1, <2>1, <2>2
  <1>4. ASSUME NEW f
        PROVE  FifoRefs(s, f) \in Nat /\ (FifoRefs(s, f) = 0 <=> f \notin Range(s))
    <2>1. FifoRefs(s, f) = Count(s, {f})
      <3>1. {i \in DOMAIN s : s[i] = f} = {i \in DOMAIN s : s[i] \in {f}}
        OBVIOUS
      <3> QED BY <3>1 DEF FifoRefs, Occurrences, Count
    <2>2. Count(s, {f}) \in Nat /\ (Count(s, {f}) = 0 <=> \A i \in DOMAIN s : s[i] \notin {f})
      BY CountType
    <2> QED BY <2>1, <2>2 DEF Range
  <1>5. NumOutput(s) \in Nat /\ (NumOutput(s) = 0 <=> \A i \in DOMAIN s : ~s[i].bPicOutputFlag)
    <2> DEFINE T == {e \in S : e.bPicOutputFlag}
    <2>1. NumOutput(s) = Count(s, T)
      <3>1. {i \in DOMAIN s : s[i].bPicOutputFlag} = {i \in DOMAIN s : s[i] \in T}
        BY <1>1
      <3> QED BY <3>1 DEF NumOutput, Occurrences, Count
    <2>2. Count(s, T) \in Nat /\ (Count(s, T) = 0 <=> \A i \in DOMAIN s : s[i] \notin T)
      BY CountType
    <2> QED BY <1>1, <2>1, <2>2
  <1>6. /\ NumRef(s) \in Nat /\ NumRef(s) <= Len(s)
        /\ (\A i \in DOMAIN s : s[i].isRef) => NumRef(s) = Len(s)
    <2> DEFINE T == {e \in S : e.isRef}
    <2>1. NumRef(s) = Count(s, T)
      <3>1. {i \in DOMAIN s : s[i].isRef} = {i \in DOMAIN s : s[i] \in T}
        BY <1>1
      <3> QED BY <3>1 DEF NumRef, Occurrences, Count
    <2>2. /\ Count(s, T) \in Nat /\ Count(s, T) <= Len(s)
          /\ (\A i \in DOMAIN s : s[i] \in T) => Count(s, T) = Len(s)
      BY CountType
    <2> QED BY <1>1, <2>1, <2>2
  <1> QED BY <1>2, <1>3, <1>4, <1>5, <1>6

\* What one more element adds to each of the counts.
LEMMA RefsGrown ==
  ASSUME NEW S, NEW s \in Seq(S), NEW t \in Seq(S), NEW i, Grown(s, t, i)
  PROVE  /\ \A f : FrmRefs(t, f) = FrmRefs(s, f) + (IF t[i].frm = f THEN 1 ELSE 0)
         /\ \A a : MvRefs(t, a) = MvRefs(s, a) + (IF t[i].mv = a THEN 1 ELSE 0)
         /\ \A f : FifoRefs(t, f) = FifoRefs(s, f) + (IF t[i] = f THEN 1 ELSE 0)
         /\ NumOutput(t) = NumOutput(s) + (IF t[i].bPicOutputFlag THEN 1 ELSE 0)
         /\ NumRef(t) = NumRef(s) + (IF t[i].isRef THEN 1 ELSE 0)
  <1>1. /\ \A j \in DOMAIN s : s[j] \in S
        /\ \A j \in DOMAIN t : t[j] \in S
        /\ t[i] \in S
    BY LenProperties, ElementOfSeq DEF Grown
  <1>2. ASSUME NEW f PROVE FrmRefs(t, f) = FrmRefs(s, f) + (IF t[i].frm = f THEN 1 ELSE 0)
    <2> DEFINE T == {e \in S : e.frm = f}
    <2>1. {j \in DOMAIN s : s[j].frm = f} = {j \in DOMAIN s : s[j] \in T}
          /\ {j \in DOMAIN t : t[j].frm = f} = {j \in DOMAIN t : t[j] \in T}
      BY <1>1
    <2>2. FrmRefs(s, f) = Count(s, T) /\ FrmRefs(t, f) = Count(t, T)
      BY <2>1 DEF FrmRefs, Occurrences, Count
    <2>3. Count(t, T) = Count(s, T) + (IF t[i] \in T THEN 1 ELSE 0)
      BY CountGrown
    <2> QED BY <1>1, <2>2, <2>3
  <1>3. ASSUME NEW a PROVE MvRefs(t, a) = MvRefs(s, a) + (IF t[i].mv = a THEN 1 ELSE 0)
    <2> DEFINE T == {e \in S : e.mv = a}
    <2>1. {j \in DOMAIN s : s[j].mv = a} = {j \in DOMAIN s : s[j] \in T}
          /\ {j \in DOMAIN t : t[j].mv = a} = {j \in DOMAIN t : t[j] \in T}
      BY <1>1
    <2>2. MvRefs(s, a) = Count(s, T) /\ MvRefs(t, a) = Count(t, T)
      BY <2>1 DEF MvRefs, Occurrences, Count
    <2>3. Count(t, T) = Count(s, T) + (IF t[i] \in T THEN 1 ELSE 0)
      BY CountGrown
    <2> QED BY <1>1, <2>2, <2>3
  <1>4. ASSUME NEW f PROVE FifoRefs(t, f) = FifoRefs(s, f) + (IF t[i] = f THEN 1 ELSE 0)
    <2>1. FifoRefs(s, f) = Count(s, {f}) /\ FifoRefs(t, f) = Count(t, {f})
      <3>1. {j \in DOMAIN s : s[j] = f} = {j \in DOMAIN s : s[j] \in {f}}
            /\ {j \in DOMAIN t : t[j] = f} = {j \in DOMAIN t : t[j] \in {f}}
        OBVIOUS
      <3> QED BY <3>1 DEF FifoRefs, Occurrences, Count
    <2>2. Count(t, {f}) = Count(s, {f}) + (IF t[i] \in {f} THEN 1 ELSE 0)
      BY CountGrown
    <2> QED BY <2>1, <2>2
  <1>5. NumOutput(t) = NumOutput(s) + (IF t[i].bPicOutputFlag THEN 1 ELSE 0)
    <2> DEFINE T == {e \in S : e.bPicOutputFlag}
    <2>1. {j \in DOMAIN s : s[j].bPicOutputFlag} = {j \in DOMAIN s : s[j] \in T}
          /\ {j \in DOMAIN t : t[j].bPicOutputFlag} = {j \in DOMAIN t : t[j] \in T}
      BY <1>1
    <2>2. NumOutput(s) = Count(s, T) /\ NumOutput(t) = Count(t, T)
      BY <2>1 DEF NumOutput, Occurrences, Count
    <2>3. Count(t, T) = Count(s, T) + (IF t[i] \in T THEN 1 ELSE 0)
      BY CountGrown
    <2> QED BY <1>1, <2>2, <2>3
  <1>6. NumRef(t) = NumRef(s) + (IF t[i].isRef THEN 1 ELSE 0)
    <2> DEFINE T == {e \in S : e.isRef}
    <2>1. {j \in DOMAIN s : s[j].isRef} = {j \in DOMAIN s : s[j] \in T}
          /\ {j \in DOMAIN t : t[j].isRef} = {j \in DOMAIN t : t[j] \in T}
      BY <1>1
    <2>2. NumRef(s) = Count(s, T) /\ NumRef(t) = Count(t, T)
      BY <2>1 DEF NumRef, Occurrences, Count
    <2>3. Count(t, T) = Count(s, T) + (IF t[i] \in T THEN 1 ELSE 0)
      BY CountGrown
    <2> QED BY <1>1, <2>2, <2>3
  <1> QED BY <1>2, <1>3, <1>4, <1>5, <1>6

\* Element i is replaced by one that differs in its flags only.
LEMMA RefsReplaced ==
  ASSUME NEW S, NEW s \in Seq(S), NEW i \in DOMAIN s, NEW e \in S,
         e.frm = s[i].frm, e.mv = s[i].mv,
         NEW t, t = [s EXCEPT ![i] = e]
  PROVE  /\ t \in Seq(S) /\ Len(t) = Len(s)
         /\ \A f : FrmRefs(t, f) = FrmRefs(s, f)
         /\ \A a : MvRefs(t, a) = MvRefs(s, a)
         /\ ~e.bPicOutputFlag =>
               NumOutput(t) = NumOutput(s) - (IF s[i].bPicOutputFlag THEN 1 ELSE 0)
         /\ ~e.isRef => NumRef(t) = NumRef(s) - (IF s[i].isRef THEN 1 ELSE 0)
         /\ (e.bPicOutputFlag <=> s[i].bPicOutputFlag) => NumOutput(t) = NumOutput(s)
         /\ (e.isRef <=> s[i].isRef) => NumRef(t) = NumRef(s)
  <1>1. DOMAIN s = 1 .. Len(s) /\ Len(s) \in Nat
    BY LenProperties
  <1>2. /\ t \in Seq(S) /\ Len(t) = Len(s)
        /\ \A j \in 1 .. Len(s) : t[j] = IF j = i THEN e ELSE s[j]
    BY <1>1, ExceptSeq
  <1>3. DOMAIN t = DOMAIN s
    OBVIOUS
  <1>4. ASSUME NEW f PROVE FrmRefs(t, f) = FrmRefs(s, f)
    <2>1. {j \in DOMAIN t : t[j].frm = f} = {j \in DOMAIN s : s[j].frm = f}
      BY <1>1, <1>2, <1>3
    <2> QED BY <2>1 DEF FrmRefs, Occurrences
  <1>5. ASSUME NEW a PROVE MvRefs(t, a) = MvRefs(s, a)
    <2>1. {j \in DOMAIN t : t[j].mv = a} = {j \in DOMAIN s : s[j].mv = a}
      BY <1>1, <1>2, <1>3
    <2> QED BY <2>1 DEF MvRefs, Occurrences
  <1> DEFINE I == {j \in DOMAIN s : s[j].bPicOutputFlag}
             I2 == {j \in DOMAIN t : t[j].bPicOutputFlag}
             R == {j \in DOMAIN s : s[j].isRef}
             R2 == {j \in DOMAIN t : t[j].isRef}
  <1>6. IsFiniteSet(I) /\ IsFiniteSet(R)
    <2>1. IsFiniteSet(1 .. Len(s))
      BY <1>1, FS_Interval
    <2> QED BY <1>1, <2>1, FS_Subset
  <1>7. ASSUME ~e.bPicOutputFlag
        PROVE  NumOutput(t) = NumOutput(s) - (IF s[i].bPicOutputFlag THEN 1 ELSE 0)
    <2>1. I2 = I \ {i}
      BY <1>1, <1>2, <1>3, <1>7
    <2>2. Cardinality(I \ {i}) = IF i \in I THEN Cardinality(I) - 1 ELSE Cardinality(I)
      BY <1>6, FS_RemoveElement
    <2>3. Cardinality(I) \in Nat
      BY <1>6, FS_CardinalityType
    <2>4. NumOutput(s) = Cardinality(I) /\ NumOutput(t) = Cardinality(I2)
      BY DEF NumOutput, Occurrences
    <2>5. i \in I <=> s[i].bPicOutputFlag
      OBVIOUS
    <2> HIDE DEF I, I2
    <2> QED BY <2>1, <2>2, <2>3, <2>4, <2>5
  <1>8. ASSUME ~e.isRef PROVE NumRef(t) = NumRef(s) - (IF s[i].isRef THEN 1 ELSE 0)
    <2>1. R2 = R \ {i}
      BY <1>1, <1>2, <1>3, <1>8
    <2>2. Cardinality(R \ {i}) = IF i \in R THEN Cardinality(R) - 1 ELSE Cardinality(R)
      BY <1>6, FS_RemoveElement
    <2>3. Cardinality(R) \in Nat
      BY <1>6, FS_CardinalityType
    <2>4. NumRef(s) = Cardinality(R) /\ NumRef(t) = Cardinality(R2)
      BY DEF NumRef, Occurrences
    <2>5. i \in R <=> s[i].isRef
      OBVIOUS
    <2> HIDE DEF R, R2
    <2> QED BY <2>1, <2>2, <2>3, <2>4, <2>5
  <1>9. ASSUME e.bPicOutputFlag <=> s[i].bPicOutputFlag PROVE NumOutput(t) = NumOutput(s)
    <2>1. I2 = I
      BY <1>1, <1>2, <1>3, <1>9
    <2> QED BY <2>1 DEF NumOutput, Occurrences
  <1>10. ASSUME e.isRef <=> s[i].isRef PROVE NumRef(t) = NumRef(s)
    <2>1. R2 = R
      BY <1>1, <1>2, <1>3, <1>10
    <2> QED BY <2>1 DEF NumRef, Occurrences
  <1>11. t \in Seq(S) /\ Len(t) = Len(s)
    BY <1>2
  <1> QED BY <1>4, <1>5, <1>7, <1>8, <1>9, <1>10, <1>11

---------------------------------------------------------------------------
(* The two pools *)

\* The counts of the DPB are 0 for a frame that is in none of its parts.
LEMMA DpbRefsType ==
  ASSUME NEW m \in PictMngrs
  PROVE  /\ \A f : DpbFrm(m, f) \in Nat
         /\ \A f : DpbFrm(m, f) = 0 <=> /\ f \notin FramesOf(m.nodes)
                                         /\ f \notin FramesOf(m.deleted)
                                         /\ f \notin Range(m.dispFifo)
         /\ \A a : DpbMv(m, a) \in Nat
         /\ \A i \in DOMAIN m.nodes : DpbMv(m, m.nodes[i].mv) > 0
  <1>1. m.nodes \in Seq(Node) /\ m.deleted \in Seq(Entry) /\ m.dispFifo \in Seq(Frm)
    BY DEF PictMngrs
  <1>2. /\ \A f : FrmRefs(m.nodes, f) \in Nat
                  /\ (FrmRefs(m.nodes, f) = 0 <=> f \notin FramesOf(m.nodes))
        /\ \A f : FrmRefs(m.deleted, f) \in Nat
                  /\ (FrmRefs(m.deleted, f) = 0 <=> f \notin FramesOf(m.deleted))
        /\ \A f : FifoRefs(m.dispFifo, f) \in Nat
                  /\ (FifoRefs(m.dispFifo, f) = 0 <=> f \notin Range(m.dispFifo))
        /\ \A a : MvRefs(m.nodes, a) \in Nat
                  /\ (MvRefs(m.nodes, a) = 0 <=> \A i \in DOMAIN m.nodes : m.nodes[i].mv # a)
        /\ \A a : MvRefs(m.deleted, a) \in Nat
    BY <1>1, RefsType
  <1> QED BY <1>2 DEF DpbFrm, DpbMv

\* H counts one reference to x more than H2.
OneMore(D, H, H2, x) ==
    /\ x \in D /\ H \in [D -> Nat] /\ H2 \in [D -> Nat]
    /\ \A y \in D : H[y] = H2[y] + (IF y = x THEN 1 ELSE 0)

\* A reference to a frame is given back.
LEMMA FrmReleased ==
  ASSUME NEW m, NEW H, NEW K, NEW U, NEW shown, NEW N,
         MngrInv(m, H, K, U, shown, N),
         NEW f, NEW H2,
         OneMore(Frm, H, H2, f)
  PROVE  /\ MngrInv(DecrementFrm(m, f), H2, K, U, shown, N)
         /\ DecrementFrm(m, f).nodes = m.nodes
         /\ DecrementFrm(m, f).dispFifo = m.dispFifo
         /\ DecrementFrm(m, f).deleted = m.deleted
         /\ DecrementFrm(m, f).pFrmStatus = m.pFrmStatus
  <1>0. f \in Frm /\ H \in [Frm -> Nat] /\ H2 \in [Frm -> Nat]
    BY DEF OneMore
  <1> DEFINE q == DecrementFrm(m, f)
             n == m.iAccessCnt[f]
  <1>1. /\ m \in PictMngrs
        /\ m.iAccessCnt \in [Frm -> Nat \cup {-1}] /\ m.bToBeDisplayed \in [Frm -> BOOLEAN]
        /\ m.avail \in Seq(Frm)
    BY DEF MngrInv, PictMngrs
  <1>2. /\ \A g \in Frm : DpbFrm(m, g) \in Nat
        /\ \A g \in Range(m.dispFifo) : DpbFrm(m, g) > 0
    BY <1>0, <1>1, DpbRefsType
  <1>3. n = H[f] + DpbFrm(m, f) /\ n \in Nat /\ n > 0
    BY <1>0, <1>1, <1>2 DEF MngrInv, Counted, OneMore
  <1>4. /\ q.nodes = m.nodes /\ q.dispFifo = m.dispFifo /\ q.deleted = m.deleted
        /\ q.pFrmStatus = m.pFrmStatus /\ q.mvAccessCnt = m.mvAccessCnt
        /\ q.mvFree = m.mvFree
        /\ \A g \in Frm : g # f => q.iAccessCnt[g] = m.iAccessCnt[g]
                                   /\ q.bToBeDisplayed[g] = m.bToBeDisplayed[g]
        /\ q.iAccessCnt[f] = IF n = 1 /\ m.bToBeDisplayed[f] THEN -1 ELSE n - 1
        /\ q.bToBeDisplayed[f] <=> m.bToBeDisplayed[f] /\ n # 1
        /\ q.avail = IF n = 1 /\ ~m.bToBeDisplayed[f] THEN Append(m.avail, f) ELSE m.avail
        /\ q \in PictMngrs
    <2>0. Append(m.avail, f) \in Seq(Frm)
      BY <1>0, <1>1, AppendProperties
    <2>1. CASE n # 1
      <3>1. q = [m EXCEPT !.iAccessCnt[f] = @ - 1]
        BY <2>1 DEF DecrementFrm
      <3> HIDE DEF q
      <3>2. /\ q.nodes = m.nodes /\ q.dispFifo = m.dispFifo /\ q.deleted = m.deleted
            /\ q.pFrmStatus = m.pFrmStatus /\ q.mvAccessCnt = m.mvAccessCnt
            /\ q.mvFree = m.mvFree
            /\ q.iAccessCnt = [m.iAccessCnt EXCEPT ![f] = n - 1]
            /\ q.bToBeDisplayed = m.bToBeDisplayed /\ q.avail = m.avail
            /\ q \in PictMngrs
        <4>1. n - 1 \in Nat
          BY <1>0, <1>3
        <4>2. [m.iAccessCnt EXCEPT ![f] = n - 1] \in [Frm -> Nat \cup {-1}]
          BY <1>0, <1>1, <4>1
        <4>3. q = [m EXCEPT !.iAccessCnt = [m.iAccessCnt EXCEPT ![f] = n - 1]]
          BY <3>1
        <4> HIDE DEF n
        <4> QED BY <1>0, <1>1, <4>2, <4>3 DEF PictMngrs
      <3> QED BY <1>0, <1>1, <1>3, <2>1, <3>2
    <2>2. CASE n = 1 /\ m.bToBeDisplayed[f]
      <3>1. q = [m EXCEPT !.iAccessCnt[f] = -1, !.bToBeDisplayed[f] = FALSE]
        BY <2>2 DEF DecrementFrm
      <3> HIDE DEF q
      <3>2. /\ q.nodes = m.nodes /\ q.dispFifo = m.dispFifo /\ q.deleted = m.deleted
            /\ q.pFrmStatus = m.pFrmStatus /\ q.mvAccessCnt = m.mvAccessCnt
            /\ q.mvFree = m.mvFree
            /\ q.iAccessCnt = [m.iAccessCnt EXCEPT ![f] = -1]
            /\ q.bToBeDisplayed = [m.bToBeDisplayed EXCEPT ![f] = FALSE] /\ q.avail = m.avail
            /\ q \in PictMngrs
        BY <1>0, <1>1, <1>3, <2>0, <2>2, <3>1 DEF PictMngrs
      <3> QED BY <1>0, <1>1, <1>3, <2>2, <3>2
    <2>3. CASE n = 1 /\ ~m.bToBeDisplayed[f]
      <3>1. q = [m EXCEPT !.iAccessCnt[f] = 0, !.avail = Append(@, f)]
        BY <2>3 DEF DecrementFrm
      <3> HIDE DEF q
      <3>2. /\ q.nodes = m.nodes /\ q.dispFifo = m.dispFifo /\ q.deleted = m.deleted
            /\ q.pFrmStatus = m.pFrmStatus /\ q.mvAccessCnt = m.mvAccessCnt
            /\ q.mvFree = m.mvFree
            /\ q.iAccessCnt = [m.iAccessCnt EXCEPT ![f] = 0]
            /\ q.bToBeDisplayed = m.bToBeDisplayed /\ q.avail = Append(m.avail, f)
            /\ q \in PictMngrs
        BY <1>0, <1>1, <1>3, <2>0, <2>3, <3>1 DEF PictMngrs
      <3> QED BY <1>0, <1>1, <1>3, <2>3, <3>2
    <2> QED BY <2>1, <2>2, <2>3
  <1> HIDE DEF q
  <1>6. \A g : DpbFrm(q, g) = DpbFrm(m, g)
    BY <1>0, <1>4 DEF DpbFrm
  <1>7. Counted(q, H2, K)
    <2>1. \A a \in Annex : q.mvAccessCnt[a] = K[a] + DpbMv(q, a)
      BY <1>0, <1>4 DEF MngrInv, Counted, DpbMv
    <2>2. ASSUME NEW g \in Frm
          PROVE  /\ q.iAccessCnt[g] \in {H2[g] + DpbFrm(q, g), -1}
                 /\ q.iAccessCnt[g] = -1 => H2[g] + DpbFrm(q, g) = 0
      <3>1. CASE g = f
        <4>1. H2[g] + DpbFrm(q, g) = n - 1
          BY <1>0, <1>2, <1>3, <1>6, <3>1 DEF OneMore
        <4> QED BY <1>0, <1>3, <1>4, <3>1, <4>1
      <3>2. CASE g # f
        BY <1>0, <1>4, <1>6, <3>2 DEF MngrInv, Counted, OneMore
      <3> QED BY <3>1, <3>2
    <2> QED BY <2>1, <2>2 DEF Counted
  <1>8. AvailableIsFree(q)
    <2>1. f \notin Range(m.avail)
      BY <1>0, <1>3 DEF MngrInv, AvailableIsFree, Range
    <2>2. IsInjective(m.avail) /\ \A i \in DOMAIN m.avail : m.avail[i] \in Frm
      BY <1>0, <1>1, LenProperties, ElementOfSeq DEF MngrInv, AvailableIsFree
    <2>3. \A g \in Range(m.avail) : q.iAccessCnt[g] = 0
      <3>1. \A g \in Range(m.avail) : g # f /\ g \in Frm /\ m.iAccessCnt[g] = 0
        BY <2>1, <2>2 DEF MngrInv, AvailableIsFree, Range
      <3> QED BY <1>0, <1>4, <3>1
    <2>4. IsInjective(q.avail) /\ \A i \in DOMAIN q.avail : q.iAccessCnt[q.avail[i]] = 0
      <3>1. CASE q.avail = m.avail
        BY <2>2, <2>3, <3>1 DEF Range
      <3>2. CASE q.avail # m.avail
        <4>1. q.avail = Append(m.avail, f) /\ q.iAccessCnt[f] = 0
          BY <1>0, <1>3, <1>4, <3>2
        <4>2. IsInjective(q.avail) /\ Range(q.avail) = Range(m.avail) \cup {f}
          BY <1>0, <1>1, <2>1, <2>2, <4>1, AppendRange
        <4>3. \A i \in DOMAIN q.avail : q.avail[i] = f \/ q.avail[i] \in Range(m.avail)
          BY <4>2 DEF Range
        <4> QED BY <2>3, <4>1, <4>2, <4>3
      <3> QED BY <3>1, <3>2
    <2> QED BY <1>0, <1>4, <2>4 DEF MngrInv, AvailableIsFree
  <1>9. UserIsKnown(q, U)
    <2> SUFFICES ASSUME NEW g \in U, ~(q.iAccessCnt[g] = -1)
                 PROVE  q.iAccessCnt[g] > 0 /\ q.bToBeDisplayed[g]
      BY DEF MngrInv, UserIsKnown
    <2>1. m.iAccessCnt[g] = -1 \/ (m.iAccessCnt[g] > 0 /\ m.bToBeDisplayed[g])
      BY DEF MngrInv, UserIsKnown
    <2>2. CASE g = f
      BY <1>0, <1>3, <1>4, <2>1, <2>2
    <2>3. CASE g # f
      BY <1>0, <1>4, <2>1, <2>3 DEF MngrInv, UserIsKnown
    <2> QED BY <2>2, <2>3
  <1>10. QueuedOnce(q, U, shown)
    <2>1. ASSUME NEW i \in DOMAIN m.dispFifo, i > shown
          PROVE  q.bToBeDisplayed[m.dispFifo[i]] /\ m.dispFifo[i] \notin U
      <3>1. m.bToBeDisplayed[m.dispFifo[i]] /\ m.dispFifo[i] \notin U
        BY <2>1 DEF MngrInv, QueuedOnce
      <3>2. m.dispFifo[i] \in Frm /\ DpbFrm(m, m.dispFifo[i]) > 0
        <4>1. m.dispFifo \in Seq(Frm)
          BY <1>0, <1>1 DEF PictMngrs
        <4> QED BY <1>0, <1>2, <4>1, LenProperties, ElementOfSeq DEF Range
      <3>3. CASE m.dispFifo[i] = f
        <4>1. n # 1
          BY <1>0, <1>2, <1>3, <3>2, <3>3 DEF OneMore
        <4> QED BY <1>0, <1>4, <3>1, <3>3, <4>1
      <3>4. CASE m.dispFifo[i] # f
        BY <1>0, <1>4, <3>1, <3>2, <3>4
      <3> QED BY <3>3, <3>4
    <2> QED BY <1>0, <1>4, <2>1 DEF MngrInv, QueuedOnce
  <1>11. StatusIsKnown(q, U, shown, N)
    BY <1>0, <1>4 DEF MngrInv, StatusIsKnown
  <1> QED BY <1>0, <1>4, <1>7, <1>8, <1>9, <1>10, <1>11 DEF MngrInv, q

\* A reference to an annex buffer is given back.
LEMMA MvReleased ==
  ASSUME NEW m, NEW H, NEW K, NEW U, NEW shown, NEW N,
         MngrInv(m, H, K, U, shown, N),
         NEW a, NEW K2,
         OneMore(Annex, K, K2, a)
  PROVE  /\ MngrInv(DecrementAnnex(m, a), H, K2, U, shown, N)
         /\ DecrementAnnex(m, a).nodes = m.nodes
         /\ DecrementAnnex(m, a).dispFifo = m.dispFifo
         /\ DecrementAnnex(m, a).deleted = m.deleted
         /\ DecrementAnnex(m, a).pFrmStatus = m.pFrmStatus
  <1>0. a \in Annex /\ K \in [Annex -> Nat] /\ K2 \in [Annex -> Nat]
    BY DEF OneMore
  <1> DEFINE q == DecrementAnnex(m, a)
             n == m.mvAccessCnt[a]
  <1>1. m \in PictMngrs /\ m.mvAccessCnt \in [Annex -> Nat] /\ m.mvFree \in Seq(Annex)
    BY DEF MngrInv, PictMngrs
  <1>2. \A b \in Annex : DpbMv(m, b) \in Nat /\ m.mvAccessCnt[b] = K[b] + DpbMv(m, b)
    BY <1>0, <1>1, DpbRefsType DEF MngrInv, Counted
  <1>3. n \in Nat /\ n > 0
    BY <1>0, <1>1, <1>2 DEF OneMore
  <1>4. /\ q.nodes = m.nodes /\ q.dispFifo = m.dispFifo /\ q.deleted = m.deleted
        /\ q.pFrmStatus = m.pFrmStatus /\ q.iAccessCnt = m.iAccessCnt
        /\ q.bToBeDisplayed = m.bToBeDisplayed /\ q.avail = m.avail
        /\ q.mvAccessCnt = [m.mvAccessCnt EXCEPT ![a] = n - 1]
        /\ q.mvFree = IF n = 1 THEN Append(m.mvFree, a) ELSE m.mvFree
        /\ q \in PictMngrs
    <2>1. Append(m.mvFree, a) \in Seq(Annex)
      BY <1>0, <1>1, AppendProperties
    <2>2. n - 1 \in Nat
      BY <1>0, <1>3
    <2>3. [m.mvAccessCnt EXCEPT ![a] = n - 1] \in [Annex -> Nat]
      BY <1>0, <1>1, <2>2
    <2>4. CASE n = 1
      <3>1. q = [m EXCEPT !.mvAccessCnt = [m.mvAccessCnt EXCEPT ![a] = n - 1],
                          !.mvFree = Append(m.mvFree, a)]
        BY <2>4 DEF DecrementAnnex
      <3> HIDE DEF q, n
      <3> QED BY <1>0, <1>1, <2>1, <2>3, <2>4, <3>1 DEF PictMngrs
    <2>5. CASE n # 1
      <3>1. q = [m EXCEPT !.mvAccessCnt = [m.mvAccessCnt EXCEPT ![a] = n - 1]]
        BY <1>0, <1>3, <2>5 DEF DecrementAnnex
      <3> HIDE DEF q, n
      <3> QED BY <1>0, <1>1, <2>3, <2>5, <3>1 DEF PictMngrs
    <2> QED BY <2>4, <2>5
  <1> HIDE DEF q
  <1>5. Counted(q, H, K2)
    <2>1. ASSUME NEW b \in Annex PROVE q.mvAccessCnt[b] = K2[b] + DpbMv(q, b)
      <3>1. DpbMv(q, b) = DpbMv(m, b)
        BY <1>0, <1>4 DEF DpbMv
      <3>2. m.mvAccessCnt[b] = K[b] + DpbMv(m, b) /\ K2[b] \in Nat /\ DpbMv(m, b) \in Nat
        BY <1>0, <1>2
      <3>3. CASE b = a
        <4>1. q.mvAccessCnt[b] = n - 1 /\ K[b] = K2[b] + 1 /\ n = K[b] + DpbMv(m, b)
          BY <1>0, <1>1, <1>4, <3>2, <3>3 DEF OneMore
        <4> HIDE DEF n
        <4> QED BY <3>1, <3>2, <4>1
      <3>4. CASE b # a
        <4>1. q.mvAccessCnt[b] = m.mvAccessCnt[b] /\ K[b] = K2[b]
          BY <1>0, <1>1, <1>4, <3>4 DEF OneMore
        <4> QED BY <3>1, <3>2, <4>1
      <3> QED BY <3>3, <3>4
    <2>2. \A f : DpbFrm(q, f) = DpbFrm(m, f)
      BY <1>0, <1>4 DEF DpbFrm
    <2> QED BY <1>0, <1>4, <2>1, <2>2 DEF MngrInv, Counted
  <1>6. AvailableIsFree(q)
    <2>1. a \notin Range(m.mvFree)
      BY <1>0, <1>3 DEF MngrInv, AvailableIsFree, Range
    <2>2. IsInjective(m.mvFree) /\ \A i \in DOMAIN m.mvFree : m.mvFree[i] \in Annex
      BY <1>0, <1>1, LenProperties, ElementOfSeq DEF MngrInv, AvailableIsFree
    <2>3. \A b \in Range(m.mvFree) : q.mvAccessCnt[b] = 0
      <3>1. \A b \in Range(m.mvFree) : b # a /\ b \in Annex /\ m.mvAccessCnt[b] = 0
        BY <2>1, <2>2 DEF MngrInv, AvailableIsFree, Range
      <3> QED BY <1>0, <1>1, <1>4, <3>1
    <2>4. IsInjective(q.mvFree) /\ \A i \in DOMAIN q.mvFree : q.mvAccessCnt[q.mvFree[i]] = 0
      <3>1. CASE n # 1
        BY <1>0, <1>4, <2>2, <2>3, <3>1 DEF Range
      <3>2. CASE n = 1
        <4>1. q.mvFree = Append(m.mvFree, a) /\ q.mvAccessCnt[a] = 0
          BY <1>0, <1>1, <1>4, <3>2
        <4>2. IsInjective(q.mvFree) /\ Range(q.mvFree) = Range(m.mvFree) \cup {a}
          BY <1>0, <1>1, <2>1, <2>2, <4>1, AppendRange
        <4>3. \A i \in DOMAIN q.mvFree : q.mvFree[i] = a \/ q.mvFree[i] \in Range(m.mvFree)
          BY <4>2 DEF Range
        <4> QED BY <2>3, <4>1, <4>2, <4>3
      <3> QED BY <3>1, <3>2
    <2> QED BY <1>0, <1>4, <2>4 DEF MngrInv, AvailableIsFree
  <1>7. UserIsKnown(q, U)
    BY <1>0, <1>4 DEF MngrInv, UserIsKnown
  <1>8. QueuedOnce(q, U, shown)
    BY <1>0, <1>4 DEF MngrInv, QueuedOnce
  <1>9. StatusIsKnown(q, U, shown, N)
    BY <1>0, <1>4 DEF MngrInv, StatusIsKnown
  <1> QED BY <1>0, <1>4, <1>5, <1>6, <1>7, <1>8, <1>9 DEF MngrInv, q

\* A reference to a frame and to its annex is given back.
LEMMA Unlocked ==
  ASSUME NEW m, NEW H, NEW K, NEW U, NEW shown, NEW N,
         MngrInv(m, H, K, U, shown, N),
         NEW e, NEW H2, NEW K2,
         OneMore(Frm, H, H2, e.frm), OneMore(Annex, K, K2, e.mv)
  PROVE  /\ MngrInv(Unlock(m, e), H2, K2, U, shown, N)
         /\ Unlock(m, e).nodes = m.nodes
         /\ Unlock(m, e).dispFifo = m.dispFifo
         /\ Unlock(m, e).deleted = m.deleted
         /\ Unlock(m, e).pFrmStatus = m.pFrmStatus
  <1> DEFINE q == DecrementFrm(m, e.frm)
  <1>1. /\ MngrInv(q, H2, K, U, shown, N)
        /\ q.nodes = m.nodes /\ q.dispFifo = m.dispFifo /\ q.deleted = m.deleted
        /\ q.pFrmStatus = m.pFrmStatus
    BY FrmReleased
  <1>2. Unlock(m, e) = DecrementAnnex(q, e.mv)
    BY DEF Unlock
  <1> HIDE DEF q
  <1> DEFINE r == DecrementAnnex(q, e.mv)
  <1>3. /\ MngrInv(r, H2, K2, U, shown, N)
        /\ r.nodes = q.nodes /\ r.dispFifo = q.dispFifo /\ r.deleted = q.deleted
        /\ r.pFrmStatus = q.pFrmStatus
    BY <1>1, MvReleased
  <1> HIDE DEF r
  <1> QED BY <1>1, <1>2, <1>3 DEF r

\* A loop that keeps a property in every turn has it after each of them.
LEMMA LoopInduction ==
  ASSUME NEW n \in Nat, NEW G, 0 \in G, \A i \in 1 .. n : i - 1 \in G => i \in G
  PROVE  \A i \in 0 .. n : i \in G
  <1> DEFINE Bad == {i \in 0 .. n : i \notin G}
  <1> SUFFICES ASSUME Bad # {} PROVE FALSE
    OBVIOUS
  <1>1. PICK i \in Bad : \A j \in Bad : i <= j
    <2>1. Bad \in SUBSET Nat
      OBVIOUS
    <2> HIDE DEF Bad
    <2> QED BY <2>1, LeastExists
  <1>2. i \in 1 .. n /\ i - 1 \in 0 .. n /\ i - 1 \notin Bad
    BY <1>1
  <1> QED BY <1>1, <1>2

\* What is left of a list after its i first elements.
LEMMA RestOfList ==
  ASSUME NEW S, NEW s \in Seq(S)
  PROVE  /\ SubSeq(s, 1, Len(s)) = s /\ SubSeq(s, Len(s) + 1, Len(s)) = <<>>
         /\ \A i \in 1 .. Len(s) :
               /\ SubSeq(s, i, Len(s)) \in Seq(S) /\ SubSeq(s, i + 1, Len(s)) \in Seq(S)
               /\ Grown(SubSeq(s, i + 1, Len(s)), SubSeq(s, i, Len(s)), 1)
               /\ SubSeq(s, i, Len(s))[1] = s[i]
  <1> DEFINE n == Len(s)
  <1>1. n \in Nat /\ \A j \in 1 .. n : s[j] \in S
    BY LenProperties, ElementOfSeq
  <1>2. ASSUME NEW i \in 1 .. n + 1
        PROVE  /\ SubSeq(s, i, n) \in Seq(S) /\ Len(SubSeq(s, i, n)) = n - i + 1
               /\ \A j \in 1 .. n - i + 1 : SubSeq(s, i, n)[j] = s[i + j - 1]
    <2>1. i \in Int /\ n \in Int /\ \A j \in i .. n : s[j] \in S
      BY <1>1
    <2>2. /\ SubSeq(s, i, n) \in Seq(S)
          /\ Len(SubSeq(s, i, n)) = (IF i <= n THEN n - i + 1 ELSE 0)
          /\ \A j \in 1 .. n - i + 1 : SubSeq(s, i, n)[j] = s[i + j - 1]
      <3> HIDE DEF n
      <3> QED BY <2>1, SubSeqProperties
    <2> QED BY <1>1, <2>2
  <1>3. SubSeq(s, 1, n) = s
    <2>1. SubSeq(s, 1, n) \in Seq(S) /\ Len(SubSeq(s, 1, n)) = n
          /\ \A j \in 1 .. n : SubSeq(s, 1, n)[j] = s[j]
      BY <1>1, <1>2
    <2> QED BY <2>1, SeqEqual
  <1>4. SubSeq(s, n + 1, n) = <<>>
    BY <1>1, SubSeqEmpty
  <1>5. ASSUME NEW i \in 1 .. n
        PROVE  /\ Grown(SubSeq(s, i + 1, n), SubSeq(s, i, n), 1)
               /\ SubSeq(s, i, n)[1] = s[i]
    <2>1. i \in 1 .. n + 1 /\ i + 1 \in 1 .. n + 1
      BY <1>1
    <2> DEFINE a == SubSeq(s, i, n)
               b == SubSeq(s, i + 1, n)
    <2>2. Len(a) = n - i + 1 /\ \A j \in 1 .. n - i + 1 : a[j] = s[i + j - 1]
      BY <1>2, <2>1
    <2>3. Len(b) = n - (i + 1) + 1 /\ \A j \in 1 .. n - (i + 1) + 1 : b[j] = s[(i + 1) + j - 1]
      BY <1>2, <2>1
    <2> HIDE DEF a, b
    <2>4. Len(a) = Len(b) + 1 /\ Len(b) \in Nat /\ Len(b) = n - i
      BY <1>1, <2>2, <2>3
    <2>5. ASSUME NEW j \in 1 .. Len(b) PROVE a[j + 1] = b[j]
      <3>1. b[j] = s[i + j] /\ a[j + 1] = s[i + (j + 1) - 1]
        BY <1>1, <2>2, <2>3, <2>4
      <3> QED BY <1>1, <2>4, <3>1
    <2> QED BY <1>1, <2>2, <2>4, <2>5 DEF Grown, a, b
  <1> QED BY <1>1, <1>2, <1>3, <1>4, <1>5

\* All the references of a list are given back.
LEMMA AllUnlocked ==
  ASSUME NEW m, NEW H, NEW K, NEW U, NEW shown, NEW N,
         MngrInv(m, H, K, U, shown, N),
         NEW S, NEW list \in Seq(S),
         \A e \in S : e.frm \in Frm /\ e.mv \in Annex,
         NEW H2 \in [Frm -> Nat], NEW K2 \in [Annex -> Nat],
         \A f \in Frm : H[f] = H2[f] + FrmRefs(list, f),
         \A a \in Annex : K[a] = K2[a] + MvRefs(list, a)
  PROVE  /\ MngrInv(UnlockRefID(m, list), H2, K2, U, shown, N)
         /\ UnlockRefID(m, list).nodes = m.nodes
         /\ UnlockRefID(m, list).dispFifo = m.dispFifo
         /\ UnlockRefID(m, list).deleted = m.deleted
         /\ UnlockRefID(m, list).pFrmStatus = m.pFrmStatus
  <1> DEFINE n == Len(list)
             Rest(i) == SubSeq(list, i + 1, n)
             HOf(i) == [f \in Frm |-> H2[f] + FrmRefs(Rest(i), f)]
             KOf(i) == [a \in Annex |-> K2[a] + MvRefs(Rest(i), a)]
  <1>0. H \in [Frm -> Nat] /\ K \in [Annex -> Nat]
    BY DEF MngrInv
  <1>1. n \in Nat /\ \A i \in 1 .. n : list[i] \in S
    BY LenProperties, ElementOfSeq
  <1>2. PICK r : Turns(r, "UnlockRefID", m, list, n) /\ UnlockRefID(m, list) = r[n]
    BY <1>1, UnlockSteps
  <1>20. r[0] = m /\ \A i \in 1 .. n : r[i] = Unlock(r[i - 1], list[i])
    BY <1>2 DEF Turns, LoopBody
  <1>3. /\ Rest(0) = list /\ Rest(n) = <<>>
        /\ \A i \in 1 .. n : /\ Rest(i - 1) \in Seq(S) /\ Rest(i) \in Seq(S)
                             /\ Grown(Rest(i), Rest(i - 1), 1) /\ Rest(i - 1)[1] = list[i]
    <2>1. \A i \in 1 .. n : (i - 1) + 1 = i /\ i \in 1 .. n
      BY <1>1
    <2> QED BY <1>1, <2>1, RestOfList
  <1> HIDE DEF Rest
  <1>4. \A i \in 0 .. n : HOf(i) \in [Frm -> Nat] /\ KOf(i) \in [Annex -> Nat]
    <2> TAKE i \in 0 .. n
    <2>1. Rest(i) \in Seq(S)
      BY <1>1, <1>3
    <2>2. (\A f : FrmRefs(Rest(i), f) \in Nat) /\ (\A a : MvRefs(Rest(i), a) \in Nat)
      BY <2>1, RefsType
    <2> QED BY <2>2
  <1>5. HOf(0) = H /\ KOf(0) = K
    BY <1>0, <1>3
  <1>6. HOf(n) = H2 /\ KOf(n) = K2
    <2>1. <<>> \in Seq(S) /\ Range(<<>>) = {} /\ FramesOf(<<>>) = {} /\ DOMAIN <<>> = {}
      BY EmptySeq DEF Range, FramesOf
    <2>2. \A f : FrmRefs(<<>>, f) = 0
      BY <2>1, RefsType
    <2>3. \A a : MvRefs(<<>>, a) = 0
      BY <2>1, RefsType
    <2> QED BY <1>3, <2>2, <2>3
  <1> DEFINE Good(i) == /\ MngrInv(r[i], HOf(i), KOf(i), U, shown, N)
                        /\ r[i].nodes = m.nodes /\ r[i].dispFifo = m.dispFifo
                        /\ r[i].deleted = m.deleted /\ r[i].pFrmStatus = m.pFrmStatus
  <1>7. Good(0)
    BY <1>20, <1>5
  <1>8. ASSUME NEW i \in 1 .. n, Good(i - 1) PROVE Good(i)
    <2>1. list[i].frm \in Frm /\ list[i].mv \in Annex
      BY <1>1
    <2>2. i - 1 \in 0 .. n /\ i \in 0 .. n
      BY <1>1
    <2>3. /\ HOf(i - 1) \in [Frm -> Nat] /\ KOf(i - 1) \in [Annex -> Nat]
          /\ HOf(i) \in [Frm -> Nat] /\ KOf(i) \in [Annex -> Nat]
      BY <1>4, <2>2
    <2>4. /\ \A f : FrmRefs(Rest(i - 1), f)
                      = FrmRefs(Rest(i), f) + (IF list[i].frm = f THEN 1 ELSE 0)
          /\ \A a : MvRefs(Rest(i - 1), a)
                      = MvRefs(Rest(i), a) + (IF list[i].mv = a THEN 1 ELSE 0)
      <3>1. /\ Rest(i - 1) \in Seq(S) /\ Rest(i) \in Seq(S)
            /\ Grown(Rest(i), Rest(i - 1), 1) /\ Rest(i - 1)[1] = list[i]
        BY <1>3
      <3> QED BY ONLY <3>1, RefsGrown
    <2>5. /\ \A f : FrmRefs(Rest(i), f) \in Nat
          /\ \A a : MvRefs(Rest(i), a) \in Nat
      BY <1>3, RefsType
    <2>6. OneMore(Frm, HOf(i - 1), HOf(i), list[i].frm)
      <3>1. \A f \in Frm : HOf(i - 1)[f] = HOf(i)[f] + (IF f = list[i].frm THEN 1 ELSE 0)
        BY <2>4, <2>5
      <3> HIDE DEF HOf
      <3> QED BY <2>1, <2>3, <3>1 DEF OneMore
    <2>7. OneMore(Annex, KOf(i - 1), KOf(i), list[i].mv)
      <3>1. \A a \in Annex : KOf(i - 1)[a] = KOf(i)[a] + (IF a = list[i].mv THEN 1 ELSE 0)
        BY <2>4, <2>5
      <3> HIDE DEF KOf
      <3> QED BY <2>1, <2>3, <3>1 DEF OneMore
    <2>9. MngrInv(r[i - 1], HOf(i - 1), KOf(i - 1), U, shown, N)
      BY <1>8
    <2> HIDE DEF HOf, KOf, n, Good
    <2> DEFINE q == r[i - 1]
               e == list[i]
               A == HOf(i - 1)
               A2 == HOf(i)
               B == KOf(i - 1)
               B2 == KOf(i)
    <2>10. /\ OneMore(Frm, A, A2, e.frm) /\ OneMore(Annex, B, B2, e.mv)
           /\ MngrInv(q, A, B, U, shown, N)
      BY <2>6, <2>7, <2>9
    <2> HIDE DEF q, e, A, A2, B, B2
    <2>8. /\ MngrInv(Unlock(q, e), A2, B2, U, shown, N)
          /\ Unlock(q, e).nodes = q.nodes
          /\ Unlock(q, e).dispFifo = q.dispFifo
          /\ Unlock(q, e).deleted = q.deleted
          /\ Unlock(q, e).pFrmStatus = q.pFrmStatus
      BY ONLY <2>10, Unlocked
    <2> QED BY <1>20, <1>8, <2>8 DEF Good, q, e, A2, B2
  <1> HIDE DEF Good
  <1>9. Good(n)
    <2> DEFINE G == {i \in 0 .. n : Good(i)}
    <2>1. 0 \in G /\ \A i \in 1 .. n : i - 1 \in G => i \in G
      BY <1>1, <1>7, <1>8
    <2> HIDE DEF G
    <2>2. \A i \in 0 .. n : i \in G
      BY <1>1, <2>1, LoopInduction
    <2> QED BY <1>1, <2>2 DEF G
  <1> QED BY <1>2, <1>6, <1>9 DEF Good

---------------------------------------------------------------------------
(* The operations of the DPB *)

\* The DPB of q is what an operation that adds no picture leaves of m's.
DpbShrinks(m, q, shown) ==
    /\ \A i \in DOMAIN q.nodes : \E j \in DOMAIN m.nodes :
          /\ q.nodes[i].frm = m.nodes[j].frm /\ q.nodes[i].pic = m.nodes[j].pic
          /\ q.nodes[i].isRef <=> m.nodes[j].isRef
    /\ Range(q.dispFifo) \subseteq Range(m.dispFifo) \cup FramesOf(m.nodes)
    /\ Len(q.nodes) <= Len(m.nodes) /\ NumRef(q.nodes) <= NumRef(m.nodes)
    /\ ToOutput(q, shown) = ToOutput(m, shown)

\* Two operations that add no picture, one after the other, add none.
LEMMA ShrinksTwice ==
  ASSUME NEW m, NEW q, NEW r, NEW shown,
         m \in PictMngrs, q \in PictMngrs, r \in PictMngrs,
         DpbShrinks(m, q, shown), DpbShrinks(q, r, shown)
  PROVE  DpbShrinks(m, r, shown)
  <1>1. /\ m.nodes \in Seq(Node) /\ q.nodes \in Seq(Node) /\ r.nodes \in Seq(Node)
    BY DEF PictMngrs
  <1>2. /\ Len(m.nodes) \in Nat /\ Len(q.nodes) \in Nat /\ Len(r.nodes) \in Nat
        /\ NumRef(m.nodes) \in Nat /\ NumRef(q.nodes) \in Nat /\ NumRef(r.nodes) \in Nat
    BY <1>1, LenProperties, RefsType
  <1>3. FramesOf(q.nodes) \subseteq FramesOf(m.nodes)
    BY DEF DpbShrinks, FramesOf
  <1>4. Range(r.dispFifo) \subseteq Range(m.dispFifo) \cup FramesOf(m.nodes)
    BY <1>3 DEF DpbShrinks
  <1>5. /\ Len(r.nodes) <= Len(m.nodes) /\ NumRef(r.nodes) <= NumRef(m.nodes)
        /\ ToOutput(r, shown) = ToOutput(m, shown)
    BY <1>2 DEF DpbShrinks
  <1>6. ASSUME NEW i \in DOMAIN r.nodes
        PROVE  \E j \in DOMAIN m.nodes :
                  /\ r.nodes[i].frm = m.nodes[j].frm /\ r.nodes[i].pic = m.nodes[j].pic
                  /\ r.nodes[i].isRef <=> m.nodes[j].isRef
    <2>1. PICK k \in DOMAIN q.nodes :
             /\ r.nodes[i].frm = q.nodes[k].frm /\ r.nodes[i].pic = q.nodes[k].pic
             /\ r.nodes[i].isRef <=> q.nodes[k].isRef
      BY DEF DpbShrinks
    <2>2. PICK j \in DOMAIN m.nodes :
             /\ q.nodes[k].frm = m.nodes[j].frm /\ q.nodes[k].pic = m.nodes[j].pic
             /\ q.nodes[k].isRef <=> m.nodes[j].isRef
      BY DEF DpbShrinks
    <2> QED BY <2>1, <2>2
  <1> QED BY <1>4, <1>5, <1>6 DEF DpbShrinks

\* A node is displayed, if it is meant for output: it keeps its place.
LEMMA NodeDisplayed ==
  ASSUME NEW m, NEW H, NEW K, NEW U, NEW shown, NEW N,
         MngrInv(m, H, K, U, shown, N), NEW i \in DOMAIN m.nodes
  PROVE  /\ MngrInv(DisplayNode(m, i), H, K, U, shown, N)
         /\ Len(DisplayNode(m, i).nodes) = Len(m.nodes)
         /\ \A j \in DOMAIN m.nodes : DisplayNode(m, i).nodes[j]
               = IF j = i THEN [m.nodes[i] EXCEPT !.bPicOutputFlag = FALSE] ELSE m.nodes[j]
         /\ DpbShrinks(m, DisplayNode(m, i), shown)
  <1> DEFINE q == DisplayNode(m, i)
             f == m.nodes[i].frm
             e == [m.nodes[i] EXCEPT !.bPicOutputFlag = FALSE]
             n == m.iAccessCnt[f]
             ns == [m.nodes EXCEPT ![i] = e]
  <1>1. /\ m \in PictMngrs /\ H \in [Frm -> Nat] /\ shown \in {0, 1}
        /\ m.iAccessCnt \in [Frm -> Nat \cup {-1}] /\ m.bToBeDisplayed \in [Frm -> BOOLEAN]
        /\ m.nodes \in Seq(Node) /\ m.dispFifo \in Seq(Frm)
    BY DEF MngrInv, PictMngrs
  <1>2. /\ DOMAIN m.nodes = 1 .. Len(m.nodes) /\ Len(m.nodes) \in Nat
        /\ \A j \in DOMAIN m.nodes : m.nodes[j] \in Node
    BY <1>1, LenProperties, ElementOfSeq
  <1>3. /\ m.nodes[i] \in Node /\ f \in Frm /\ e \in Node /\ e.frm = f
        /\ e.mv = m.nodes[i].mv /\ e.pic = m.nodes[i].pic
        /\ (e.isRef <=> m.nodes[i].isRef) /\ ~e.bPicOutputFlag
    BY <1>2 DEF Node
  <1> HIDE DEF e
  <1>4. /\ ns \in Seq(Node) /\ Len(ns) = Len(m.nodes)
        /\ \A j \in DOMAIN m.nodes : ns[j] = IF j = i THEN e ELSE m.nodes[j]
        /\ DOMAIN ns = DOMAIN m.nodes
    BY <1>1, <1>2, <1>3, ExceptSeq
  <1>5. /\ \A g : FrmRefs(ns, g) = FrmRefs(m.nodes, g)
        /\ \A a : MvRefs(ns, a) = MvRefs(m.nodes, a)
        /\ NumOutput(ns) = NumOutput(m.nodes) - (IF m.nodes[i].bPicOutputFlag THEN 1 ELSE 0)
        /\ NumRef(ns) = NumRef(m.nodes)
    <2>1. /\ m.nodes \in Seq(Node) /\ i \in DOMAIN m.nodes /\ e \in Node
          /\ e.frm = m.nodes[i].frm /\ e.mv = m.nodes[i].mv
          /\ ns = [m.nodes EXCEPT ![i] = e]
      BY <1>1, <1>3
    <2>2. (e.isRef <=> m.nodes[i].isRef) /\ ~e.bPicOutputFlag
      BY <1>3
    <2> HIDE DEF ns
    <2> QED BY ONLY <2>1, <2>2, RefsReplaced
  <1>6. CASE ~m.nodes[i].bPicOutputFlag
    <2>1. q = m
      BY <1>6 DEF DisplayNode
    <2>2. e = m.nodes[i]
      BY <1>3, <1>6 DEF Node, e
    <2>3. DpbShrinks(m, m, shown)
      BY <1>1, <1>2, RefsType DEF DpbShrinks
    <2> HIDE DEF q
    <2> QED BY <2>1, <2>2, <2>3 DEF q, e
  <1>7. CASE m.nodes[i].bPicOutputFlag
    <2>1. n = H[f] + DpbFrm(m, f) /\ n \in Nat /\ n > 0
      <3>1. DpbFrm(m, f) \in Nat /\ f \in FramesOf(m.nodes)
        BY <1>1, DpbRefsType DEF FramesOf
      <3>2. DpbFrm(m, f) > 0
        BY <1>1, <3>1, DpbRefsType
      <3> QED BY <1>1, <1>3, <3>1, <3>2 DEF MngrInv, Counted
    <2>2. Append(m.dispFifo, f) \in Seq(Frm)
      BY <1>1, <1>3, AppendProperties
    <2>3. /\ q.nodes = ns /\ q.dispFifo = Append(m.dispFifo, f)
          /\ q.iAccessCnt = [m.iAccessCnt EXCEPT ![f] = n + 1]
          /\ q.bToBeDisplayed = [m.bToBeDisplayed EXCEPT ![f] = TRUE]
          /\ q.avail = m.avail /\ q.mvAccessCnt = m.mvAccessCnt /\ q.mvFree = m.mvFree
          /\ q.pFrmStatus = m.pFrmStatus /\ q.deleted = m.deleted
          /\ q \in PictMngrs
      <3>1. q = [m EXCEPT !.nodes = ns, !.dispFifo = Append(m.dispFifo, f),
                          !.iAccessCnt = [m.iAccessCnt EXCEPT ![f] = n + 1],
                          !.bToBeDisplayed = [m.bToBeDisplayed EXCEPT ![f] = TRUE]]
        BY <1>7 DEF DisplayNode, e
      <3>2. [m.iAccessCnt EXCEPT ![f] = n + 1] \in [Frm -> Nat \cup {-1}]
        <4>1. n + 1 \in Nat
          BY <2>1
        <4> HIDE DEF n
        <4> QED BY <1>1, <1>3, <4>1
      <3> HIDE DEF q, n, ns
      <3> QED BY <1>1, <1>4, <2>2, <3>1, <3>2 DEF PictMngrs
    <2> HIDE DEF q, ns
    <2>4. /\ \A g : FifoRefs(q.dispFifo, g) = FifoRefs(m.dispFifo, g) + (IF f = g THEN 1 ELSE 0)
          /\ \A g : FifoRefs(m.dispFifo, g) \in Nat
          /\ Len(q.dispFifo) = Len(m.dispFifo) + 1 /\ Len(m.dispFifo) \in Nat
      <3>1. /\ q.dispFifo \in Seq(Frm) /\ Grown(m.dispFifo, q.dispFifo, Len(m.dispFifo) + 1)
            /\ q.dispFifo[Len(m.dispFifo) + 1] = f
        BY <1>1, <1>3, <2>3, AppendGrown
      <3>2. \A g : FifoRefs(q.dispFifo, g) = FifoRefs(m.dispFifo, g) + (IF f = g THEN 1 ELSE 0)
        BY ONLY <1>1, <3>1, RefsGrown
      <3> QED BY <1>1, <3>1, <3>2, RefsType, LenProperties DEF Grown
    <2>5. \A g : /\ FrmRefs(m.nodes, g) \in Nat /\ FrmRefs(m.deleted, g) \in Nat
                 /\ DpbFrm(q, g) = DpbFrm(m, g) + (IF f = g THEN 1 ELSE 0)
                 /\ DpbFrm(m, g) \in Nat
      <3>1. m.deleted \in Seq(Entry)
        BY <1>1 DEF PictMngrs
      <3>2. \A g : FrmRefs(m.nodes, g) \in Nat /\ FrmRefs(m.deleted, g) \in Nat
        BY <1>1, <3>1, RefsType
      <3> QED BY <1>5, <2>3, <2>4, <3>2 DEF DpbFrm
    <2>6. Counted(q, H, K)
      <3>1. \A a \in Annex : q.mvAccessCnt[a] = K[a] + DpbMv(q, a)
        BY <1>5, <2>3 DEF MngrInv, Counted, DpbMv
      <3>2. ASSUME NEW g \in Frm
            PROVE  /\ q.iAccessCnt[g] \in {H[g] + DpbFrm(q, g), -1}
                   /\ q.iAccessCnt[g] = -1 => H[g] + DpbFrm(q, g) = 0
        <4>1. CASE g = f
          <5>1. q.iAccessCnt[g] = n + 1 /\ DpbFrm(q, g) = DpbFrm(m, g) + 1
                /\ n = H[g] + DpbFrm(m, g)
            <6>1. q.iAccessCnt[g] = n + 1
              BY <1>1, <1>3, <2>3, <4>1
            <6>2. DpbFrm(q, g) = DpbFrm(m, g) + 1
              BY <2>5, <4>1
            <6> HIDE DEF n
            <6> QED BY <2>1, <4>1, <6>1, <6>2
          <5>2. H[g] \in Nat /\ DpbFrm(m, g) \in Nat
            BY <1>1, <2>5
          <5> HIDE DEF n
          <5> QED BY ONLY <5>1, <5>2
        <4>2. CASE g # f
          <5>1. q.iAccessCnt[g] = m.iAccessCnt[g] /\ DpbFrm(q, g) = DpbFrm(m, g)
            BY <1>1, <2>3, <2>5, <4>2
          <5> QED BY <5>1 DEF MngrInv, Counted
        <4> QED BY <4>1, <4>2
      <3> QED BY <3>1, <3>2 DEF Counted
    <2>7. AvailableIsFree(q)
      <3>1. \A j \in DOMAIN m.avail : m.avail[j] \in Frm /\ m.iAccessCnt[m.avail[j]] = 0
        <4>1. m.avail \in Seq(Frm)
          BY <1>1 DEF PictMngrs
        <4> QED BY <4>1, LenProperties, ElementOfSeq DEF MngrInv, AvailableIsFree
      <3>2. \A j \in DOMAIN m.avail : m.avail[j] # f
        BY <2>1, <3>1
      <3> QED BY <1>1, <2>3, <3>1, <3>2 DEF MngrInv, AvailableIsFree
    <2>8. f \notin U /\ f \notin Range(m.dispFifo)
      BY <1>7 DEF MngrInv, QueuedOnce
    <2>9. UserIsKnown(q, U)
      <3>1. \A g \in U : g # f /\ g \in Frm
        BY <2>8 DEF MngrInv, UserIsKnown
      <3> QED BY <1>1, <2>3, <3>1 DEF MngrInv, UserIsKnown
    <2>10. /\ \A j \in DOMAIN q.dispFifo :
                 \/ j \in DOMAIN m.dispFifo /\ q.dispFifo[j] = m.dispFifo[j]
                 \/ j = Len(m.dispFifo) + 1 /\ q.dispFifo[j] = f
           /\ \A j \in DOMAIN m.dispFifo : m.dispFifo[j] \in Frm
           /\ Range(q.dispFifo) = Range(m.dispFifo) \cup {f}
           /\ IsInjective(q.dispFifo)
           /\ shown = 1 => q.dispFifo # <<>> /\ Head(q.dispFifo) = Head(m.dispFifo)
      <3>1. /\ DOMAIN q.dispFifo = 1 .. Len(m.dispFifo) + 1
            /\ DOMAIN m.dispFifo = 1 .. Len(m.dispFifo)
            /\ Len(m.dispFifo) \in Nat
            /\ \A j \in 1 .. Len(m.dispFifo) : q.dispFifo[j] = m.dispFifo[j]
            /\ q.dispFifo[Len(m.dispFifo) + 1] = f
        BY <1>1, <1>3, <2>2, <2>3, AppendProperties, LenProperties
      <3>2. Range(q.dispFifo) = Range(m.dispFifo) \cup {f} /\ IsInjective(q.dispFifo)
        BY <1>1, <1>3, <2>3, <2>8, AppendRange DEF MngrInv, QueuedOnce
      <3>3. shown = 1 => q.dispFifo # <<>> /\ Head(q.dispFifo) = Head(m.dispFifo)
        <4> HAVE shown = 1
        <4>1. m.dispFifo # <<>>
          BY DEF MngrInv, QueuedOnce
        <4>2. Len(m.dispFifo) # 0
          BY <1>1, <4>1, EmptySeq
        <4>3. q.dispFifo \in Seq(Frm) /\ q.dispFifo # <<>>
          BY <2>2, <2>3, <3>1, EmptySeq
        <4> QED BY <1>1, <3>1, <4>1, <4>2, <4>3, HeadTailProperties
      <3>4. \A j \in DOMAIN m.dispFifo : m.dispFifo[j] \in Frm
        BY <1>1, LenProperties, ElementOfSeq
      <3> QED BY <3>1, <3>2, <3>3, <3>4
    <2>11. QueuedOnce(q, U, shown)
      <3>1. DistinctFrames(q.nodes)
        <4>1. DistinctFrames(m.nodes)
          BY DEF MngrInv, QueuedOnce
        <4>2. \A j \in DOMAIN m.nodes : q.nodes[j].frm = m.nodes[j].frm
          BY <1>3, <1>4, <2>3
        <4> QED BY <1>4, <2>3, <4>1, <4>2 DEF DistinctFrames
      <3>2. ASSUME NEW j \in DOMAIN q.nodes, q.nodes[j].bPicOutputFlag
            PROVE  q.nodes[j].frm \notin U /\ q.nodes[j].frm \notin Range(q.dispFifo)
        <4>1. j # i /\ j \in DOMAIN m.nodes /\ q.nodes[j] = m.nodes[j]
          BY <1>3, <1>4, <2>3, <3>2
        <4>2. m.nodes[j].frm # f
          BY <4>1 DEF MngrInv, QueuedOnce, DistinctFrames
        <4> QED BY <2>10, <3>2, <4>1, <4>2 DEF MngrInv, QueuedOnce
      <3>3. ASSUME NEW j \in DOMAIN q.dispFifo, j > shown
            PROVE  q.bToBeDisplayed[q.dispFifo[j]] /\ q.dispFifo[j] \notin U
        <4>1. CASE q.dispFifo[j] = f
          BY <1>1, <1>3, <2>3, <2>8, <4>1
        <4>2. CASE q.dispFifo[j] # f
          <5>1. j \in DOMAIN m.dispFifo /\ q.dispFifo[j] = m.dispFifo[j]
            BY <2>10, <4>2
          <5>2. m.bToBeDisplayed[m.dispFifo[j]] /\ m.dispFifo[j] \notin U
            BY <3>3, <5>1 DEF MngrInv, QueuedOnce
          <5>3. m.dispFifo[j] \in Frm
            BY <2>10, <5>1
          <5> QED BY <1>1, <2>3, <4>2, <5>1, <5>2, <5>3
        <4> QED BY <4>1, <4>2
      <3>4. shown = 1 => q.dispFifo # <<>> /\ q.pFrmStatus[Head(q.dispFifo)] = "ready"
        BY <2>3, <2>10 DEF MngrInv, QueuedOnce
      <3> QED BY <2>10, <3>1, <3>2, <3>3, <3>4 DEF QueuedOnce
    <2>12. StatusIsKnown(q, U, shown, N)
      <3>1. f \in N \/ m.pFrmStatus[f] = "ready"
        BY <1>7 DEF MngrInv, StatusIsKnown
      <3>2. ASSUME NEW j \in DOMAIN q.nodes, q.nodes[j].bPicOutputFlag
            PROVE  q.nodes[j].frm \in N \/ q.pFrmStatus[q.nodes[j].frm] = "ready"
        <4>1. j # i /\ j \in DOMAIN m.nodes /\ q.nodes[j] = m.nodes[j]
          BY <1>3, <1>4, <2>3, <3>2
        <4> QED BY <2>3, <3>2, <4>1 DEF MngrInv, StatusIsKnown
      <3>3. ASSUME NEW j \in DOMAIN q.dispFifo, j > shown
            PROVE  q.dispFifo[j] \in N \/ q.pFrmStatus[q.dispFifo[j]] = "ready"
        BY <2>3, <2>10, <3>1, <3>3 DEF MngrInv, StatusIsKnown
      <3>4. N \cap U = {} /\ \A g \in N : q.pFrmStatus[g] = "not_ready"
        BY <2>3 DEF MngrInv, StatusIsKnown
      <3> QED BY <3>2, <3>3, <3>4 DEF StatusIsKnown
    <2>13. MngrInv(q, H, K, U, shown, N)
      BY <2>3, <2>6, <2>7, <2>9, <2>11, <2>12 DEF MngrInv
    <2>14. DpbShrinks(m, q, shown)
      <3>1. NumOutput(m.nodes) \in Nat /\ NumRef(m.nodes) \in Nat
        BY <1>1, RefsType
      <3>2. ToOutput(q, shown) = ToOutput(m, shown)
        <4>1. NumOutput(q.nodes) = NumOutput(m.nodes) - 1
          BY <1>5, <1>7, <2>3
        <4>2. shown \in Int /\ Len(q.dispFifo) = Len(m.dispFifo) + 1 /\ Len(m.dispFifo) \in Nat
          BY <1>1, <2>4
        <4> QED BY ONLY <3>1, <4>1, <4>2 DEF ToOutput
      <3>3. Range(q.dispFifo) \subseteq Range(m.dispFifo) \cup FramesOf(m.nodes)
        BY <2>10 DEF FramesOf
      <3>4. \A j \in DOMAIN q.nodes :
               /\ j \in DOMAIN m.nodes
               /\ q.nodes[j].frm = m.nodes[j].frm /\ q.nodes[j].pic = m.nodes[j].pic
               /\ q.nodes[j].isRef <=> m.nodes[j].isRef
        BY <1>3, <1>4, <2>3
      <3> QED BY <1>2, <1>4, <1>5, <2>3, <3>1, <3>2, <3>3, <3>4 DEF DpbShrinks
    <2> QED BY <1>4, <2>3, <2>13, <2>14 DEF q, e
  <1> QED BY <1>6, <1>7

\* An operation that does nothing adds no picture.
LEMMA ShrinksSame ==
  ASSUME NEW m, NEW shown, m \in PictMngrs
  PROVE  DpbShrinks(m, m, shown)
  <1>1. m.nodes \in Seq(Node)
    BY DEF PictMngrs
  <1>2. Len(m.nodes) \in Nat /\ NumRef(m.nodes) \in Nat
    BY <1>1, LenProperties, RefsType
  <1> QED BY <1>2 DEF DpbShrinks

\* The nodes up to node k are displayed.
LEMMA Displayed ==
  ASSUME NEW m, NEW H, NEW K, NEW U, NEW shown, NEW N,
         MngrInv(m, H, K, U, shown, N), NEW k \in 0 .. Len(m.nodes)
  PROVE  /\ MngrInv(Display(m, k), H, K, U, shown, N)
         /\ Len(Display(m, k).nodes) = Len(m.nodes)
         /\ \A j \in DOMAIN m.nodes : Display(m, k).nodes[j]
               = IF j <= k THEN [m.nodes[j] EXCEPT !.bPicOutputFlag = FALSE] ELSE m.nodes[j]
         /\ DpbShrinks(m, Display(m, k), shown)
  <1>1. m \in PictMngrs /\ m.nodes \in Seq(Node)
    BY DEF MngrInv, PictMngrs
  <1>2. /\ DOMAIN m.nodes = 1 .. Len(m.nodes) /\ Len(m.nodes) \in Nat /\ k \in Nat
    BY <1>1, LenProperties
  <1>3. PICK r : Turns(r, "Display", m, m.nodes, k) /\ Display(m, k) = r[k]
    BY <1>2, DisplaySteps
  <1>4. r[0] = m /\ \A i \in 1 .. k : r[i] = DisplayNode(r[i - 1], i)
    BY <1>3 DEF Turns, LoopBody
  <1> DEFINE After(j, i) == IF j <= i THEN [m.nodes[j] EXCEPT !.bPicOutputFlag = FALSE]
                            ELSE m.nodes[j]
             Good(i) == /\ MngrInv(r[i], H, K, U, shown, N)
                        /\ Len(r[i].nodes) = Len(m.nodes)
                        /\ \A j \in DOMAIN m.nodes : r[i].nodes[j] = After(j, i)
                        /\ DpbShrinks(m, r[i], shown)
             G == {i \in 0 .. k : Good(i)}
  <1>5. 0 \in G
    <2>1. DpbShrinks(m, m, shown)
      BY <1>1, ShrinksSame
    <2>2. \A j \in DOMAIN m.nodes : m.nodes[j] = After(j, 0)
      BY <1>2
    <2> HIDE DEF After
    <2> QED BY <1>2, <1>4, <2>1, <2>2
  <1>6. ASSUME NEW i \in 1 .. k, i - 1 \in G PROVE i \in G
    <2>1. Good(i - 1)
      BY <1>6
    <2> DEFINE p == r[i - 1]
               q == DisplayNode(p, i)
    <2>2. /\ MngrInv(p, H, K, U, shown, N) /\ Len(p.nodes) = Len(m.nodes)
          /\ DpbShrinks(m, p, shown)
      BY <2>1
    <2>3. i \in DOMAIN p.nodes /\ DOMAIN p.nodes = DOMAIN m.nodes
          /\ p \in PictMngrs
      <3>1. p \in PictMngrs /\ p.nodes \in Seq(Node)
        BY <2>2 DEF MngrInv, PictMngrs
      <3>2. DOMAIN p.nodes = 1 .. Len(p.nodes)
        BY <3>1, LenProperties
      <3> QED BY <1>2, <2>2, <3>1, <3>2
    <2>4. \A j \in DOMAIN m.nodes : p.nodes[j] = After(j, i - 1)
      BY <2>1
    <2>5. q = r[i]
      BY <1>4
    <2> HIDE DEF Good, p, q
    <2>6. /\ MngrInv(q, H, K, U, shown, N) /\ Len(q.nodes) = Len(p.nodes)
          /\ \A j \in DOMAIN p.nodes : q.nodes[j]
                = IF j = i THEN [p.nodes[i] EXCEPT !.bPicOutputFlag = FALSE] ELSE p.nodes[j]
          /\ DpbShrinks(p, q, shown)
      BY ONLY <2>2, <2>3, NodeDisplayed DEF q
    <2>7. DpbShrinks(m, q, shown)
      <3>1. q \in PictMngrs
        BY <2>6 DEF MngrInv
      <3> QED BY ONLY <1>1, <2>2, <2>3, <2>6, <3>1, ShrinksTwice
    <2>8. ASSUME NEW j \in DOMAIN m.nodes PROVE q.nodes[j] = After(j, i)
      <3>1. j \in Int /\ i \in Int
        BY <1>2
      <3>2. /\ p.nodes[j] = After(j, i - 1)
            /\ q.nodes[j] = IF j = i THEN [p.nodes[i] EXCEPT !.bPicOutputFlag = FALSE]
                            ELSE p.nodes[j]
        BY <2>3, <2>4, <2>6
      <3>3. CASE j = i
        <4>1. After(j, i - 1) = m.nodes[j]
          BY <3>1, <3>3
        <4>2. After(j, i) = [m.nodes[j] EXCEPT !.bPicOutputFlag = FALSE]
          BY <3>1, <3>3
        <4> HIDE DEF After
        <4> QED BY <3>2, <3>3, <4>1, <4>2
      <3>4. CASE j # i
        <4>1. After(j, i - 1) = After(j, i)
          BY <3>1, <3>4
        <4> HIDE DEF After
        <4> QED BY <3>2, <3>4, <4>1
      <3> QED BY <3>3, <3>4
    <2>9. Good(i)
      BY <2>2, <2>5, <2>6, <2>7, <2>8 DEF Good
    <2> QED BY <1>2, <2>9
  <1> HIDE DEF G
  <1>7. k \in G
    <2>1. \A i \in 0 .. k : i \in G
      BY ONLY <1>2, <1>5, <1>6, LoopInduction
    <2> QED BY <1>2, <2>1
  <1> QED BY <1>3, <1>7 DEF G

\* A node that is not meant for output any more is removed.
LEMMA NodeRemoved ==
  ASSUME NEW m, NEW H, NEW K, NEW U, NEW shown, NEW N,
         MngrInv(m, H, K, U, shown, N),
         NEW i \in DOMAIN m.nodes, ~m.nodes[i].bPicOutputFlag
  PROVE  /\ MngrInv(RemoveNode(m, i), H, K, U, shown, N)
         /\ Grown(RemoveNode(m, i).nodes, m.nodes, i)
         /\ DpbShrinks(m, RemoveNode(m, i), shown)
  <1> DEFINE q == RemoveNode(m, i)
             d == [frm |-> m.nodes[i].frm, mv |-> m.nodes[i].mv]
             ns == RemoveAt(m.nodes, i)
             ds == Append(m.deleted, d)
  <1>1. /\ m \in PictMngrs /\ H \in [Frm -> Nat] /\ shown \in {0, 1}
        /\ m.nodes \in Seq(Node) /\ m.deleted \in Seq(Entry)
    BY DEF MngrInv, PictMngrs
  <1>2. /\ DOMAIN m.nodes = 1 .. Len(m.nodes) /\ Len(m.nodes) \in Nat
        /\ \A j \in DOMAIN m.nodes : m.nodes[j] \in Node
    BY <1>1, LenProperties, ElementOfSeq
  <1>3. d \in Entry /\ d.frm = m.nodes[i].frm /\ d.mv = m.nodes[i].mv
    BY <1>2 DEF Node, Entry
  <1>4. ns \in Seq(Node) /\ Grown(ns, m.nodes, i)
    BY <1>1, <1>2, RemoveAtGrown
  <1>5. ds \in Seq(Entry) /\ Grown(m.deleted, ds, Len(m.deleted) + 1)
        /\ ds[Len(m.deleted) + 1] = d
    BY <1>1, <1>3, AppendGrown
  <1>6. /\ q.nodes = ns /\ q.deleted = ds /\ q.dispFifo = m.dispFifo
        /\ q.iAccessCnt = m.iAccessCnt /\ q.bToBeDisplayed = m.bToBeDisplayed
        /\ q.avail = m.avail /\ q.mvAccessCnt = m.mvAccessCnt /\ q.mvFree = m.mvFree
        /\ q.pFrmStatus = m.pFrmStatus
        /\ q \in PictMngrs
    <2>1. q = [m EXCEPT !.nodes = ns, !.deleted = ds]
      BY DEF RemoveNode
    <2> HIDE DEF q, ns, ds
    <2> QED BY <1>1, <1>4, <1>5, <2>1 DEF PictMngrs
  <1> HIDE DEF q, ns, ds, d
  <1>7. /\ \A f : FrmRefs(m.nodes, f) = FrmRefs(ns, f) + (IF m.nodes[i].frm = f THEN 1 ELSE 0)
        /\ \A a : MvRefs(m.nodes, a) = MvRefs(ns, a) + (IF m.nodes[i].mv = a THEN 1 ELSE 0)
        /\ NumOutput(m.nodes) = NumOutput(ns) + (IF m.nodes[i].bPicOutputFlag THEN 1 ELSE 0)
        /\ NumRef(m.nodes) = NumRef(ns) + (IF m.nodes[i].isRef THEN 1 ELSE 0)
    BY ONLY <1>1, <1>4, RefsGrown
  <1>8. /\ \A f : FrmRefs(ds, f) = FrmRefs(m.deleted, f) + (IF d.frm = f THEN 1 ELSE 0)
        /\ \A a : MvRefs(ds, a) = MvRefs(m.deleted, a) + (IF d.mv = a THEN 1 ELSE 0)
    <2>1. /\ \A f : FrmRefs(ds, f) = FrmRefs(m.deleted, f)
                       + (IF ds[Len(m.deleted) + 1].frm = f THEN 1 ELSE 0)
          /\ \A a : MvRefs(ds, a) = MvRefs(m.deleted, a)
                       + (IF ds[Len(m.deleted) + 1].mv = a THEN 1 ELSE 0)
      BY ONLY <1>1, <1>5, RefsGrown
    <2> QED BY <1>5, <2>1
  <1>9. /\ \A f : FrmRefs(ns, f) \in Nat /\ FrmRefs(m.deleted, f) \in Nat
        /\ \A a : MvRefs(ns, a) \in Nat /\ MvRefs(m.deleted, a) \in Nat
        /\ NumOutput(ns) \in Nat /\ NumRef(ns) \in Nat
        /\ \A f : FifoRefs(m.dispFifo, f) \in Nat
    <2>1. m.dispFifo \in Seq(Frm)
      BY <1>1 DEF PictMngrs
    <2> QED BY <1>1, <1>4, <2>1, RefsType
  <1>10. Counted(q, H, K)
    <2>1. ASSUME NEW f PROVE DpbFrm(q, f) = DpbFrm(m, f)
      BY <1>3, <1>6, <1>7, <1>8, <1>9 DEF DpbFrm
    <2>2. ASSUME NEW a PROVE DpbMv(q, a) = DpbMv(m, a)
      BY <1>3, <1>6, <1>7, <1>8, <1>9 DEF DpbMv
    <2> QED BY <1>6, <2>1, <2>2 DEF MngrInv, Counted
  <1>11. AvailableIsFree(q) /\ UserIsKnown(q, U)
    BY <1>6 DEF MngrInv, AvailableIsFree, UserIsKnown
  <1>12. ASSUME NEW j \in DOMAIN q.nodes
         PROVE  \E k \in DOMAIN m.nodes :
                   k # i /\ k = (IF j < i THEN j ELSE j + 1) /\ q.nodes[j] = m.nodes[k]
    <2>1. DOMAIN ns = 1 .. Len(ns) /\ Len(ns) \in Nat /\ i \in 1 .. Len(m.nodes)
          /\ Len(m.nodes) = Len(ns) + 1 /\ j \in 1 .. Len(ns)
      BY <1>2, <1>4, <1>6, LenProperties DEF Grown
    <2>2. CASE j < i
      BY <1>2, <1>4, <1>6, <2>1, <2>2 DEF Grown
    <2>3. CASE ~(j < i)
      <3>1. m.nodes[j + 1] = ns[j] /\ j + 1 \in 1 .. Len(m.nodes) /\ j + 1 # i
        BY <1>4, <2>1, <2>3 DEF Grown
      <3> QED BY <1>2, <1>6, <2>3, <3>1
    <2> QED BY <2>2, <2>3
  <1>13. QueuedOnce(q, U, shown)
    <2>1. DistinctFrames(q.nodes)
      <3> SUFFICES ASSUME NEW j \in DOMAIN q.nodes, NEW k \in DOMAIN q.nodes,
                          q.nodes[j].frm = q.nodes[k].frm
                   PROVE  j = k
        BY DEF DistinctFrames
      <3>1. PICK j2 \in DOMAIN m.nodes :
               j2 = (IF j < i THEN j ELSE j + 1) /\ q.nodes[j] = m.nodes[j2]
        BY <1>12
      <3>2. PICK k2 \in DOMAIN m.nodes :
               k2 = (IF k < i THEN k ELSE k + 1) /\ q.nodes[k] = m.nodes[k2]
        BY <1>12
      <3>3. j2 = k2
        BY <3>1, <3>2 DEF MngrInv, QueuedOnce, DistinctFrames
      <3>4. j \in Int /\ k \in Int /\ i \in Int
        BY <1>2, <1>4, <1>6, LenProperties
      <3> QED BY <3>1, <3>2, <3>3, <3>4
    <2> QED BY <1>6, <1>12, <2>1 DEF MngrInv, QueuedOnce
  <1>14. StatusIsKnown(q, U, shown, N)
    BY <1>6, <1>12 DEF MngrInv, StatusIsKnown
  <1>15. DpbShrinks(m, q, shown)
    <2>1. \A j \in DOMAIN q.nodes : \E k \in DOMAIN m.nodes :
             /\ q.nodes[j].frm = m.nodes[k].frm /\ q.nodes[j].pic = m.nodes[k].pic
             /\ q.nodes[j].isRef <=> m.nodes[k].isRef
      BY <1>12
    <2>2. Len(ns) \in Nat /\ Len(m.nodes) = Len(ns) + 1
      BY <1>4, LenProperties DEF Grown
    <2>3. Len(q.nodes) <= Len(m.nodes) /\ NumRef(q.nodes) <= NumRef(m.nodes)
      BY <1>6, <1>7, <1>9, <2>2
    <2>4. ToOutput(q, shown) = ToOutput(m, shown)
      BY <1>6, <1>7, <1>9 DEF ToOutput
    <2> QED BY <1>6, <2>1, <2>3, <2>4 DEF DpbShrinks
  <1> QED BY <1>4, <1>6, <1>10, <1>11, <1>13, <1>14, <1>15 DEF MngrInv, q

\* The elements of a sequence, and those of the same with one more.
LEMMA GrownElements ==
  ASSUME NEW S, NEW s \in Seq(S), NEW t \in Seq(S), NEW i, Grown(s, t, i)
  PROVE  /\ Len(t) = Len(s) + 1 /\ Len(s) \in Nat /\ i \in DOMAIN t
         /\ \A j \in DOMAIN s : \E k \in DOMAIN t : k # i /\ s[j] = t[k]
         /\ \A k \in DOMAIN t : k # i => \E j \in DOMAIN s : s[j] = t[k]
         /\ FramesOf(t) = FramesOf(s) \cup {t[i].frm}
         /\ DistinctFrames(t) => t[i].frm \notin FramesOf(s)
  <1>1. /\ DOMAIN s = 1 .. Len(s) /\ DOMAIN t = 1 .. Len(t)
        /\ Len(s) \in Nat /\ Len(t) = Len(s) + 1 /\ i \in 1 .. Len(t)
    BY LenProperties DEF Grown
  <1>2. ASSUME NEW j \in DOMAIN s PROVE \E k \in DOMAIN t : k # i /\ s[j] = t[k]
    <2>1. CASE j < i
      BY <1>1, <2>1 DEF Grown
    <2>2. CASE ~(j < i)
      <3>1. t[j + 1] = s[j] /\ j + 1 \in DOMAIN t /\ j + 1 # i
        BY <1>1, <2>2 DEF Grown
      <3> QED BY <3>1
    <2> QED BY <2>1, <2>2
  <1>3. ASSUME NEW k \in DOMAIN t, k # i PROVE \E j \in DOMAIN s : s[j] = t[k]
    <2>1. CASE k < i
      BY <1>1, <2>1 DEF Grown
    <2>2. CASE ~(k < i)
      <3>1. k - 1 \in i .. Len(s) /\ k - 1 \in DOMAIN s /\ (k - 1) + 1 = k
        BY <1>1, <1>3, <2>2
      <3>2. t[(k - 1) + 1] = s[k - 1]
        BY <3>1 DEF Grown
      <3> QED BY <3>1, <3>2
    <2> QED BY <2>1, <2>2
  <1>4. FramesOf(t) = FramesOf(s) \cup {t[i].frm}
    BY <1>1, <1>2, <1>3 DEF FramesOf
  <1>5. DistinctFrames(t) => t[i].frm \notin FramesOf(s)
    BY <1>1, <1>2 DEF FramesOf, DistinctFrames
  <1> QED BY <1>1, <1>2, <1>3, <1>4, <1>5

\* AL_Dpb_Display, then AL_Dpb_Remove, of node i.
LEMMA DisplayedAndRemoved ==
  ASSUME NEW m, NEW H, NEW K, NEW U, NEW shown, NEW N,
         MngrInv(m, H, K, U, shown, N), NEW i \in DOMAIN m.nodes
  PROVE  /\ MngrInv(DisplayAndRemove(m, i), H, K, U, shown, N)
         /\ Len(DisplayAndRemove(m, i).nodes) = Len(m.nodes) - 1
         /\ DpbShrinks(m, DisplayAndRemove(m, i), shown)
         /\ FramesOf(DisplayAndRemove(m, i).nodes) = FramesOf(m.nodes) \ {m.nodes[i].frm}
  <1> DEFINE p == Display(m, i)
             q == RemoveNode(p, i)
  <1>1. m \in PictMngrs /\ m.nodes \in Seq(Node)
    BY DEF MngrInv, PictMngrs
  <1>2. /\ DOMAIN m.nodes = 1 .. Len(m.nodes) /\ Len(m.nodes) \in Nat
        /\ i \in 0 .. Len(m.nodes) /\ i \in 1 .. Len(m.nodes)
        /\ \A j \in DOMAIN m.nodes : m.nodes[j] \in Node
    BY <1>1, LenProperties, ElementOfSeq
  <1>3. /\ MngrInv(p, H, K, U, shown, N)
        /\ Len(p.nodes) = Len(m.nodes)
        /\ \A j \in DOMAIN m.nodes : p.nodes[j]
              = IF j <= i THEN [m.nodes[j] EXCEPT !.bPicOutputFlag = FALSE] ELSE m.nodes[j]
        /\ DpbShrinks(m, p, shown)
    BY <1>2, Displayed
  <1> HIDE DEF p
  <1>4. p \in PictMngrs /\ p.nodes \in Seq(Node) /\ DOMAIN p.nodes = DOMAIN m.nodes
    <2>1. p \in PictMngrs /\ p.nodes \in Seq(Node)
      BY <1>3 DEF MngrInv, PictMngrs
    <2>2. DOMAIN p.nodes = 1 .. Len(p.nodes)
      BY <2>1, LenProperties
    <2> QED BY <1>2, <1>3, <2>1, <2>2
  <1>5. \A j \in DOMAIN m.nodes : p.nodes[j].frm = m.nodes[j].frm
    BY <1>2, <1>3 DEF Node
  <1>6. ~p.nodes[i].bPicOutputFlag
    <2>1. i <= i
      BY <1>2
    <2>2. p.nodes[i] = [m.nodes[i] EXCEPT !.bPicOutputFlag = FALSE]
      BY <1>3, <2>1
    <2> QED BY <1>2, <2>2 DEF Node
  <1>7. FramesOf(p.nodes) = FramesOf(m.nodes)
    BY <1>4, <1>5 DEF FramesOf
  <1>8. /\ MngrInv(q, H, K, U, shown, N) /\ Grown(q.nodes, p.nodes, i)
        /\ DpbShrinks(p, q, shown)
    <2>1. i \in DOMAIN p.nodes
      BY <1>4
    <2> QED BY ONLY <1>3, <1>6, <2>1, NodeRemoved
  <1>9. DisplayAndRemove(m, i) = q
    BY DEF DisplayAndRemove, p
  <1> HIDE DEF q
  <1>10. q \in PictMngrs /\ q.nodes \in Seq(Node)
    BY <1>8 DEF MngrInv, PictMngrs
  <1>11. DpbShrinks(m, q, shown)
    BY ONLY <1>1, <1>3, <1>4, <1>8, <1>10, ShrinksTwice
  <1>12. /\ Len(p.nodes) = Len(q.nodes) + 1 /\ Len(q.nodes) \in Nat
         /\ FramesOf(p.nodes) = FramesOf(q.nodes) \cup {p.nodes[i].frm}
         /\ DistinctFrames(p.nodes) => p.nodes[i].frm \notin FramesOf(q.nodes)
    BY ONLY <1>4, <1>8, <1>10, GrownElements
  <1>13. DistinctFrames(p.nodes)
    BY <1>3 DEF MngrInv, QueuedOnce
  <1> QED BY <1>2, <1>3, <1>5, <1>7, <1>8, <1>9, <1>11, <1>12, <1>13

\* sApiFlush: all the nodes are displayed and removed.
LEMMA Flushed ==
  ASSUME NEW m, NEW H, NEW K, NEW U, NEW shown, NEW N, MngrInv(m, H, K, U, shown, N)
  PROVE  /\ MngrInv(Flush(m), H, K, U, shown, N)
         /\ Flush(m).nodes = <<>> /\ DpbShrinks(m, Flush(m), shown)
         /\ m.nodes = <<>> => Flush(m) = m
  <1> DEFINE n == Len(m.nodes)
  <1>1. m \in PictMngrs /\ m.nodes \in Seq(Node)
    BY DEF MngrInv, PictMngrs
  <1>2. n \in Nat /\ (m.nodes = <<>> => n = 0)
    BY <1>1, LenProperties, EmptySeq
  <1>3. PICK r : Turns(r, "Flush", m, m.nodes, n) /\ Flush(m) = r[n]
    BY <1>2, FlushSteps
  <1> HIDE DEF n
  <1>4. r[0] = m /\ \A i \in 1 .. n : r[i] = RemoveHead(r[i - 1])
    BY <1>3 DEF Turns, LoopBody
  <1> DEFINE Good(i) == /\ MngrInv(r[i], H, K, U, shown, N)
                        /\ Len(r[i].nodes) = n - i
                        /\ DpbShrinks(m, r[i], shown)
             G == {i \in 0 .. n : Good(i)}
  <1>5. 0 \in G
    <2>1. DpbShrinks(m, m, shown)
      BY <1>1, ShrinksSame
    <2> QED BY <1>2, <1>4, <2>1 DEF n
  <1>6. ASSUME NEW i \in 1 .. n, i - 1 \in G PROVE i \in G
    <2> DEFINE p == r[i - 1]
               q == DisplayAndRemove(p, 1)
    <2>1. MngrInv(p, H, K, U, shown, N) /\ Len(p.nodes) = n - (i - 1) /\ DpbShrinks(m, p, shown)
      BY <1>6
    <2>2. q = r[i]
      BY <1>4 DEF RemoveHead
    <2> HIDE DEF p, q
    <2>3. p \in PictMngrs /\ 1 \in DOMAIN p.nodes
      <3>1. p \in PictMngrs /\ p.nodes \in Seq(Node)
        BY <2>1 DEF MngrInv, PictMngrs
      <3>2. DOMAIN p.nodes = 1 .. Len(p.nodes)
        BY <3>1, LenProperties
      <3> QED BY <1>2, <2>1, <3>1, <3>2
    <2>4. /\ MngrInv(q, H, K, U, shown, N) /\ Len(q.nodes) = Len(p.nodes) - 1
          /\ DpbShrinks(p, q, shown)
      BY ONLY <2>1, <2>3, DisplayedAndRemoved DEF q
    <2>5. DpbShrinks(m, q, shown)
      <3>1. q \in PictMngrs
        BY <2>4 DEF MngrInv
      <3> QED BY ONLY <1>1, <2>1, <2>3, <2>4, <3>1, ShrinksTwice
    <2> QED BY <1>2, <2>1, <2>2, <2>4, <2>5
  <1> HIDE DEF G
  <1>7. n \in G
    <2>1. \A i \in 0 .. n : i \in G
      BY ONLY <1>2, <1>5, <1>6, LoopInduction
    <2> QED BY <1>2, <2>1
  <1>8. /\ MngrInv(r[n], H, K, U, shown, N) /\ Len(r[n].nodes) = 0
        /\ DpbShrinks(m, r[n], shown)
    BY <1>2, <1>7 DEF G
  <1>9. r[n].nodes = <<>>
    <2>1. r[n].nodes \in Seq(Node)
      BY <1>8 DEF MngrInv, PictMngrs
    <2> QED BY <1>8, <2>1, EmptySeq
  <1> QED BY <1>2, <1>3, <1>4, <1>8, <1>9

\* What SelectInSeq finds.
LEMMA NodeFound ==
  ASSUME NEW m, m \in PictMngrs, NEW f
  PROVE  /\ PositionOf(m, f) = 0 <=> f \notin FramesOf(m.nodes)
         /\ PositionOf(m, f) # 0 => /\ PositionOf(m, f) \in DOMAIN m.nodes
                                    /\ m.nodes[PositionOf(m, f)].frm = f
  <1> DEFINE I == {i \in DOMAIN m.nodes : m.nodes[i].frm = f}
  <1>1. DOMAIN m.nodes = 1 .. Len(m.nodes) /\ Len(m.nodes) \in Nat
    <2>1. m.nodes \in Seq(Node)
      BY DEF PictMngrs
    <2> QED BY <2>1, LenProperties
  <1>2. PositionOf(m, f) = IF I # {} THEN Min(I) ELSE 0
    BY <1>1 DEF PositionOf, SelectInSeq
  <1>3. I # {} => Min(I) \in I
    <2> HAVE I # {}
    <2>1. I \in SUBSET Nat
      BY <1>1
    <2> HIDE DEF I
    <2>2. \E i \in I : \A j \in I : i <= j
      BY <2>1, LeastExists
    <2> QED BY <2>2 DEF Min
  <1>4. I = {} <=> f \notin FramesOf(m.nodes)
    BY DEF FramesOf
  <1> HIDE DEF PositionOf
  <1> QED BY <1>1, <1>2, <1>3, <1>4

\* AL_AVC_Dpb_EndParsing
LEMMA ParsingEnded ==
  ASSUME NEW m, NEW H, NEW K, NEW U, NEW shown, NEW N,
         MngrInv(m, H, K, U, shown, N), NEW poc
  PROVE  /\ MngrInv(EndParsing(m, poc), H, K, U, shown, N)
         /\ DpbShrinks(m, EndParsing(m, poc), shown)
         /\ m.nodes = <<>> => EndParsing(m, poc) = m
  <1> DEFINE I == {i \in 1 .. Len(m.nodes) : m.nodes[i].iFramePOC = poc /\ m.nodes[i].isRef}
             at == IF I # {} THEN Min(I) ELSE 0
  <1>1. m \in PictMngrs /\ m.nodes \in Seq(Node)
    BY DEF MngrInv, PictMngrs
  <1>2. DOMAIN m.nodes = 1 .. Len(m.nodes) /\ Len(m.nodes) \in Nat
    BY <1>1, LenProperties
  <1>3. at = 0 \/ at \in DOMAIN m.nodes
    <2>1. I \in SUBSET Nat
      BY <1>2
    <2>2. I \subseteq DOMAIN m.nodes
      BY <1>2
    <2> HIDE DEF I
    <2>3. I # {} => \E i \in I : \A j \in I : i <= j
      BY <2>1, LeastExists
    <2> QED BY <2>2, <2>3 DEF Min
  <1>4. EndParsing(m, poc) = IF at = 0 THEN m
                             ELSE IF m.nodes[at].bPicOutputFlag THEN DisplayAndRemove(m, at)
                                  ELSE RemoveNode(m, at)
    BY DEF EndParsing, SelectInSeq
  <1> HIDE DEF at
  <1>5. m.nodes = <<>> => at = 0
    BY <1>2, <1>3
  <1>6. CASE at = 0
    BY <1>1, <1>4, <1>6, ShrinksSame
  <1>7. CASE at # 0 /\ m.nodes[at].bPicOutputFlag
    <2>1. at \in DOMAIN m.nodes /\ EndParsing(m, poc) = DisplayAndRemove(m, at)
      BY <1>3, <1>4, <1>7
    <2> QED BY <1>5, <1>7, <2>1, DisplayedAndRemoved
  <1>8. CASE at # 0 /\ ~m.nodes[at].bPicOutputFlag
    <2>1. at \in DOMAIN m.nodes /\ EndParsing(m, poc) = RemoveNode(m, at)
      BY <1>3, <1>4, <1>8
    <2> QED BY <1>5, <1>8, <2>1, NodeRemoved
  <1> QED BY <1>6, <1>7, <1>8

\* The nodes of no more use are removed.
LEMMA UselessRemoved ==
  ASSUME NEW m, NEW H, NEW K, NEW U, NEW shown, NEW N, MngrInv(m, H, K, U, shown, N)
  PROVE  /\ MngrInv(RemoveUseless(m), H, K, U, shown, N)
         /\ DpbShrinks(m, RemoveUseless(m), shown)
  <1> DEFINE n == Len(m.nodes)
  <1>1. m \in PictMngrs /\ m.nodes \in Seq(Node) /\ DistinctFrames(m.nodes)
    BY DEF MngrInv, PictMngrs, QueuedOnce
  <1>2. n \in Nat /\ DOMAIN m.nodes = 1 .. n
    BY <1>1, LenProperties
  <1>3. PICK r : Turns(r, "RemoveUseless", m, m.nodes, n) /\ RemoveUseless(m) = r[n]
    BY <1>2, RemoveUselessSteps
  <1> HIDE DEF n
  <1>4. r[0] = m /\ \A i \in 1 .. n : r[i] = RemoveIfUseless(r[i - 1], m.nodes[i])
    BY <1>3 DEF Turns, LoopBody
  <1> DEFINE Part(p) == \A j \in DOMAIN p.nodes : \E k \in DOMAIN m.nodes : p.nodes[j] = m.nodes[k]
             Left(p, i) == \A k \in i + 1 .. n : m.nodes[k].frm \in FramesOf(p.nodes)
             Good(i) == /\ MngrInv(r[i], H, K, U, shown, N) /\ DpbShrinks(m, r[i], shown)
                        /\ Part(r[i]) /\ Left(r[i], i)
             G == {i \in 0 .. n : Good(i)}
  <1>5. 0 \in G
    <2>1. DpbShrinks(m, m, shown)
      BY <1>1, ShrinksSame
    <2>2. Part(m) /\ Left(m, 0)
      BY <1>2 DEF FramesOf
    <2> HIDE DEF Part, Left
    <2> QED BY <1>2, <1>4, <2>1, <2>2
  <1>6. ASSUME NEW i \in 1 .. n, i - 1 \in G PROVE i \in G
    <2> DEFINE p == r[i - 1]
               x == m.nodes[i]
               at == PositionOf(p, x.frm)
               q == RemoveNode(p, at)
    <2>1. /\ MngrInv(p, H, K, U, shown, N) /\ DpbShrinks(m, p, shown)
          /\ Part(p) /\ Left(p, i - 1)
      BY <1>6
    <2>2. r[i] = IF IsUseless(x) THEN q ELSE p
      BY <1>4 DEF RemoveIfUseless
    <2>3. \A k \in i + 1 .. n : k \in (i - 1) + 1 .. n
      BY <1>2
    <2>4. CASE ~IsUseless(x)
      <3>1. Left(p, i)
        BY <2>1, <2>3
      <3> HIDE DEF Part, Left
      <3> QED BY <1>2, <2>1, <2>2, <2>4, <3>1
    <2>5. CASE IsUseless(x)
      <3>1. p \in PictMngrs /\ p.nodes \in Seq(Node)
        BY <2>1 DEF MngrInv, PictMngrs
      <3>2. x.frm \in FramesOf(p.nodes)
        <4>1. i \in (i - 1) + 1 .. n
          BY <1>2
        <4> QED BY <2>1, <4>1
      <3>3. at \in DOMAIN p.nodes /\ p.nodes[at].frm = x.frm
        BY <3>1, <3>2, NodeFound
      <3> HIDE DEF at
      <3>4. p.nodes[at] = x
        <4>1. PICK k \in DOMAIN m.nodes : p.nodes[at] = m.nodes[k]
          BY <2>1, <3>3
        <4> QED BY <1>1, <1>2, <3>3, <4>1 DEF DistinctFrames
      <3>5. ~p.nodes[at].bPicOutputFlag
        BY <2>5, <3>4 DEF IsUseless
      <3> HIDE DEF p, x
      <3>6. /\ MngrInv(q, H, K, U, shown, N) /\ Grown(q.nodes, p.nodes, at)
            /\ DpbShrinks(p, q, shown)
        BY ONLY <2>1, <3>3, <3>5, NodeRemoved
      <3> HIDE DEF q
      <3>7. q \in PictMngrs /\ q.nodes \in Seq(Node)
        BY <3>6 DEF MngrInv, PictMngrs
      <3>8. DpbShrinks(m, q, shown)
        BY ONLY <1>1, <2>1, <3>1, <3>6, <3>7, ShrinksTwice
      <3>9. /\ \A j \in DOMAIN q.nodes : \E k \in DOMAIN p.nodes : k # at /\ q.nodes[j] = p.nodes[k]
            /\ FramesOf(p.nodes) = FramesOf(q.nodes) \cup {p.nodes[at].frm}
        BY ONLY <3>1, <3>6, <3>7, GrownElements
      <3>10. Part(q)
        BY <2>1, <3>9
      <3>11. Left(q, i)
        <4> TAKE k \in i + 1 .. n
        <4>1. m.nodes[k].frm \in FramesOf(p.nodes)
          BY <2>1, <2>3
        <4>2. m.nodes[k].frm # x.frm
          <5>1. k \in DOMAIN m.nodes /\ i \in DOMAIN m.nodes /\ k # i
            BY <1>2
          <5> QED BY <1>1, <5>1 DEF DistinctFrames, x
        <4> QED BY <3>4, <3>9, <4>1, <4>2
      <3> HIDE DEF Part, Left
      <3> QED BY <1>2, <2>2, <2>5, <3>6, <3>8, <3>10, <3>11
    <2> QED BY <2>4, <2>5
  <1> HIDE DEF G
  <1>7. n \in G
    <2>1. \A i \in 0 .. n : i \in G
      BY ONLY <1>2, <1>5, <1>6, LoopInduction
    <2> QED BY <1>2, <2>1
  <1> QED BY <1>3, <1>7 DEF G

\* While the DPB is too full, the nodes that are not references are displayed
\* and go; there are not too many references.
LEMMA RoomMade ==
  ASSUME NEW m, NEW H, NEW K, NEW U, NEW shown, NEW N, MngrInv(m, H, K, U, shown, N)
  PROVE  /\ MngrInv(MakeRoom(m), H, K, U, shown, N)
         /\ DpbShrinks(m, MakeRoom(m), shown)
         /\ NumRef(m.nodes) <= uNumRef => Len(MakeRoom(m).nodes) <= uNumRef
  <1> DEFINE n == Len(m.nodes)
  <1>1. /\ m \in PictMngrs /\ m.nodes \in Seq(Node) /\ DistinctFrames(m.nodes)
        /\ uNumRef \in Nat
    BY FlowAssumption DEF MngrInv, PictMngrs, QueuedOnce
  <1>2. n \in Nat /\ DOMAIN m.nodes = 1 .. n
    BY <1>1, LenProperties
  <1>3. PICK r : Turns(r, "MakeRoom", m, m.nodes, n) /\ MakeRoom(m) = r[n]
    BY <1>2, MakeRoomSteps
  <1> HIDE DEF n
  <1>4. r[0] = m /\ \A i \in 1 .. n : r[i] = Bump(r[i - 1], m.nodes[i])
    BY <1>3 DEF Turns, LoopBody
  <1> DEFINE Left(p, i) == \A k \in i + 1 .. n : m.nodes[k].frm \in FramesOf(p.nodes)
             Done(p, i) == Len(p.nodes) > uNumRef =>
                              \A j \in DOMAIN p.nodes :
                                 \/ p.nodes[j].isRef
                                 \/ \E k \in i + 1 .. n : m.nodes[k].frm = p.nodes[j].frm
             Good(i) == /\ MngrInv(r[i], H, K, U, shown, N) /\ DpbShrinks(m, r[i], shown)
                        /\ Left(r[i], i) /\ Done(r[i], i)
             G == {i \in 0 .. n : Good(i)}
  <1>5. 0 \in G
    <2>1. DpbShrinks(m, m, shown)
      BY <1>1, ShrinksSame
    <2>2. Left(m, 0) /\ Done(m, 0)
      BY <1>2 DEF FramesOf
    <2> HIDE DEF Left, Done
    <2> QED BY <1>2, <1>4, <2>1, <2>2
  <1>6. ASSUME NEW i \in 1 .. n, i - 1 \in G PROVE i \in G
    <2> DEFINE p == r[i - 1]
               x == m.nodes[i]
               at == PositionOf(p, x.frm)
               q == DisplayAndRemove(p, at)
    <2>1. /\ MngrInv(p, H, K, U, shown, N) /\ DpbShrinks(m, p, shown)
          /\ Left(p, i - 1) /\ Done(p, i - 1)
      BY <1>6
    <2>2. r[i] = IF Len(p.nodes) > uNumRef /\ ~x.isRef THEN q ELSE p
      BY <1>4 DEF Bump
    <2>3. /\ \A k \in i + 1 .. n : k \in (i - 1) + 1 .. n
          /\ \A k \in (i - 1) + 1 .. n : k = i \/ k \in i + 1 .. n
      BY <1>2
    <2>4. p \in PictMngrs /\ p.nodes \in Seq(Node) /\ Len(p.nodes) \in Nat
      <3>1. p \in PictMngrs /\ p.nodes \in Seq(Node)
        BY <2>1 DEF MngrInv, PictMngrs
      <3> QED BY <3>1, LenProperties
    <2>5. CASE ~(Len(p.nodes) > uNumRef /\ ~x.isRef)
      <3>1. Left(p, i)
        BY <2>1, <2>3
      <3>2. Done(p, i)
        <4> SUFFICES ASSUME Len(p.nodes) > uNumRef, NEW j \in DOMAIN p.nodes, ~p.nodes[j].isRef
                     PROVE  \E k \in i + 1 .. n : m.nodes[k].frm = p.nodes[j].frm
          OBVIOUS
        <4>1. PICK k \in (i - 1) + 1 .. n : m.nodes[k].frm = p.nodes[j].frm
          BY <2>1
        <4>2. PICK k2 \in DOMAIN m.nodes : p.nodes[j].frm = m.nodes[k2].frm
                                           /\ (p.nodes[j].isRef <=> m.nodes[k2].isRef)
          BY <2>1 DEF DpbShrinks
        <4>3. k = k2
          <5>1. k \in DOMAIN m.nodes
            BY <1>2
          <5> QED BY <1>1, <4>1, <4>2, <5>1 DEF DistinctFrames
        <4>4. k # i
          BY <2>5, <4>2, <4>3
        <4> QED BY <2>3, <4>1, <4>4
      <3> HIDE DEF Left, Done
      <3> QED BY <1>2, <2>1, <2>2, <2>5, <3>1, <3>2
    <2>6. CASE Len(p.nodes) > uNumRef /\ ~x.isRef
      <3>1. x.frm \in FramesOf(p.nodes)
        <4>1. i \in (i - 1) + 1 .. n
          BY <1>2
        <4> QED BY <2>1, <4>1
      <3>2. at \in DOMAIN p.nodes /\ p.nodes[at].frm = x.frm
        BY <2>4, <3>1, NodeFound
      <3> HIDE DEF at, p, x
      <3>3. /\ MngrInv(q, H, K, U, shown, N) /\ Len(q.nodes) = Len(p.nodes) - 1
            /\ DpbShrinks(p, q, shown)
            /\ FramesOf(q.nodes) = FramesOf(p.nodes) \ {p.nodes[at].frm}
        BY ONLY <2>1, <3>2, DisplayedAndRemoved
      <3> HIDE DEF q
      <3>4. q \in PictMngrs /\ q.nodes \in Seq(Node)
        BY <3>3 DEF MngrInv, PictMngrs
      <3>5. DpbShrinks(m, q, shown)
        BY ONLY <1>1, <2>1, <2>4, <3>3, <3>4, ShrinksTwice
      <3>6. Left(q, i)
        <4> TAKE k \in i + 1 .. n
        <4>1. m.nodes[k].frm \in FramesOf(p.nodes)
          BY <2>1, <2>3
        <4>2. m.nodes[k].frm # x.frm
          <5>1. k \in DOMAIN m.nodes /\ i \in DOMAIN m.nodes /\ k # i
            BY <1>2
          <5> QED BY <1>1, <5>1 DEF DistinctFrames, x
        <4> QED BY <3>2, <3>3, <4>1, <4>2
      <3>7. Done(q, i)
        <4> SUFFICES ASSUME NEW j \in DOMAIN q.nodes, ~q.nodes[j].isRef
                     PROVE  \E k \in i + 1 .. n : m.nodes[k].frm = q.nodes[j].frm
          OBVIOUS
        <4>1. PICK jp \in DOMAIN p.nodes : q.nodes[j].frm = p.nodes[jp].frm
                                           /\ (q.nodes[j].isRef <=> p.nodes[jp].isRef)
          BY <3>3 DEF DpbShrinks
        <4>2. PICK k \in (i - 1) + 1 .. n : m.nodes[k].frm = p.nodes[jp].frm
          BY <2>1, <2>6, <4>1
        <4>3. k # i
          <5>1. q.nodes[j].frm \in FramesOf(q.nodes)
            BY DEF FramesOf
          <5> QED BY <3>2, <3>3, <4>1, <4>2, <5>1 DEF x
        <4> QED BY <2>3, <4>1, <4>2, <4>3
      <3> HIDE DEF Left, Done
      <3> QED BY <1>2, <2>2, <2>6, <3>3, <3>5, <3>6, <3>7
    <2> QED BY <2>5, <2>6
  <1> HIDE DEF G
  <1>7. n \in G
    <2>1. \A i \in 0 .. n : i \in G
      BY ONLY <1>2, <1>5, <1>6, LoopInduction
    <2> QED BY <1>2, <2>1
  <1>8. /\ MngrInv(r[n], H, K, U, shown, N) /\ DpbShrinks(m, r[n], shown)
        /\ Done(r[n], n)
    BY <1>7 DEF G
  <1>9. ASSUME NumRef(m.nodes) <= uNumRef, Len(r[n].nodes) > uNumRef PROVE FALSE
    <2>1. r[n].nodes \in Seq(Node)
      BY <1>8 DEF MngrInv, PictMngrs
    <2>2. \A j \in DOMAIN r[n].nodes : r[n].nodes[j].isRef
      <3>1. n + 1 .. n = {}
        BY <1>2
      <3> QED BY <1>8, <1>9, <3>1
    <2>3. NumRef(r[n].nodes) = Len(r[n].nodes) /\ Len(r[n].nodes) \in Nat
      BY <2>1, <2>2, RefsType, LenProperties
    <2>4. NumRef(r[n].nodes) <= NumRef(m.nodes) /\ NumRef(m.nodes) \in Nat
      BY <1>1, <1>8, RefsType DEF DpbShrinks
    <2> QED BY <1>1, <1>9, <2>3, <2>4
  <1>10. Len(r[n].nodes) \in Nat
    <2>1. r[n].nodes \in Seq(Node)
      BY <1>8 DEF MngrInv, PictMngrs
    <2> QED BY <2>1, LenProperties
  <1> QED BY <1>1, <1>3, <1>8, <1>9, <1>10

\* What DpbShrinks says, except of the references.
DpbKeeps(m, q, shown) ==
    /\ \A i \in DOMAIN q.nodes : \E j \in DOMAIN m.nodes :
          q.nodes[i].frm = m.nodes[j].frm /\ q.nodes[i].pic = m.nodes[j].pic
    /\ Range(q.dispFifo) \subseteq Range(m.dispFifo) \cup FramesOf(m.nodes)
    /\ Len(q.nodes) <= Len(m.nodes)
    /\ ToOutput(q, shown) = ToOutput(m, shown)

\* The oldest reference is marked as unused.
LEMMA WindowMarked ==
  ASSUME NEW m, NEW H, NEW K, NEW U, NEW shown, NEW N, MngrInv(m, H, K, U, shown, N)
  PROVE  /\ MngrInv(SlidingWindowMarking(m), H, K, U, shown, N)
         /\ DpbKeeps(m, SlidingWindowMarking(m), shown)
         /\ NumRef(m.nodes) <= uNumRef + 1 => NumRef(SlidingWindowMarking(m).nodes) <= uNumRef
  <1> DEFINE refs == {i \in DOMAIN m.nodes : m.nodes[i].isRef}
             oldest == CHOOSE i \in refs : \A j \in refs : m.nodes[i].pic <= m.nodes[j].pic
             e == [m.nodes[oldest] EXCEPT !.isRef = FALSE]
             ns == [m.nodes EXCEPT ![oldest] = e]
             q == [m EXCEPT !.nodes = ns]
             c == Cardinality(refs)
  <1>1. /\ m \in PictMngrs /\ m.nodes \in Seq(Node) /\ uNumRef \in Nat \ {0}
        /\ max_num_ref_frames \in Nat \ {0}
    BY FlowAssumption DEF MngrInv, PictMngrs
  <1>2. /\ DOMAIN m.nodes = 1 .. Len(m.nodes) /\ Len(m.nodes) \in Nat
        /\ \A j \in DOMAIN m.nodes : m.nodes[j] \in Node
    BY <1>1, LenProperties, ElementOfSeq
  <1>3. c = NumRef(m.nodes) /\ c \in Nat /\ (refs = {} => c = 0)
    <2>1. c = NumRef(m.nodes)
      BY DEF NumRef, Occurrences
    <2>2. NumRef(m.nodes) \in Nat
      BY <1>1, RefsType
    <2>3. refs = {} => c = 0
      BY FS_EmptySet
    <2> HIDE DEF c
    <2> QED BY <2>1, <2>2, <2>3
  <1>4. SlidingWindowMarking(m) = IF c > uNumRef \/ c > max_num_ref_frames THEN q ELSE m
    BY DEF SlidingWindowMarking
  <1>5. CASE ~(c > uNumRef \/ c > max_num_ref_frames)
    <2>1. SlidingWindowMarking(m) = m /\ c <= uNumRef
      <3> HIDE DEF q, c
      <3> QED BY <1>1, <1>3, <1>4, <1>5
    <2>2. DpbKeeps(m, m, shown)
      BY <1>2 DEF DpbKeeps
    <2> HIDE DEF c
    <2> QED BY <1>3, <2>1, <2>2
  <1>6. CASE c > uNumRef \/ c > max_num_ref_frames
    <2>1. refs # {}
      <3> HIDE DEF c
      <3> QED BY <1>1, <1>3, <1>6
    <2>2. oldest \in refs
      <3> DEFINE P == {m.nodes[i].pic : i \in refs}
      <3>1. P \in SUBSET Nat
        BY <1>2 DEF Node
      <3>2. P # {}
        BY <2>1
      <3> HIDE DEF P
      <3>3. PICK p \in P : \A x \in P : p <= x
        BY <3>1, <3>2, LeastExists
      <3>4. PICK i \in refs : m.nodes[i].pic = p
        BY DEF P
      <3>5. \A j \in refs : m.nodes[i].pic <= m.nodes[j].pic
        BY <3>3, <3>4 DEF P
      <3> HIDE DEF refs
      <3> QED BY <3>5
    <2>3. oldest \in DOMAIN m.nodes /\ m.nodes[oldest].isRef
      BY <2>2
    <2> HIDE DEF oldest
    <2>4. /\ m.nodes[oldest] \in Node /\ e \in Node
          /\ e.frm = m.nodes[oldest].frm /\ e.mv = m.nodes[oldest].mv
          /\ e.pic = m.nodes[oldest].pic /\ ~e.isRef
          /\ e.bPicOutputFlag <=> m.nodes[oldest].bPicOutputFlag
      BY <1>2, <2>3 DEF Node
    <2> HIDE DEF e
    <2>5. /\ ns \in Seq(Node) /\ Len(ns) = Len(m.nodes)
          /\ \A j \in DOMAIN m.nodes : ns[j] = IF j = oldest THEN e ELSE m.nodes[j]
          /\ DOMAIN ns = DOMAIN m.nodes
      BY <1>1, <1>2, <2>3, <2>4, ExceptSeq
    <2>6. /\ \A g : FrmRefs(ns, g) = FrmRefs(m.nodes, g)
          /\ \A a : MvRefs(ns, a) = MvRefs(m.nodes, a)
          /\ NumOutput(ns) = NumOutput(m.nodes)
          /\ NumRef(ns) = NumRef(m.nodes) - 1
      <3>1. ns = [m.nodes EXCEPT ![oldest] = e]
        OBVIOUS
      <3> HIDE DEF ns
      <3>2. /\ \A g : FrmRefs(ns, g) = FrmRefs(m.nodes, g)
            /\ \A a : MvRefs(ns, a) = MvRefs(m.nodes, a)
            /\ NumOutput(ns) = NumOutput(m.nodes)
            /\ NumRef(ns) = NumRef(m.nodes) - (IF m.nodes[oldest].isRef THEN 1 ELSE 0)
        BY ONLY <1>1, <2>3, <2>4, <3>1, RefsReplaced
      <3> QED BY <2>3, <3>2
    <2>7. /\ q.nodes = ns /\ q.deleted = m.deleted /\ q.dispFifo = m.dispFifo
          /\ q.iAccessCnt = m.iAccessCnt /\ q.bToBeDisplayed = m.bToBeDisplayed
          /\ q.avail = m.avail /\ q.mvAccessCnt = m.mvAccessCnt /\ q.mvFree = m.mvFree
          /\ q.pFrmStatus = m.pFrmStatus
          /\ q \in PictMngrs
      <3> HIDE DEF ns
      <3> QED BY <1>1, <2>5 DEF PictMngrs
    <2>8. SlidingWindowMarking(m) = q
      <3> HIDE DEF q, c
      <3> QED BY <1>4, <1>6
    <2> HIDE DEF q, ns, c
    <2>9. \A j \in DOMAIN q.nodes :
             /\ j \in DOMAIN m.nodes
             /\ q.nodes[j].frm = m.nodes[j].frm /\ q.nodes[j].pic = m.nodes[j].pic
             /\ q.nodes[j].bPicOutputFlag <=> m.nodes[j].bPicOutputFlag
      BY <2>4, <2>5, <2>7
    <2>10. Counted(q, H, K)
      BY <2>6, <2>7 DEF MngrInv, Counted, DpbFrm, DpbMv
    <2>11. AvailableIsFree(q) /\ UserIsKnown(q, U)
      BY <2>7 DEF MngrInv, AvailableIsFree, UserIsKnown
    <2>12. QueuedOnce(q, U, shown)
      <3>1. DistinctFrames(q.nodes)
        BY <2>9 DEF MngrInv, QueuedOnce, DistinctFrames
      <3> QED BY <2>7, <2>9, <3>1 DEF MngrInv, QueuedOnce
    <2>13. StatusIsKnown(q, U, shown, N)
      BY <2>7, <2>9 DEF MngrInv, StatusIsKnown
    <2>14. MngrInv(q, H, K, U, shown, N)
      BY <2>7, <2>10, <2>11, <2>12, <2>13 DEF MngrInv
    <2>15. DpbKeeps(m, q, shown)
      BY <1>2, <2>5, <2>6, <2>7, <2>9 DEF DpbKeeps, ToOutput
    <2> QED BY <1>1, <1>3, <2>6, <2>7, <2>8, <2>14, <2>15
  <1> QED BY <1>5, <1>6

\* AL_Dpb_AVC_Cleanup
LEMMA CleanedUp ==
  ASSUME NEW m, NEW H, NEW K, NEW U, NEW shown, NEW N, MngrInv(m, H, K, U, shown, N)
  PROVE  /\ MngrInv(AVC_Cleanup(m), H, K, U, shown, N)
         /\ DpbShrinks(m, AVC_Cleanup(m), shown)
         /\ NumRef(m.nodes) <= uNumRef => Len(AVC_Cleanup(m).nodes) <= uNumRef
  <1> DEFINE p == RemoveUseless(m)
             q == MakeRoom(p)
  <1>1. MngrInv(p, H, K, U, shown, N) /\ DpbShrinks(m, p, shown)
    BY UselessRemoved
  <1>2. AVC_Cleanup(m) = q
    BY DEF AVC_Cleanup
  <1> HIDE DEF p
  <1>3. /\ MngrInv(q, H, K, U, shown, N) /\ DpbShrinks(p, q, shown)
        /\ NumRef(p.nodes) <= uNumRef => Len(q.nodes) <= uNumRef
    BY ONLY <1>1, RoomMade
  <1> HIDE DEF q
  <1>4. m \in PictMngrs /\ p \in PictMngrs /\ q \in PictMngrs
    BY <1>1, <1>3 DEF MngrInv
  <1>5. DpbShrinks(m, q, shown)
    BY ONLY <1>1, <1>3, <1>4, ShrinksTwice
  <1>6. NumRef(m.nodes) \in Nat /\ NumRef(p.nodes) \in Nat /\ uNumRef \in Nat
    <2>1. m.nodes \in Seq(Node) /\ p.nodes \in Seq(Node)
      BY <1>4 DEF PictMngrs
    <2> QED BY <2>1, RefsType, FlowAssumption
  <1>7. NumRef(p.nodes) <= NumRef(m.nodes)
    BY <1>1 DEF DpbShrinks
  <1> QED BY <1>2, <1>3, <1>5, <1>6, <1>7

\* The marking of a reference, and then a removal.
LEMMA KeepsThenShrinks ==
  ASSUME NEW m, NEW q, NEW r, NEW shown,
         m \in PictMngrs, q \in PictMngrs, r \in PictMngrs,
         DpbKeeps(m, q, shown), DpbShrinks(q, r, shown)
  PROVE  DpbKeeps(m, r, shown)
  <1>1. /\ m.nodes \in Seq(Node) /\ q.nodes \in Seq(Node) /\ r.nodes \in Seq(Node)
    BY DEF PictMngrs
  <1>2. /\ Len(m.nodes) \in Nat /\ Len(q.nodes) \in Nat /\ Len(r.nodes) \in Nat
    BY <1>1, LenProperties
  <1>3. FramesOf(q.nodes) \subseteq FramesOf(m.nodes)
    BY DEF DpbKeeps, FramesOf
  <1>4. Range(r.dispFifo) \subseteq Range(m.dispFifo) \cup FramesOf(m.nodes)
    BY <1>3 DEF DpbKeeps, DpbShrinks
  <1>5. Len(r.nodes) <= Len(m.nodes) /\ ToOutput(r, shown) = ToOutput(m, shown)
    BY <1>2 DEF DpbKeeps, DpbShrinks
  <1>6. ASSUME NEW i \in DOMAIN r.nodes
        PROVE  \E j \in DOMAIN m.nodes :
                  r.nodes[i].frm = m.nodes[j].frm /\ r.nodes[i].pic = m.nodes[j].pic
    <2>1. PICK k \in DOMAIN q.nodes :
             r.nodes[i].frm = q.nodes[k].frm /\ r.nodes[i].pic = q.nodes[k].pic
      BY DEF DpbShrinks
    <2>2. PICK j \in DOMAIN m.nodes :
             q.nodes[k].frm = m.nodes[j].frm /\ q.nodes[k].pic = m.nodes[j].pic
      BY DEF DpbKeeps
    <2> QED BY <2>1, <2>2
  <1> QED BY <1>4, <1>5, <1>6 DEF DpbKeeps

\* sApiInsert: the frame of the new node is nobody else's, and not decoded yet.
LEMMA NodeInserted ==
  ASSUME NEW m, NEW H, NEW K, NEW U, NEW shown, NEW N, MngrInv(m, H, K, U, shown, N),
         NEW node \in Node, node.bPicOutputFlag,
         H[node.frm] > 0, K[node.mv] > 0,
         node.frm \notin FramesOf(m.nodes), node.frm \notin Range(m.dispFifo),
         node.frm \notin U
  PROVE  /\ MngrInv(Insert(m, node), H, K, U, shown, N \cup {node.frm})
         /\ \E at : /\ Grown(m.nodes, Insert(m, node).nodes, at)
                    /\ Insert(m, node).nodes[at] = node
         /\ Insert(m, node).dispFifo = m.dispFifo
         /\ ToOutput(Insert(m, node), shown) = ToOutput(m, shown) + 1
  <1> DEFINE f == node.frm
             a == node.mv
             I == {i \in 1 .. Len(m.nodes) : m.nodes[i].iFramePOC > node.iFramePOC}
             first == IF I # {} THEN Min(I) ELSE 0
             at == IF first = 0 THEN Len(m.nodes) + 1 ELSE first
             ns == InsertAt(m.nodes, at, node)
             q == Insert(m, node)
             N2 == N \cup {f}
  <1>1. /\ m \in PictMngrs /\ H \in [Frm -> Nat] /\ K \in [Annex -> Nat] /\ shown \in {0, 1}
        /\ m.iAccessCnt \in [Frm -> Nat \cup {-1}] /\ m.mvAccessCnt \in [Annex -> Nat]
        /\ m.nodes \in Seq(Node) /\ m.dispFifo \in Seq(Frm) /\ m.avail \in Seq(Frm)
        /\ m.mvFree \in Seq(Annex)
        /\ m.pFrmStatus \in [Frm -> {"not_ready", "ready", "not_needed"}]
        /\ f \in Frm /\ a \in Annex
    BY DEF MngrInv, PictMngrs, Node
  <1>2. DOMAIN m.nodes = 1 .. Len(m.nodes) /\ Len(m.nodes) \in Nat
    BY <1>1, LenProperties
  <1>3. at \in 1 .. Len(m.nodes) + 1
    <2>1. I \in SUBSET Nat /\ I \subseteq 1 .. Len(m.nodes)
      BY <1>2
    <2> HIDE DEF I
    <2>2. I # {} => \E i \in I : \A j \in I : i <= j
      BY <2>1, LeastExists
    <2>3. first = 0 \/ first \in I
      <3>1. CASE I = {}
        BY <3>1
      <3>2. CASE I # {}
        <4>1. Min(I) \in I
          BY <2>2, <3>2 DEF Min
        <4> QED BY <3>2, <4>1
      <3> QED BY <3>1, <3>2
    <2>4. first = 0 \/ first \in 1 .. Len(m.nodes)
      BY <2>1, <2>3
    <2> HIDE DEF first
    <2> QED BY ONLY <1>2, <2>4 DEF at
  <1>4. q = [m EXCEPT !.nodes = ns,
                      !.pFrmStatus = [m.pFrmStatus EXCEPT ![f] = "not_ready"],
                      !.iAccessCnt = [m.iAccessCnt EXCEPT ![f] = m.iAccessCnt[f] + 1],
                      !.mvAccessCnt = [m.mvAccessCnt EXCEPT ![a] = m.mvAccessCnt[a] + 1]]
    <2>1. q = Lock([m EXCEPT !.nodes = ns, !.pFrmStatus[f] = "not_ready"], node)
      BY DEF Insert, SelectInSeq
    <2> HIDE DEF q, ns
    <2> QED BY <1>1, <2>1 DEF Lock, IncrementAnnex, IncrementFrm, PictMngrs
  <1> HIDE DEF at
  <1>5. /\ ns \in Seq(Node) /\ Grown(m.nodes, ns, at) /\ ns[at] = node
    BY <1>1, <1>3, InsertAtGrown
  <1> HIDE DEF ns
  <1>6. /\ DpbFrm(m, f) \in Nat /\ DpbMv(m, a) \in Nat
        /\ m.iAccessCnt[f] = H[f] + DpbFrm(m, f) /\ m.iAccessCnt[f] > 0
        /\ m.mvAccessCnt[a] = K[a] + DpbMv(m, a) /\ m.mvAccessCnt[a] > 0
    <2>1. DpbFrm(m, f) \in Nat /\ DpbMv(m, a) \in Nat /\ H[f] \in Nat /\ K[a] \in Nat
      BY <1>1, DpbRefsType
    <2>2. m.mvAccessCnt[a] = K[a] + DpbMv(m, a)
      BY <1>1 DEF MngrInv, Counted
    <2>3. m.iAccessCnt[f] = H[f] + DpbFrm(m, f)
      BY <1>1, <2>1 DEF MngrInv, Counted
    <2> QED BY <2>1, <2>2, <2>3
  <1>7. /\ q.nodes = ns /\ q.deleted = m.deleted /\ q.dispFifo = m.dispFifo
        /\ q.bToBeDisplayed = m.bToBeDisplayed
        /\ q.avail = m.avail /\ q.mvFree = m.mvFree
        /\ q.pFrmStatus = [m.pFrmStatus EXCEPT ![f] = "not_ready"]
        /\ q.iAccessCnt = [m.iAccessCnt EXCEPT ![f] = m.iAccessCnt[f] + 1]
        /\ q.mvAccessCnt = [m.mvAccessCnt EXCEPT ![a] = m.mvAccessCnt[a] + 1]
        /\ q \in PictMngrs
    <2> HIDE DEF q
    <2>1. m.iAccessCnt[f] + 1 \in Nat /\ m.mvAccessCnt[a] + 1 \in Nat
      <3>1. m.iAccessCnt[f] \in Int /\ m.mvAccessCnt[a] \in Int
        BY <1>1
      <3> QED BY <1>6, <3>1
    <2>2. /\ [m.iAccessCnt EXCEPT ![f] = m.iAccessCnt[f] + 1] \in [Frm -> Nat \cup {-1}]
          /\ [m.mvAccessCnt EXCEPT ![a] = m.mvAccessCnt[a] + 1] \in [Annex -> Nat]
          /\ [m.pFrmStatus EXCEPT ![f] = "not_ready"]
                \in [Frm -> {"not_ready", "ready", "not_needed"}]
      BY <1>1, <2>1
    <2> QED BY <1>1, <1>4, <1>5, <2>2 DEF PictMngrs
  <1> HIDE DEF q, f, a
  <1>8. f = node.frm /\ a = node.mv
    BY DEF f, a
  <1>9. /\ \A g : FrmRefs(ns, g) = FrmRefs(m.nodes, g) + (IF f = g THEN 1 ELSE 0)
        /\ \A b : MvRefs(ns, b) = MvRefs(m.nodes, b) + (IF a = b THEN 1 ELSE 0)
        /\ NumOutput(ns) = NumOutput(m.nodes) + 1
    <2>1. /\ \A g : FrmRefs(ns, g) = FrmRefs(m.nodes, g) + (IF ns[at].frm = g THEN 1 ELSE 0)
          /\ \A b : MvRefs(ns, b) = MvRefs(m.nodes, b) + (IF ns[at].mv = b THEN 1 ELSE 0)
          /\ NumOutput(ns) = NumOutput(m.nodes) + (IF ns[at].bPicOutputFlag THEN 1 ELSE 0)
      BY ONLY <1>1, <1>5, RefsGrown
    <2> QED BY <1>5, <1>8, <2>1
  <1>10. /\ \A g : FrmRefs(m.nodes, g) \in Nat /\ FrmRefs(m.deleted, g) \in Nat
         /\ \A b : MvRefs(m.nodes, b) \in Nat /\ MvRefs(m.deleted, b) \in Nat
         /\ NumOutput(m.nodes) \in Nat
         /\ \A g : FifoRefs(m.dispFifo, g) \in Nat
    <2>1. m.deleted \in Seq(Entry)
      BY <1>1 DEF PictMngrs
    <2> QED BY <1>1, <2>1, RefsType
  <1>11. Counted(q, H, K)
    <2>1. ASSUME NEW g PROVE DpbFrm(q, g) = DpbFrm(m, g) + (IF f = g THEN 1 ELSE 0)
      BY <1>7, <1>9, <1>10 DEF DpbFrm
    <2>2. ASSUME NEW b PROVE DpbMv(q, b) = DpbMv(m, b) + (IF a = b THEN 1 ELSE 0)
      BY <1>7, <1>9, <1>10 DEF DpbMv
    <2>3. ASSUME NEW g \in Frm
          PROVE  /\ q.iAccessCnt[g] \in {H[g] + DpbFrm(q, g), -1}
                 /\ q.iAccessCnt[g] = -1 => H[g] + DpbFrm(q, g) = 0
      <3>1. CASE g = f
        <4>1. q.iAccessCnt[g] = m.iAccessCnt[g] + 1 /\ DpbFrm(q, g) = DpbFrm(m, g) + 1
          BY <1>1, <1>7, <2>1, <3>1
        <4>2. H[g] \in Nat /\ DpbFrm(m, g) \in Nat /\ m.iAccessCnt[g] = H[g] + DpbFrm(m, g)
          BY <1>1, <1>6, <3>1
        <4> QED BY ONLY <4>1, <4>2
      <3>2. CASE g # f
        <4>1. q.iAccessCnt[g] = m.iAccessCnt[g] /\ DpbFrm(q, g) = DpbFrm(m, g)
          <5>1. DpbFrm(m, g) \in Nat
            BY <1>10 DEF DpbFrm
          <5> QED BY <1>1, <1>7, <2>1, <3>2, <5>1
        <4> QED BY <4>1 DEF MngrInv, Counted
      <3> QED BY <3>1, <3>2
    <2>4. ASSUME NEW b \in Annex PROVE q.mvAccessCnt[b] = K[b] + DpbMv(q, b)
      <3>1. CASE b = a
        <4>1. q.mvAccessCnt[b] = m.mvAccessCnt[b] + 1 /\ DpbMv(q, b) = DpbMv(m, b) + 1
          BY <1>1, <1>7, <2>2, <3>1
        <4>2. K[b] \in Nat /\ DpbMv(m, b) \in Nat /\ m.mvAccessCnt[b] = K[b] + DpbMv(m, b)
          BY <1>1, <1>6, <3>1
        <4> QED BY ONLY <4>1, <4>2
      <3>2. CASE b # a
        <4>1. q.mvAccessCnt[b] = m.mvAccessCnt[b] /\ DpbMv(q, b) = DpbMv(m, b)
          <5>1. DpbMv(m, b) \in Nat
            BY <1>10 DEF DpbMv
          <5> QED BY <1>1, <1>7, <2>2, <3>2, <5>1
        <4> QED BY <4>1 DEF MngrInv, Counted
      <3> QED BY <3>1, <3>2
    <2> QED BY <2>3, <2>4 DEF Counted
  <1>12. AvailableIsFree(q)
    <2>1. /\ \A j \in DOMAIN m.avail : m.avail[j] \in Frm /\ m.iAccessCnt[m.avail[j]] = 0
          /\ \A j \in DOMAIN m.mvFree : m.mvFree[j] \in Annex /\ m.mvAccessCnt[m.mvFree[j]] = 0
      BY <1>1, LenProperties, ElementOfSeq DEF MngrInv, AvailableIsFree
    <2>2. /\ \A j \in DOMAIN m.avail : m.avail[j] # f
          /\ \A j \in DOMAIN m.mvFree : m.mvFree[j] # a
      BY <1>6, <2>1
    <2>3. IsInjective(m.avail) /\ IsInjective(m.mvFree)
      BY DEF MngrInv, AvailableIsFree
    <2>4. \A j \in DOMAIN m.avail : q.iAccessCnt[m.avail[j]] = 0
      BY ONLY <1>1, <1>7, <2>1, <2>2
    <2>5. \A j \in DOMAIN m.mvFree : q.mvAccessCnt[m.mvFree[j]] = 0
      BY ONLY <1>1, <1>7, <2>1, <2>2
    <2> QED BY ONLY <1>7, <2>3, <2>4, <2>5 DEF AvailableIsFree
  <1>13. UserIsKnown(q, U)
    <2>1. \A g \in U : g # f /\ g \in Frm
      BY <1>8 DEF MngrInv, UserIsKnown
    <2> QED BY <1>1, <1>7, <2>1 DEF MngrInv, UserIsKnown
  <1>14. \A j \in DOMAIN q.nodes :
            \/ q.nodes[j] = node
            \/ q.nodes[j].frm # f /\ \E k \in DOMAIN m.nodes : q.nodes[j] = m.nodes[k]
    <2>1. \A k \in DOMAIN ns : k # at => \E j \in DOMAIN m.nodes : m.nodes[j] = ns[k]
      BY ONLY <1>1, <1>5, GrownElements
    <2>2. \A k \in DOMAIN m.nodes : m.nodes[k].frm # f
      BY <1>8 DEF FramesOf
    <2> QED BY <1>5, <1>7, <2>1, <2>2
  <1>15. \A j \in DOMAIN m.dispFifo : m.dispFifo[j] # f /\ m.dispFifo[j] \in Frm
    BY <1>1, <1>8, LenProperties, ElementOfSeq DEF Range
  <1>16. QueuedOnce(q, U, shown)
    <2>1. DistinctFrames(q.nodes)
      <3> SUFFICES ASSUME NEW j \in DOMAIN ns, NEW k \in DOMAIN ns, ns[j].frm = ns[k].frm
                   PROVE  j = k
        BY <1>7 DEF DistinctFrames
      <3>1. /\ DOMAIN m.nodes = 1 .. Len(m.nodes) /\ DOMAIN ns = 1 .. Len(m.nodes) + 1
            /\ Len(m.nodes) \in Nat /\ at \in 1 .. Len(m.nodes) + 1
            /\ \A i \in 1 .. at - 1 : ns[i] = m.nodes[i]
            /\ \A i \in at .. Len(m.nodes) : ns[i + 1] = m.nodes[i]
        BY ONLY <1>1, <1>2, <1>3, <1>5, ns \in Seq(Node), LenProperties DEF Grown
      <3>2. ASSUME NEW i \in DOMAIN ns, i # at
            PROVE  \E p \in DOMAIN m.nodes : p = (IF i < at THEN i ELSE i - 1) /\ ns[i] = m.nodes[p]
        <4>1. CASE i < at
          <5>1. i \in 1 .. at - 1 /\ i \in DOMAIN m.nodes
            BY ONLY <3>1, <4>1, i \in DOMAIN ns
          <5> QED BY <3>1, <4>1, <5>1
        <4>2. CASE i > at
          <5>1. i - 1 \in at .. Len(m.nodes) /\ (i - 1) + 1 = i /\ i - 1 \in DOMAIN m.nodes
            BY <3>1, <4>2
          <5> QED BY <3>1, <4>2, <5>1
        <4> QED BY <3>1, <3>2, <4>1, <4>2
      <3>3. \A p \in DOMAIN m.nodes : m.nodes[p].frm # f
        BY <1>8 DEF FramesOf
      <3>4. CASE j # at /\ k # at
        <4>1. PICK p \in DOMAIN m.nodes : p = (IF j < at THEN j ELSE j - 1) /\ ns[j] = m.nodes[p]
          BY <3>2, <3>4
        <4>2. PICK r \in DOMAIN m.nodes : r = (IF k < at THEN k ELSE k - 1) /\ ns[k] = m.nodes[r]
          BY <3>2, <3>4
        <4>3. p = r
          BY <4>1, <4>2 DEF MngrInv, QueuedOnce, DistinctFrames
        <4> QED BY <3>1, <3>4, <4>1, <4>2, <4>3
      <3>5. CASE j = at \/ k = at
        BY <1>5, <1>8, <3>2, <3>3, <3>5
      <3> QED BY <3>4, <3>5
    <2>2. \A j \in DOMAIN q.nodes : q.nodes[j].bPicOutputFlag =>
              q.nodes[j].frm \notin U /\ q.nodes[j].frm \notin Range(q.dispFifo)
      BY <1>7, <1>14 DEF MngrInv, QueuedOnce
    <2>3. \A j \in DOMAIN q.dispFifo :
             j > shown => q.bToBeDisplayed[q.dispFifo[j]] /\ q.dispFifo[j] \notin U
      BY <1>7 DEF MngrInv, QueuedOnce
    <2>4. shown = 1 => q.dispFifo # <<>> /\ q.pFrmStatus[Head(q.dispFifo)] = "ready"
      <3> HAVE shown = 1
      <3>1. m.dispFifo # <<>> /\ m.pFrmStatus[Head(m.dispFifo)] = "ready"
        BY DEF MngrInv, QueuedOnce
      <3>2. Head(m.dispFifo) \in Range(m.dispFifo) /\ Head(m.dispFifo) \in Frm
        BY <1>1, <3>1, TailRange
      <3> QED BY <1>1, <1>7, <1>8, <3>1, <3>2
    <2>5. IsInjective(q.dispFifo)
      BY <1>7 DEF MngrInv, QueuedOnce
    <2> QED BY <2>1, <2>2, <2>3, <2>4, <2>5 DEF QueuedOnce
  <1>17. StatusIsKnown(q, U, shown, N2)
    <2>1. N2 \cap U = {}
      BY <1>8 DEF MngrInv, StatusIsKnown
    <2>2. ASSUME NEW g \in N2 PROVE q.pFrmStatus[g] = "not_ready"
      <3>1. CASE g = f
        BY <1>1, <1>7, <3>1
      <3>2. CASE g # f
        <4>1. m.pFrmStatus[g] = "not_ready"
          BY <3>2 DEF MngrInv, StatusIsKnown
        <4> QED BY <1>1, <1>7, <3>2, <4>1
      <3> QED BY <3>1, <3>2
    <2>3. ASSUME NEW j \in DOMAIN q.nodes, q.nodes[j].bPicOutputFlag
          PROVE  q.nodes[j].frm \in N2 \/ q.pFrmStatus[q.nodes[j].frm] = "ready"
      <3>1. CASE q.nodes[j] = node
        BY <1>8, <3>1
      <3>2. CASE q.nodes[j] # node
        <4>1. PICK k \in DOMAIN m.nodes : q.nodes[j] = m.nodes[k] /\ m.nodes[k].frm # f
          BY <1>14, <3>2
        <4>2. m.nodes[k].frm \in N \/ m.pFrmStatus[m.nodes[k].frm] = "ready"
          BY <2>3, <4>1 DEF MngrInv, StatusIsKnown
        <4>3. m.nodes[k].frm \in Frm
          <5>1. m.nodes[k] \in Node
            BY ONLY <1>1, <1>2, k \in DOMAIN m.nodes, ElementOfSeq
          <5> QED BY ONLY <5>1 DEF Node
        <4>4. q.pFrmStatus[m.nodes[k].frm] = m.pFrmStatus[m.nodes[k].frm]
          BY ONLY <1>1, <1>7, <4>1, <4>3
        <4> QED BY <4>1, <4>2, <4>4
      <3> QED BY <3>1, <3>2
    <2>4. ASSUME NEW j \in DOMAIN q.dispFifo, j > shown
          PROVE  q.dispFifo[j] \in N2 \/ q.pFrmStatus[q.dispFifo[j]] = "ready"
      <3>1. m.dispFifo[j] \in N \/ m.pFrmStatus[m.dispFifo[j]] = "ready"
        BY <1>7, <2>4 DEF MngrInv, StatusIsKnown
      <3> QED BY <1>1, <1>7, <1>15, <3>1
    <2> HIDE DEF N2
    <2> QED BY <2>1, <2>2, <2>3, <2>4 DEF StatusIsKnown
  <1>18. MngrInv(q, H, K, U, shown, N2)
    BY <1>1, <1>7, <1>11, <1>12, <1>13, <1>16, <1>17 DEF MngrInv
  <1>19. ToOutput(q, shown) = ToOutput(m, shown) + 1
    <2>1. Len(m.dispFifo) \in Nat /\ shown \in Int
      BY <1>1, LenProperties
    <2> QED BY <1>7, <1>9, <1>10, <2>1 DEF ToOutput
  <1> QED BY <1>5, <1>7, <1>8, <1>18, <1>19 DEF q

\* The reference list of a picture is made of nodes of the DPB.
LEMMA RefListed ==
  ASSUME NEW m \in PictMngrs
  PROVE  /\ RefList(m) \in Seq(Reference)
         /\ \A j \in DOMAIN RefList(m) : \E i \in DOMAIN m.nodes :
               /\ RefList(m)[j].frm = m.nodes[i].frm
               /\ RefList(m)[j].mv = m.nodes[i].mv
               /\ RefList(m)[j].pic = m.nodes[i].pic
  <1> DEFINE n == Len(m.nodes)
             Same(e, i) == e.frm = m.nodes[i].frm /\ e.mv = m.nodes[i].mv /\ e.pic = m.nodes[i].pic
             Good(l) == /\ l \in Seq(Reference)
                        /\ \A j \in DOMAIN l : \E i \in DOMAIN m.nodes : Same(l[j], i)
  <1>1. m.nodes \in Seq(Node) /\ n \in Nat /\ DOMAIN m.nodes = 1 .. n
    <2>1. m.nodes \in Seq(Node)
      BY DEF PictMngrs
    <2> QED BY <2>1, LenProperties
  <1>2. PICK r : Turns(r, "RefList", <<>>, m.nodes, n) /\ RefList(m) = r[n]
    BY <1>1, RefListSteps
  <1>3. /\ r[0] = <<>>
        /\ \A i \in 1 .. n : r[i] = ListIfRef(r[i - 1], m.nodes[i])
    BY <1>2 DEF Turns, LoopBody
  <1> DEFINE G == {i \in 0 .. n : Good(r[i])}
  <1>4. 0 \in G
    <2>1. <<>> \in Seq(Reference) /\ DOMAIN <<>> = {}
      OBVIOUS
    <2>2. Good(r[0])
      BY <1>3, <2>1
    <2> HIDE DEF Good
    <2> QED BY <1>1, <2>2
  <1>5. ASSUME NEW i \in 1 .. n, i - 1 \in G PROVE i \in G
    <2> DEFINE l == r[i - 1]
               node == m.nodes[i]
               e == [frm |-> node.frm, mv |-> node.mv, pic |-> node.pic]
    <2>1. l \in Seq(Reference) /\ \A j \in DOMAIN l : \E k \in DOMAIN m.nodes : Same(l[j], k)
      BY <1>5
    <2>2. node \in Node /\ i \in DOMAIN m.nodes
      BY <1>1, ElementOfSeq
    <2>3. e \in Reference /\ Same(e, i)
      BY <2>2 DEF Node, Reference
    <2> HIDE DEF l, e, Same
    <2>4. /\ Append(l, e) \in Seq(Reference)
          /\ \A j \in DOMAIN Append(l, e) : Append(l, e)[j] = e \/ (j \in DOMAIN l /\ Append(l, e)[j] = l[j])
      BY ONLY <2>1, <2>3, AppendProperties, LenProperties
    <2>5. Good(Append(l, e))
      BY <2>1, <2>2, <2>3, <2>4
    <2>6. Good(l)
      BY <2>1
    <2> HIDE DEF Good
    <2>7. Good(ListIfRef(l, node))
      BY <2>5, <2>6 DEF ListIfRef, e
    <2> QED BY <1>1, <1>3, <2>7 DEF l
  <1> HIDE DEF G
  <1>6. n \in G
    <2>1. \A i \in 0 .. n : i \in G
      BY ONLY <1>1, <1>4, <1>5, LoopInduction
    <2> QED BY <1>1, <2>1
  <1> QED BY <1>2, <1>6 DEF G

FromNodes(list, m) ==
    \A j \in DOMAIN list : \E i \in DOMAIN m.nodes :
       list[j].frm = m.nodes[i].frm /\ list[j].mv = m.nodes[i].mv

\* AL_PictMngr_LockRefID, of a list made of nodes of the DPB.
LEMMA ListLocked ==
  ASSUME NEW m, NEW H, NEW K, NEW U, NEW shown, NEW N, MngrInv(m, H, K, U, shown, N),
         NEW list \in Seq(Reference),
         FromNodes(list, m),
         NEW H2 \in [Frm -> Nat], NEW K2 \in [Annex -> Nat],
         \A f \in Frm : H2[f] = H[f] + FrmRefs(list, f),
         \A a \in Annex : K2[a] = K[a] + MvRefs(list, a)
  PROVE  /\ MngrInv(LockRefID(m, list), H2, K2, U, shown, N)
         /\ LockRefID(m, list).nodes = m.nodes
         /\ LockRefID(m, list).dispFifo = m.dispFifo
         /\ LockRefID(m, list).deleted = m.deleted
         /\ LockRefID(m, list).pFrmStatus = m.pFrmStatus
  <1> DEFINE q == LockRefID(m, list)
             ac == [f \in Frm |-> m.iAccessCnt[f] + FrmRefs(list, f)]
             mc == [a \in Annex |-> m.mvAccessCnt[a] + MvRefs(list, a)]
  <1>1. /\ m \in PictMngrs /\ H \in [Frm -> Nat] /\ K \in [Annex -> Nat] /\ shown \in {0, 1}
        /\ Counted(m, H, K) /\ AvailableIsFree(m) /\ UserIsKnown(m, U)
        /\ QueuedOnce(m, U, shown) /\ StatusIsKnown(m, U, shown, N)
    BY DEF MngrInv
  <1>2. /\ m.iAccessCnt \in [Frm -> Nat \cup {-1}] /\ m.mvAccessCnt \in [Annex -> Nat]
        /\ m.nodes \in Seq(Node) /\ m.avail \in Seq(Frm) /\ m.mvFree \in Seq(Annex)
    BY <1>1 DEF PictMngrs
  <1>3. /\ \A f : FrmRefs(list, f) \in Nat /\ (FrmRefs(list, f) = 0 <=> f \notin FramesOf(list))
        /\ \A a : MvRefs(list, a) \in Nat
                  /\ (MvRefs(list, a) = 0 <=> \A i \in DOMAIN list : list[i].mv # a)
    BY ONLY list \in Seq(Reference), RefsType
  <1>4. /\ \A f : DpbFrm(m, f) \in Nat /\ DpbMv(m, f) \in Nat
        /\ \A f : DpbFrm(m, f) = 0 => f \notin FramesOf(m.nodes)
        /\ \A i \in DOMAIN m.nodes : DpbMv(m, m.nodes[i].mv) > 0
    BY ONLY <1>1, DpbRefsType
  <1>5. /\ \A f : DpbFrm(m, f) = 0 => FrmRefs(list, f) = 0
        /\ \A a : DpbMv(m, a) = 0 => MvRefs(list, a) = 0
    <2>1. ASSUME NEW f, DpbFrm(m, f) = 0 PROVE FrmRefs(list, f) = 0
      <3>1. f \notin FramesOf(m.nodes)
        BY <1>4, <2>1
      <3>2. f \notin FramesOf(list)
        BY <3>1 DEF FramesOf, FromNodes
      <3> QED BY <1>3, <3>2
    <2>2. ASSUME NEW a, DpbMv(m, a) = 0 PROVE MvRefs(list, a) = 0
      <3>1. \A i \in DOMAIN m.nodes : m.nodes[i].mv # a
        BY <1>4, <2>2
      <3>2. \A i \in DOMAIN list : list[i].mv # a
        BY <3>1 DEF FromNodes
      <3> QED BY <1>3, <3>2
    <2> QED BY <2>1, <2>2
  <1>6. \A f \in Frm :
           /\ m.iAccessCnt[f] = -1 => H[f] = 0 /\ FrmRefs(list, f) = 0
           /\ m.iAccessCnt[f] = 0 => FrmRefs(list, f) = 0
           /\ m.iAccessCnt[f] # -1 => m.iAccessCnt[f] = H[f] + DpbFrm(m, f)
    <2> SUFFICES ASSUME NEW f \in Frm
                 PROVE  /\ m.iAccessCnt[f] = -1 => H[f] = 0 /\ FrmRefs(list, f) = 0
                        /\ m.iAccessCnt[f] = 0 => FrmRefs(list, f) = 0
                        /\ m.iAccessCnt[f] # -1 => m.iAccessCnt[f] = H[f] + DpbFrm(m, f)
      OBVIOUS
    <2>1. /\ m.iAccessCnt[f] \in {H[f] + DpbFrm(m, f), -1}
          /\ m.iAccessCnt[f] = -1 => H[f] + DpbFrm(m, f) = 0
      BY <1>1 DEF Counted
    <2>2. H[f] \in Nat /\ DpbFrm(m, f) \in Nat
      BY <1>1, <1>4
    <2>3. DpbFrm(m, f) = 0 => FrmRefs(list, f) = 0
      BY <1>5
    <2> QED BY ONLY <2>1, <2>2, <2>3
  <1>7. \A a \in Annex : /\ m.mvAccessCnt[a] = K[a] + DpbMv(m, a)
                         /\ m.mvAccessCnt[a] = 0 => MvRefs(list, a) = 0
    <2> SUFFICES ASSUME NEW a \in Annex
                 PROVE  /\ m.mvAccessCnt[a] = K[a] + DpbMv(m, a)
                        /\ m.mvAccessCnt[a] = 0 => MvRefs(list, a) = 0
      OBVIOUS
    <2>1. m.mvAccessCnt[a] = K[a] + DpbMv(m, a)
      BY <1>1 DEF Counted
    <2>2. K[a] \in Nat /\ DpbMv(m, a) \in Nat
      BY <1>1, <1>4
    <2>3. DpbMv(m, a) = 0 => MvRefs(list, a) = 0
      BY <1>5
    <2> QED BY ONLY <2>1, <2>2, <2>3
  <1>8. ac \in [Frm -> Nat \cup {-1}] /\ mc \in [Annex -> Nat]
    <2>1. ASSUME NEW f \in Frm PROVE m.iAccessCnt[f] + FrmRefs(list, f) \in Nat \cup {-1}
      <3>1. /\ m.iAccessCnt[f] \in Nat \cup {-1} /\ FrmRefs(list, f) \in Nat
            /\ m.iAccessCnt[f] = -1 => FrmRefs(list, f) = 0
        BY <1>2, <1>3, <1>6
      <3> QED BY ONLY <3>1
    <2>2. ASSUME NEW a \in Annex PROVE m.mvAccessCnt[a] + MvRefs(list, a) \in Nat
      <3>1. m.mvAccessCnt[a] \in Nat /\ MvRefs(list, a) \in Nat
        BY <1>2, <1>3
      <3> QED BY ONLY <3>1
    <2> QED BY <2>1, <2>2
  <1>9. q = [m EXCEPT !.iAccessCnt = ac, !.mvAccessCnt = mc]
    <2> HIDE DEF ac, mc
    <2>1. q = [m EXCEPT !.iAccessCnt = [f \in Frm |-> @[f] + FrmRefs(list, f)],
                        !.mvAccessCnt = [a \in Annex |-> @[a] + MvRefs(list, a)]]
      BY DEF LockRefID, FrmRefs, MvRefs
    <2> QED BY <1>1, <2>1 DEF ac, mc, PictMngrs
  <1> HIDE DEF q
  <1>10. /\ q \in PictMngrs /\ q.nodes = m.nodes /\ q.deleted = m.deleted
         /\ q.dispFifo = m.dispFifo /\ q.bToBeDisplayed = m.bToBeDisplayed
         /\ q.avail = m.avail /\ q.mvFree = m.mvFree /\ q.pFrmStatus = m.pFrmStatus
         /\ q.iAccessCnt = ac /\ q.mvAccessCnt = mc
    <2> HIDE DEF ac, mc
    <2> QED BY <1>1, <1>8, <1>9 DEF PictMngrs
  <1>11. /\ \A f : DpbFrm(q, f) = DpbFrm(m, f)
         /\ \A a : DpbMv(q, a) = DpbMv(m, a)
    BY <1>10 DEF DpbFrm, DpbMv
  <1>12. Counted(q, H2, K2)
    <2>1. ASSUME NEW f \in Frm
          PROVE  /\ q.iAccessCnt[f] \in {H2[f] + DpbFrm(q, f), -1}
                 /\ q.iAccessCnt[f] = -1 => H2[f] + DpbFrm(q, f) = 0
      <3>1. /\ q.iAccessCnt[f] = m.iAccessCnt[f] + FrmRefs(list, f)
            /\ H2[f] = H[f] + FrmRefs(list, f) /\ DpbFrm(q, f) = DpbFrm(m, f)
        BY <1>10, <1>11
      <3>2. /\ H[f] \in Nat /\ DpbFrm(m, f) \in Nat /\ FrmRefs(list, f) \in Nat
            /\ m.iAccessCnt[f] = -1 => H[f] = 0 /\ FrmRefs(list, f) = 0
            /\ m.iAccessCnt[f] # -1 => m.iAccessCnt[f] = H[f] + DpbFrm(m, f)
        BY <1>1, <1>3, <1>4, <1>6
      <3>3. m.iAccessCnt[f] = -1 => H[f] + DpbFrm(m, f) = 0
        BY <1>1 DEF Counted
      <3> QED BY ONLY <3>1, <3>2, <3>3
    <2>2. ASSUME NEW a \in Annex PROVE q.mvAccessCnt[a] = K2[a] + DpbMv(q, a)
      <3>1. /\ q.mvAccessCnt[a] = m.mvAccessCnt[a] + MvRefs(list, a)
            /\ K2[a] = K[a] + MvRefs(list, a) /\ DpbMv(q, a) = DpbMv(m, a)
        BY <1>10, <1>11
      <3>2. K[a] \in Nat /\ DpbMv(m, a) \in Nat /\ MvRefs(list, a) \in Nat
        BY <1>1, <1>3, <1>4
      <3> QED BY ONLY <1>7, <3>1, <3>2, a \in Annex
    <2> QED BY <2>1, <2>2 DEF Counted
  <1>13. AvailableIsFree(q)
    <2>1. \A i \in DOMAIN m.avail : q.iAccessCnt[m.avail[i]] = 0
      <3> SUFFICES ASSUME NEW i \in DOMAIN m.avail PROVE q.iAccessCnt[m.avail[i]] = 0
        OBVIOUS
      <3>1. m.avail[i] \in Frm /\ m.iAccessCnt[m.avail[i]] = 0
        BY <1>1, <1>2, LenProperties, ElementOfSeq DEF AvailableIsFree
      <3> QED BY <1>6, <1>10, <3>1
    <2>2. \A i \in DOMAIN m.mvFree : q.mvAccessCnt[m.mvFree[i]] = 0
      <3> SUFFICES ASSUME NEW i \in DOMAIN m.mvFree PROVE q.mvAccessCnt[m.mvFree[i]] = 0
        OBVIOUS
      <3>1. m.mvFree[i] \in Annex /\ m.mvAccessCnt[m.mvFree[i]] = 0
        BY <1>1, <1>2, LenProperties, ElementOfSeq DEF AvailableIsFree
      <3> QED BY <1>7, <1>10, <3>1
    <2>3. IsInjective(m.avail) /\ IsInjective(m.mvFree)
      BY <1>1 DEF AvailableIsFree
    <2> QED BY ONLY <1>10, <2>1, <2>2, <2>3 DEF AvailableIsFree
  <1>14. UserIsKnown(q, U)
    <2>1. U \subseteq Frm
      BY <1>1 DEF UserIsKnown
    <2>2. ASSUME NEW f \in U
          PROVE  q.iAccessCnt[f] = -1 \/ (q.iAccessCnt[f] > 0 /\ q.bToBeDisplayed[f])
      <3>1. /\ f \in Frm
            /\ m.iAccessCnt[f] = -1 \/ (m.iAccessCnt[f] > 0 /\ m.bToBeDisplayed[f])
        BY <1>1, <2>1 DEF UserIsKnown
      <3>2. /\ q.iAccessCnt[f] = m.iAccessCnt[f] + FrmRefs(list, f)
            /\ q.bToBeDisplayed[f] = m.bToBeDisplayed[f]
            /\ m.iAccessCnt[f] = -1 => FrmRefs(list, f) = 0
            /\ FrmRefs(list, f) \in Nat /\ m.iAccessCnt[f] \in Nat \cup {-1}
        BY <1>2, <1>3, <1>6, <1>10, <3>1
      <3>3. CASE m.iAccessCnt[f] = -1
        BY ONLY <3>2, <3>3
      <3>4. CASE m.iAccessCnt[f] > 0 /\ m.bToBeDisplayed[f]
        <4>1. q.iAccessCnt[f] > 0
          BY ONLY <3>2, <3>4
        <4> QED BY <3>2, <3>4, <4>1
      <3> QED BY <3>1, <3>3, <3>4
    <2> QED BY <2>1, <2>2 DEF UserIsKnown
  <1>15. QueuedOnce(q, U, shown)
    BY ONLY <1>1, <1>10 DEF QueuedOnce
  <1>16. StatusIsKnown(q, U, shown, N)
    BY ONLY <1>1, <1>10 DEF StatusIsKnown
  <1>17. MngrInv(q, H2, K2, U, shown, N)
    BY <1>1, <1>10, <1>12, <1>13, <1>14, <1>15, <1>16 DEF MngrInv
  <1> QED BY <1>10, <1>17 DEF q

\* AL_Dpb_sReleaseUnusedBuf.
LEMMA UnusedReleased ==
  ASSUME NEW m, NEW H, NEW K, NEW U, NEW shown, NEW N, MngrInv(m, H, K, U, shown, N)
  PROVE  /\ MngrInv(ReleaseUnusedBuf(m), H, K, U, shown, N)
         /\ ReleaseUnusedBuf(m).nodes = m.nodes
         /\ ReleaseUnusedBuf(m).dispFifo = m.dispFifo
         /\ ReleaseUnusedBuf(m).deleted = <<>>
         /\ ReleaseUnusedBuf(m).pFrmStatus = m.pFrmStatus
  <1> DEFINE p == [m EXCEPT !.deleted = <<>>]
             list == m.deleted
             H1 == [f \in Frm |-> H[f] + FrmRefs(list, f)]
             K1 == [a \in Annex |-> K[a] + MvRefs(list, a)]
  <1>1. /\ m \in PictMngrs /\ H \in [Frm -> Nat] /\ K \in [Annex -> Nat] /\ shown \in {0, 1}
        /\ Counted(m, H, K) /\ AvailableIsFree(m) /\ UserIsKnown(m, U)
        /\ QueuedOnce(m, U, shown) /\ StatusIsKnown(m, U, shown, N)
    BY DEF MngrInv
  <1>2. list \in Seq(Entry) /\ m.nodes \in Seq(Node) /\ m.dispFifo \in Seq(Frm)
    BY <1>1 DEF PictMngrs
  <1>3. /\ \A f : FrmRefs(list, f) \in Nat /\ FrmRefs(m.nodes, f) \in Nat
                  /\ FifoRefs(m.dispFifo, f) \in Nat
        /\ \A a : MvRefs(list, a) \in Nat /\ MvRefs(m.nodes, a) \in Nat
        /\ \A f : FrmRefs(<<>>, f) = 0
        /\ \A a : MvRefs(<<>>, a) = 0
    <2>1. <<>> \in Seq(Entry) /\ DOMAIN <<>> = {}
      OBVIOUS
    <2>2. \A f : f \notin FramesOf(<<>>)
      BY <2>1 DEF FramesOf
    <2> QED BY ONLY <1>2, <2>1, <2>2, RefsType
  <1> HIDE DEF list
  <1>4. H1 \in [Frm -> Nat] /\ K1 \in [Annex -> Nat]
    BY <1>1, <1>3
  <1> HIDE DEF p
  <1>5. /\ p \in PictMngrs /\ p.nodes = m.nodes /\ p.deleted = <<>>
        /\ p.dispFifo = m.dispFifo /\ p.bToBeDisplayed = m.bToBeDisplayed
        /\ p.avail = m.avail /\ p.mvFree = m.mvFree /\ p.pFrmStatus = m.pFrmStatus
        /\ p.iAccessCnt = m.iAccessCnt /\ p.mvAccessCnt = m.mvAccessCnt
    <2>1. p = [m EXCEPT !.deleted = <<>>] /\ <<>> \in Seq(Entry)
      BY DEF p
    <2> QED BY ONLY <1>1, <2>1 DEF PictMngrs
  <1>6. Counted(p, H1, K1)
    <2>1. ASSUME NEW f \in Frm PROVE H1[f] + DpbFrm(p, f) = H[f] + DpbFrm(m, f)
      <3>1. /\ DpbFrm(p, f) = FrmRefs(m.nodes, f) + 0 + FifoRefs(m.dispFifo, f)
            /\ DpbFrm(m, f) = FrmRefs(m.nodes, f) + FrmRefs(list, f) + FifoRefs(m.dispFifo, f)
            /\ H1[f] = H[f] + FrmRefs(list, f)
        BY <1>3, <1>5 DEF DpbFrm, list
      <3>2. /\ FrmRefs(list, f) \in Nat /\ FrmRefs(m.nodes, f) \in Nat
            /\ FifoRefs(m.dispFifo, f) \in Nat /\ H[f] \in Nat
        BY <1>1, <1>3
      <3> QED BY ONLY <3>1, <3>2
    <2>2. ASSUME NEW a \in Annex PROVE K1[a] + DpbMv(p, a) = K[a] + DpbMv(m, a)
      <3>1. /\ DpbMv(p, a) = MvRefs(m.nodes, a) + 0
            /\ DpbMv(m, a) = MvRefs(m.nodes, a) + MvRefs(list, a)
            /\ K1[a] = K[a] + MvRefs(list, a)
        BY <1>3, <1>5 DEF DpbMv, list
      <3>2. MvRefs(list, a) \in Nat /\ MvRefs(m.nodes, a) \in Nat /\ K[a] \in Nat
        BY <1>1, <1>3
      <3> QED BY ONLY <3>1, <3>2
    <2> HIDE DEF H1, K1
    <2> QED BY ONLY <1>1, <1>5, <2>1, <2>2 DEF Counted
  <1> HIDE DEF H1, K1
  <1>7. MngrInv(p, H1, K1, U, shown, N)
    <2>1. AvailableIsFree(p) /\ UserIsKnown(p, U)
      BY ONLY <1>1, <1>5 DEF AvailableIsFree, UserIsKnown
    <2>2. QueuedOnce(p, U, shown)
      BY ONLY <1>1, <1>5 DEF QueuedOnce
    <2>3. StatusIsKnown(p, U, shown, N)
      BY ONLY <1>1, <1>5 DEF StatusIsKnown
    <2> QED BY <1>1, <1>4, <1>5, <1>6, <2>1, <2>2, <2>3 DEF MngrInv
  <1>8. \A e \in Entry : e.frm \in Frm /\ e.mv \in Annex
    BY DEF Entry
  <1>9. /\ \A f \in Frm : H1[f] = H[f] + FrmRefs(list, f)
        /\ \A a \in Annex : K1[a] = K[a] + MvRefs(list, a)
    BY DEF H1, K1
  <1>10. /\ MngrInv(UnlockRefID(p, list), H, K, U, shown, N)
         /\ UnlockRefID(p, list).nodes = p.nodes
         /\ UnlockRefID(p, list).dispFifo = p.dispFifo
         /\ UnlockRefID(p, list).deleted = p.deleted
         /\ UnlockRefID(p, list).pFrmStatus = p.pFrmStatus
    <2>1. H \in [Frm -> Nat] /\ K \in [Annex -> Nat]
      BY <1>1
    <2>2. list \in Seq(Entry)
      BY <1>2
    <2> QED BY ONLY <1>7, <1>8, <1>9, <2>1, <2>2, AllUnlocked
  <1>11. ReleaseUnusedBuf(m) = UnlockRefID(p, list)
    BY DEF ReleaseUnusedBuf, p, list
  <1> QED BY ONLY <1>5, <1>10, <1>11

\* What the elements of the lists are.
LEMMA NodesTyped ==
  ASSUME NEW s \in Seq(Node)
  PROVE  \A j \in DOMAIN s : /\ s[j] \in Node /\ s[j].frm \in Frm /\ s[j].mv \in Annex
                             /\ s[j].pic \in Nat
  <1>1. \A j \in DOMAIN s : s[j] \in Node
    BY LenProperties, ElementOfSeq
  <1> QED BY ONLY <1>1 DEF Node

\* The elements of a list of references have their types.
LEMMA ReferencesTyped ==
  ASSUME NEW s \in Seq(Reference)
  PROVE  \A j \in DOMAIN s : /\ s[j] \in Reference /\ s[j].frm \in Frm /\ s[j].mv \in Annex
                             /\ s[j].pic \in Nat
  <1>1. \A j \in DOMAIN s : s[j] \in Reference
    BY LenProperties, ElementOfSeq
  <1> QED BY ONLY <1>1 DEF Reference

\* sApiEndDecoding: the picture is decoded.
LEMMA DecodingEnded ==
  ASSUME NEW m, NEW H, NEW K, NEW U, NEW shown, NEW N, MngrInv(m, H, K, U, shown, N),
         NEW f \in Frm, f \in N
  PROVE  /\ MngrInv(EndDecoding(m, f), H, K, U, shown, N \ {f})
         /\ DpbShrinks(m, EndDecoding(m, f), shown)
  <1> DEFINE r == ReleaseUnusedBuf(m)
             i == PositionOf(r, f)
             ps == [r.pFrmStatus EXCEPT ![f] = "ready"]
             s == [r EXCEPT !.pFrmStatus = ps]
             N2 == N \ {f}
  <1>1. /\ MngrInv(r, H, K, U, shown, N)
        /\ r.nodes = m.nodes /\ r.dispFifo = m.dispFifo /\ r.pFrmStatus = m.pFrmStatus
    BY ONLY MngrInv(m, H, K, U, shown, N), UnusedReleased
  <1>2. m.pFrmStatus[f] = "not_ready"
    BY DEF MngrInv, StatusIsKnown
  <1>3. m \in PictMngrs
    BY DEF MngrInv
  <1> HIDE DEF r
  <1>4. /\ r \in PictMngrs /\ H \in [Frm -> Nat] /\ K \in [Annex -> Nat] /\ shown \in {0, 1}
        /\ Counted(r, H, K) /\ AvailableIsFree(r) /\ UserIsKnown(r, U)
        /\ QueuedOnce(r, U, shown) /\ StatusIsKnown(r, U, shown, N)
    BY <1>1 DEF MngrInv
  <1>5. /\ r.nodes \in Seq(Node) /\ r.dispFifo \in Seq(Frm)
        /\ r.pFrmStatus \in [Frm -> {"not_ready", "ready", "not_needed"}]
    BY <1>4 DEF PictMngrs
  <1>6. /\ ps \in [Frm -> {"not_ready", "ready", "not_needed"}]
        /\ ps[f] = "ready" /\ \A g \in Frm : g # f => ps[g] = r.pFrmStatus[g]
    BY <1>5
  <1> HIDE DEF ps
  <1>7. /\ s \in PictMngrs /\ s.nodes = r.nodes /\ s.deleted = r.deleted
        /\ s.dispFifo = r.dispFifo /\ s.bToBeDisplayed = r.bToBeDisplayed
        /\ s.avail = r.avail /\ s.mvFree = r.mvFree /\ s.pFrmStatus = ps
        /\ s.iAccessCnt = r.iAccessCnt /\ s.mvAccessCnt = r.mvAccessCnt
    BY <1>4, <1>6 DEF PictMngrs
  <1> HIDE DEF s
  <1>8. Counted(s, H, K)
    <2>1. /\ \A g : DpbFrm(s, g) = DpbFrm(r, g)
          /\ \A a : DpbMv(s, a) = DpbMv(r, a)
      BY <1>7 DEF DpbFrm, DpbMv
    <2> QED BY ONLY <1>4, <1>7, <2>1 DEF Counted
  <1>9. AvailableIsFree(s) /\ UserIsKnown(s, U)
    BY ONLY <1>4, <1>7 DEF AvailableIsFree, UserIsKnown
  <1>10. \A g \in Frm : r.pFrmStatus[g] = "ready" => ps[g] = "ready"
    BY <1>6
  <1>11. /\ \A j \in DOMAIN r.nodes : r.nodes[j].frm \in Frm
         /\ \A j \in DOMAIN r.dispFifo : r.dispFifo[j] \in Frm
    <2>1. \A j \in DOMAIN r.nodes : r.nodes[j].frm \in Frm
      BY ONLY <1>5, NodesTyped
    <2>2. \A j \in DOMAIN r.dispFifo : r.dispFifo[j] \in Frm
      BY ONLY <1>5, LenProperties, ElementOfSeq
    <2> QED BY <2>1, <2>2
  <1>12. QueuedOnce(s, U, shown)
    <2>1. shown = 1 => r.dispFifo # <<>> /\ r.pFrmStatus[Head(r.dispFifo)] = "ready"
      BY <1>4 DEF QueuedOnce
    <2>2. shown = 1 => ps[Head(r.dispFifo)] = "ready"
      BY <1>5, <1>10, <2>1, TailRange
    <2> QED BY ONLY <1>4, <1>7, <2>1, <2>2 DEF QueuedOnce
  <1>13. StatusIsKnown(s, U, shown, N2)
    <2>1. N2 \cap U = {}
      BY <1>4 DEF StatusIsKnown
    <2>2. N2 \subseteq Frm \/ \A g \in N2 : g # f
      OBVIOUS
    <2>3. ASSUME NEW g \in N2 PROVE ps[g] = "not_ready"
      <3>1. r.pFrmStatus[g] = "not_ready" /\ g # f
        BY <1>4 DEF StatusIsKnown
      <3>2. ps = [r.pFrmStatus EXCEPT ![f] = "ready"]
        BY DEF ps
      <3>3. g \in DOMAIN r.pFrmStatus => ps[g] = "not_ready"
        BY <1>5, <1>6, <3>1
      <3>4. g \notin DOMAIN r.pFrmStatus => ps = ps
        OBVIOUS
      <3> QED BY <1>5, <3>1, <3>2, <3>3
    <2>4. ASSUME NEW j \in DOMAIN r.nodes, r.nodes[j].bPicOutputFlag
          PROVE  r.nodes[j].frm \in N2 \/ ps[r.nodes[j].frm] = "ready"
      <3>1. r.nodes[j].frm \in N \/ r.pFrmStatus[r.nodes[j].frm] = "ready"
        BY <1>4, <2>4 DEF StatusIsKnown
      <3> QED BY <1>6, <1>10, <1>11, <3>1
    <2>5. ASSUME NEW j \in DOMAIN r.dispFifo, j > shown
          PROVE  r.dispFifo[j] \in N2 \/ ps[r.dispFifo[j]] = "ready"
      <3>1. r.dispFifo[j] \in N \/ r.pFrmStatus[r.dispFifo[j]] = "ready"
        BY <1>4, <2>5 DEF StatusIsKnown
      <3> QED BY <1>6, <1>10, <1>11, <3>1
    <2> HIDE DEF N2
    <2> QED BY ONLY <1>7, <2>1, <2>3, <2>4, <2>5 DEF StatusIsKnown
  <1>14. MngrInv(s, H, K, U, shown, N2)
    BY <1>4, <1>7, <1>8, <1>9, <1>12, <1>13 DEF MngrInv
  <1>15. DpbShrinks(m, s, shown)
    <2>1. DpbShrinks(m, m, shown)
      BY <1>3, ShrinksSame
    <2>2. s.nodes = m.nodes /\ s.dispFifo = m.dispFifo
      BY <1>1, <1>7
    <2> QED BY ONLY <2>1, <2>2 DEF DpbShrinks, ToOutput
  <1>16. /\ MngrInv(Display(s, i), H, K, U, shown, N2) /\ DpbShrinks(m, Display(s, i), shown)
         \/ i = 0
    <2>1. CASE i # 0
      <3>1. i \in DOMAIN r.nodes
        BY <1>4, <2>1, NodeFound
      <3>2. i \in 0 .. Len(s.nodes)
        BY <1>5, <1>7, <3>1, LenProperties
      <3> HIDE DEF i, N2
      <3>3. MngrInv(Display(s, i), H, K, U, shown, N2) /\ DpbShrinks(s, Display(s, i), shown)
        BY ONLY <1>14, <3>2, Displayed
      <3>4. Display(s, i) \in PictMngrs
        BY <3>3 DEF MngrInv
      <3>5. DpbShrinks(m, Display(s, i), shown)
        BY ONLY <1>3, <1>7, <1>15, <3>3, <3>4, ShrinksTwice
      <3> QED BY <3>3, <3>5
    <2> QED BY <2>1
  <1>17. EndDecoding(m, f) = s \/ (i # 0 /\ EndDecoding(m, f) = Display(s, i))
    <2>1. s = [r EXCEPT !.pFrmStatus[f] = "ready"]
      BY <1>4 DEF s, ps, PictMngrs
    <2>2. EndDecoding(m, f) = IF NoReordering /\ i # 0 /\ r.nodes[i].bPicOutputFlag
                              THEN Display(s, i) ELSE s
      BY <1>2, <2>1 DEF EndDecoding, r
    <2> QED BY <2>2
  <1> QED BY ONLY <1>14, <1>15, <1>16, <1>17

\* AL_sDecoder_TryDisplayOneFrame: the head of the fifo goes to the application ...
LEMMA HeadShown ==
  ASSUME NEW m, NEW H, NEW K, NEW U, NEW N, MngrInv(m, H, K, U, 0, N),
         m.dispFifo # <<>>, m.pFrmStatus[Head(m.dispFifo)] = "ready"
  PROVE  /\ MngrInv(m, H, K, U \cup {Head(m.dispFifo)}, 1, N)
         /\ Head(m.dispFifo) \in Frm /\ Head(m.dispFifo) \in Range(m.dispFifo)
         /\ ToOutput(m, 1) = ToOutput(m, 0) - 1 /\ ToOutput(m, 0) \in Nat
         /\ \A i \in DOMAIN m.nodes : m.nodes[i].bPicOutputFlag => m.nodes[i].frm # Head(m.dispFifo)
  <1> DEFINE f == Head(m.dispFifo)
             U2 == U \cup {f}
  <1>1. /\ m \in PictMngrs /\ H \in [Frm -> Nat] /\ K \in [Annex -> Nat]
        /\ Counted(m, H, K) /\ AvailableIsFree(m) /\ UserIsKnown(m, U)
        /\ QueuedOnce(m, U, 0) /\ StatusIsKnown(m, U, 0, N)
    BY DEF MngrInv
  <1>2. m.dispFifo \in Seq(Frm) /\ m.nodes \in Seq(Node)
    BY <1>1 DEF PictMngrs
  <1>3. /\ f \in Frm /\ f \in Range(m.dispFifo) /\ f = m.dispFifo[1]
        /\ DOMAIN m.dispFifo = 1 .. Len(m.dispFifo) /\ Len(m.dispFifo) \in Nat
        /\ Len(m.dispFifo) > 0
    BY <1>2, TailRange, TailGrown, LenProperties
  <1> HIDE DEF f
  <1>4. 1 \in DOMAIN m.dispFifo
    BY <1>3
  <1>5. m.bToBeDisplayed[f] /\ f \notin U
    BY <1>1, <1>3, <1>4 DEF QueuedOnce
  <1>6. \A i \in DOMAIN m.dispFifo : i > 1 => m.dispFifo[i] # f
    BY <1>1, <1>3, <1>4 DEF QueuedOnce, IsInjective
  <1>7. m.iAccessCnt[f] > 0
    <2>1. DpbFrm(m, f) \in Nat /\ DpbFrm(m, f) # 0 /\ H[f] \in Nat
      BY <1>1, <1>3, DpbRefsType
    <2>2. /\ m.iAccessCnt[f] \in {H[f] + DpbFrm(m, f), -1}
          /\ m.iAccessCnt[f] = -1 => H[f] + DpbFrm(m, f) = 0
      BY <1>1, <1>3 DEF Counted
    <2> QED BY ONLY <2>1, <2>2
  <1>8. UserIsKnown(m, U2)
    BY <1>1, <1>3, <1>5, <1>7 DEF UserIsKnown
  <1>9. \A i \in DOMAIN m.nodes : m.nodes[i].bPicOutputFlag => m.nodes[i].frm # f
    BY <1>1, <1>3 DEF QueuedOnce
  <1>10. QueuedOnce(m, U2, 1)
    <2>1. /\ DistinctFrames(m.nodes) /\ IsInjective(m.dispFifo)
          /\ \A i \in DOMAIN m.nodes : m.nodes[i].bPicOutputFlag =>
                m.nodes[i].frm \notin U /\ m.nodes[i].frm \notin Range(m.dispFifo)
          /\ \A i \in DOMAIN m.dispFifo :
                i > 0 => m.bToBeDisplayed[m.dispFifo[i]] /\ m.dispFifo[i] \notin U
      BY <1>1 DEF QueuedOnce
    <2>2. \A i \in DOMAIN m.dispFifo :
             i > 1 => m.bToBeDisplayed[m.dispFifo[i]] /\ m.dispFifo[i] \notin U2
      BY <1>3, <1>6, <2>1
    <2>3. m.pFrmStatus[Head(m.dispFifo)] = "ready" /\ m.dispFifo # <<>>
      OBVIOUS
    <2>4. \A i \in DOMAIN m.nodes : m.nodes[i].bPicOutputFlag =>
                m.nodes[i].frm \notin U2 /\ m.nodes[i].frm \notin Range(m.dispFifo)
      BY <1>9, <2>1
    <2> HIDE DEF U2
    <2> QED BY ONLY <2>1, <2>2, <2>3, <2>4 DEF QueuedOnce
  <1>11. StatusIsKnown(m, U2, 1, N)
    <2>1. f \notin N
      BY <1>1 DEF StatusIsKnown, f
    <2>2. \A i \in DOMAIN m.dispFifo : i > 1 => i > 0
      BY <1>3
    <2> QED BY <1>1, <2>1, <2>2 DEF StatusIsKnown
  <1>12. ToOutput(m, 1) = ToOutput(m, 0) - 1 /\ ToOutput(m, 0) \in Nat
    <2>1. NumOutput(m.nodes) \in Nat
      BY <1>2, RefsType
    <2> QED BY ONLY <1>3, <2>1 DEF ToOutput
  <1>13. MngrInv(m, H, K, U2, 1, N)
    BY <1>1, <1>8, <1>10, <1>11 DEF MngrInv
  <1> QED BY <1>3, <1>9, <1>12, <1>13 DEF f

\* ... and then leaves the fifo (sApiReleaseDisplayBuffer).
LEMMA HeadReleased ==
  ASSUME NEW m, NEW H, NEW K, NEW U, NEW N, MngrInv(m, H, K, U, 1, N)
  PROVE  /\ MngrInv(ReleaseDisplayBuffer(m), H, K, U, 0, N)
         /\ ReleaseDisplayBuffer(m).nodes = m.nodes
         /\ ReleaseDisplayBuffer(m).deleted = m.deleted
         /\ Range(ReleaseDisplayBuffer(m).dispFifo) \subseteq Range(m.dispFifo)
         /\ ToOutput(ReleaseDisplayBuffer(m), 0) = ToOutput(m, 1)
  <1> DEFINE f == Head(m.dispFifo)
             ts == Tail(m.dispFifo)
             ps == [m.pFrmStatus EXCEPT ![f] = "not_needed"]
             p == [m EXCEPT !.dispFifo = ts, !.pFrmStatus = ps]
             H1 == [g \in Frm |-> H[g] + (IF g = f THEN 1 ELSE 0)]
  <1>1. /\ m \in PictMngrs /\ H \in [Frm -> Nat] /\ K \in [Annex -> Nat]
        /\ Counted(m, H, K) /\ AvailableIsFree(m) /\ UserIsKnown(m, U)
        /\ QueuedOnce(m, U, 1) /\ StatusIsKnown(m, U, 1, N)
    BY DEF MngrInv
  <1>2. /\ m.dispFifo \in Seq(Frm) /\ m.nodes \in Seq(Node)
        /\ m.pFrmStatus \in [Frm -> {"not_ready", "ready", "not_needed"}]
    BY <1>1 DEF PictMngrs
  <1>3. m.dispFifo # <<>> /\ m.pFrmStatus[f] = "ready"
    BY <1>1 DEF QueuedOnce
  <1>4. /\ f \in Frm /\ f \in Range(m.dispFifo) /\ ts \in Seq(Frm)
        /\ Grown(ts, m.dispFifo, 1) /\ m.dispFifo[1] = f
        /\ Range(ts) \subseteq Range(m.dispFifo) /\ Len(ts) = Len(m.dispFifo) - 1
        /\ IsInjective(ts) /\ f \notin Range(ts)
        /\ Len(m.dispFifo) \in Nat /\ Len(m.dispFifo) > 0
    BY <1>1, <1>2, <1>3, TailRange, TailGrown, LenProperties DEF QueuedOnce
  <1> HIDE DEF f, ts
  <1>5. /\ DOMAIN ts = 1 .. Len(ts) /\ DOMAIN m.dispFifo = 1 .. Len(m.dispFifo)
        /\ \A i \in DOMAIN ts : /\ ts[i] = m.dispFifo[i + 1] /\ i + 1 \in DOMAIN m.dispFifo
                                /\ i + 1 > 1 /\ ts[i] # f /\ ts[i] \in Frm
    <2>1. DOMAIN ts = 1 .. Len(ts) /\ DOMAIN m.dispFifo = 1 .. Len(m.dispFifo)
      BY <1>2, <1>4, LenProperties
    <2>2. \A i \in 1 .. Len(ts) : ts[i] = m.dispFifo[i + 1]
      BY <1>4 DEF Grown
    <2>3. \A i \in DOMAIN ts : ts[i] \in Range(ts) /\ ts[i] \in Frm
      BY <1>4, <2>1, ElementOfSeq DEF Range
    <2> SUFFICES ASSUME NEW i \in DOMAIN ts
                 PROVE  /\ ts[i] = m.dispFifo[i + 1] /\ i + 1 \in DOMAIN m.dispFifo
                        /\ i + 1 > 1 /\ ts[i] # f /\ ts[i] \in Frm
      BY <2>1
    <2>4. i + 1 \in 1 .. Len(m.dispFifo) /\ i + 1 > 1
      BY ONLY <1>4, <2>1, i \in DOMAIN ts
    <2> QED BY <1>4, <2>1, <2>2, <2>3, <2>4
  <1>6. /\ ps \in [Frm -> {"not_ready", "ready", "not_needed"}]
        /\ \A g \in Frm : g # f => ps[g] = m.pFrmStatus[g]
        /\ \A g : g # f => ps[g] = m.pFrmStatus[g] \/ g \notin Frm
    BY <1>2
  <1> HIDE DEF ps
  <1>7. /\ p \in PictMngrs /\ p.nodes = m.nodes /\ p.deleted = m.deleted
        /\ p.dispFifo = ts /\ p.bToBeDisplayed = m.bToBeDisplayed
        /\ p.avail = m.avail /\ p.mvFree = m.mvFree /\ p.pFrmStatus = ps
        /\ p.iAccessCnt = m.iAccessCnt /\ p.mvAccessCnt = m.mvAccessCnt
    BY <1>1, <1>4, <1>6 DEF PictMngrs
  <1>8. ReleaseDisplayBuffer(m) = DecrementFrm(p, f)
    BY <1>1 DEF ReleaseDisplayBuffer, f, ts, ps, p, PictMngrs
  <1> HIDE DEF p
  <1>9. OneMore(Frm, H1, H, f)
    BY <1>1, <1>4 DEF OneMore
  <1>10. Counted(p, H1, K)
    <2>1. ASSUME NEW g \in Frm PROVE H1[g] + DpbFrm(p, g) = H[g] + DpbFrm(m, g)
      <3>1. FifoRefs(m.dispFifo, g) = FifoRefs(ts, g) + (IF f = g THEN 1 ELSE 0)
        BY <1>2, <1>4, RefsGrown
      <3>2. /\ DpbFrm(p, g) = FrmRefs(m.nodes, g) + FrmRefs(m.deleted, g) + FifoRefs(ts, g)
            /\ DpbFrm(m, g) = FrmRefs(m.nodes, g) + FrmRefs(m.deleted, g) + FifoRefs(m.dispFifo, g)
            /\ H1[g] = H[g] + (IF g = f THEN 1 ELSE 0)
        BY <1>7 DEF DpbFrm
      <3>3. /\ FrmRefs(m.nodes, g) \in Nat /\ FrmRefs(m.deleted, g) \in Nat
            /\ FifoRefs(ts, g) \in Nat /\ H[g] \in Nat
        <4>1. m.deleted \in Seq(Entry)
          BY <1>1 DEF PictMngrs
        <4> QED BY <1>1, <1>2, <1>4, <4>1, RefsType
      <3> QED BY ONLY <3>1, <3>2, <3>3
    <2>2. \A a : DpbMv(p, a) = DpbMv(m, a)
      BY <1>7 DEF DpbMv
    <2> HIDE DEF H1
    <2> QED BY ONLY <1>1, <1>7, <2>1, <2>2 DEF Counted
  <1> HIDE DEF H1
  <1>11. AvailableIsFree(p) /\ UserIsKnown(p, U)
    BY ONLY <1>1, <1>7 DEF AvailableIsFree, UserIsKnown
  <1>12. QueuedOnce(p, U, 0)
    <2>1. DistinctFrames(m.nodes)
      BY <1>1 DEF QueuedOnce
    <2>2. \A i \in DOMAIN m.nodes : m.nodes[i].bPicOutputFlag =>
                m.nodes[i].frm \notin U /\ m.nodes[i].frm \notin Range(ts)
      BY <1>1, <1>4 DEF QueuedOnce
    <2>3. \A i \in DOMAIN ts : m.bToBeDisplayed[ts[i]] /\ ts[i] \notin U
      BY <1>1, <1>5 DEF QueuedOnce
    <2> QED BY ONLY <1>4, <1>7, <2>1, <2>2, <2>3 DEF QueuedOnce
  <1>13. StatusIsKnown(p, U, 0, N)
    <2>1. f \notin N
      BY <1>1, <1>3 DEF StatusIsKnown
    <2>2. ASSUME NEW g \in N PROVE ps[g] = "not_ready"
      BY <1>1, <1>2, <2>1 DEF StatusIsKnown, ps
    <2>3. ASSUME NEW i \in DOMAIN m.nodes, m.nodes[i].bPicOutputFlag
          PROVE  m.nodes[i].frm \in N \/ ps[m.nodes[i].frm] = "ready"
      <3>1. m.nodes[i].frm \in N \/ m.pFrmStatus[m.nodes[i].frm] = "ready"
        BY <1>1, <2>3 DEF StatusIsKnown
      <3>2. m.nodes[i].frm # f
        BY <1>1, <1>4, <2>3 DEF QueuedOnce
      <3>3. m.nodes[i].frm \in Frm
        BY <1>2, NodesTyped
      <3> QED BY <1>6, <3>1, <3>2, <3>3
    <2>4. ASSUME NEW i \in DOMAIN ts PROVE ts[i] \in N \/ ps[ts[i]] = "ready"
      <3>1. ts[i] \in N \/ m.pFrmStatus[ts[i]] = "ready"
        BY <1>1, <1>5 DEF StatusIsKnown
      <3> QED BY <1>5, <1>6, <3>1
    <2>5. N \cap U = {}
      BY <1>1 DEF StatusIsKnown
    <2> QED BY ONLY <1>7, <2>2, <2>3, <2>4, <2>5 DEF StatusIsKnown
  <1>14. MngrInv(p, H1, K, U, 0, N)
    BY <1>1, <1>7, <1>9, <1>10, <1>11, <1>12, <1>13 DEF MngrInv, OneMore
  <1>15. /\ MngrInv(DecrementFrm(p, f), H, K, U, 0, N)
         /\ DecrementFrm(p, f).nodes = p.nodes /\ DecrementFrm(p, f).dispFifo = p.dispFifo
         /\ DecrementFrm(p, f).deleted = p.deleted
    BY ONLY <1>9, <1>14, FrmReleased
  <1>16. NumOutput(m.nodes) + Len(ts) - 0 = NumOutput(m.nodes) + Len(m.dispFifo) - 1
    <2>1. NumOutput(m.nodes) \in Nat
      BY <1>2, RefsType
    <2> QED BY ONLY <1>4, <2>1
  <1> QED BY ONLY <1>4, <1>7, <1>8, <1>15, <1>16 DEF ToOutput

\* What AL_Decoder_PutDisplayPicture, AL_PictMngr_BeginFrame and
\* AL_TBufPool_GetFreeBufID make of the picture manager.
Returned(m, b) ==
    IF m.iAccessCnt[b] > 0
    THEN [m EXCEPT !.bToBeDisplayed[b] = FALSE]
    ELSE [m EXCEPT !.iAccessCnt[b] = 0, !.bToBeDisplayed[b] = FALSE, !.avail = Append(@, b)]

WithFrame(m) == [m EXCEPT !.avail = Tail(@), !.iAccessCnt[Head(m.avail)] = 1]
WithAnnex(m) == [m EXCEPT !.mvFree = Tail(@), !.mvAccessCnt[Head(m.mvFree)] = 1]

\* A buffer the application gives back is available when nothing refers to it.
LEMMA BufferReturned ==
  ASSUME NEW m, NEW H, NEW K, NEW U, NEW shown, NEW N, MngrInv(m, H, K, U, shown, N),
         NEW b \in U
  PROVE  /\ MngrInv(Returned(m, b), H, K, U \ {b}, shown, N)
         /\ Returned(m, b).nodes = m.nodes
         /\ Returned(m, b).dispFifo = m.dispFifo
         /\ Returned(m, b).deleted = m.deleted
  <1> DEFINE q == Returned(m, b)
             bd == [m.bToBeDisplayed EXCEPT ![b] = FALSE]
             ac == [m.iAccessCnt EXCEPT ![b] = 0]
             av == Append(m.avail, b)
             U2 == U \ {b}
  <1>1. /\ m \in PictMngrs /\ H \in [Frm -> Nat] /\ K \in [Annex -> Nat] /\ shown \in {0, 1}
        /\ Counted(m, H, K) /\ AvailableIsFree(m) /\ UserIsKnown(m, U)
        /\ QueuedOnce(m, U, shown) /\ StatusIsKnown(m, U, shown, N)
    BY DEF MngrInv
  <1>2. /\ m.iAccessCnt \in [Frm -> Nat \cup {-1}] /\ m.bToBeDisplayed \in [Frm -> BOOLEAN]
        /\ m.avail \in Seq(Frm) /\ m.dispFifo \in Seq(Frm)
        /\ b \in Frm /\ U \subseteq Frm
    BY <1>1 DEF PictMngrs, UserIsKnown
  <1>3. m.iAccessCnt[b] = -1 \/ m.iAccessCnt[b] > 0
    BY <1>1 DEF UserIsKnown
  <1>4. /\ av \in Seq(Frm) /\ Range(av) = Range(m.avail) \cup {b}
        /\ b \notin Range(m.avail) => IsInjective(av)
    BY <1>1, <1>2, AppendRange DEF AvailableIsFree
  <1>5. /\ bd \in [Frm -> BOOLEAN] /\ ac \in [Frm -> Nat \cup {-1}]
        /\ \A g \in Frm : g # b => bd[g] = m.bToBeDisplayed[g] /\ ac[g] = m.iAccessCnt[g]
        /\ ac[b] = 0
    BY <1>2
  <1>6. /\ q \in PictMngrs /\ q.nodes = m.nodes /\ q.deleted = m.deleted
        /\ q.dispFifo = m.dispFifo /\ q.bToBeDisplayed = bd
        /\ q.mvFree = m.mvFree /\ q.pFrmStatus = m.pFrmStatus /\ q.mvAccessCnt = m.mvAccessCnt
        /\ \/ /\ m.iAccessCnt[b] > 0 /\ q.iAccessCnt = m.iAccessCnt /\ q.avail = m.avail
           \/ /\ m.iAccessCnt[b] = -1 /\ q.iAccessCnt = ac /\ q.avail = av
    <2>1. CASE m.iAccessCnt[b] > 0
      <3>1. q = [m EXCEPT !.bToBeDisplayed = bd]
        BY <1>1, <2>1 DEF Returned, PictMngrs
      <3> HIDE DEF q, bd
      <3>2. m \in PictMngrs /\ bd \in [Frm -> BOOLEAN]
        BY <1>1, <1>5
      <3>3. /\ q \in PictMngrs /\ q.nodes = m.nodes /\ q.deleted = m.deleted
            /\ q.dispFifo = m.dispFifo /\ q.bToBeDisplayed = bd
            /\ q.mvFree = m.mvFree /\ q.pFrmStatus = m.pFrmStatus
            /\ q.mvAccessCnt = m.mvAccessCnt
            /\ q.iAccessCnt = m.iAccessCnt /\ q.avail = m.avail
        <4>1. /\ q.nodes = m.nodes /\ q.deleted = m.deleted
              /\ q.dispFifo = m.dispFifo /\ q.bToBeDisplayed = bd
              /\ q.mvFree = m.mvFree /\ q.pFrmStatus = m.pFrmStatus
              /\ q.mvAccessCnt = m.mvAccessCnt
              /\ q.iAccessCnt = m.iAccessCnt /\ q.avail = m.avail
          BY ONLY <3>1, <3>2, Zenon DEF PictMngrs
        <4>2. q \in PictMngrs
          BY ONLY <3>1, <3>2 DEF PictMngrs
        <4> QED BY <4>1, <4>2
      <3> QED BY <2>1, <3>3
    <2>2. CASE m.iAccessCnt[b] = -1
      <3>1. q = [m EXCEPT !.bToBeDisplayed = bd, !.iAccessCnt = ac, !.avail = av]
        <4>1. ~(m.iAccessCnt[b] > 0)
          BY <2>2
        <4>2. q = [m EXCEPT !.iAccessCnt[b] = 0, !.bToBeDisplayed[b] = FALSE, !.avail = Append(@, b)]
          BY ONLY <4>1 DEF Returned, q
        <4> HIDE DEF q
        <4>3. m \in PictMngrs
          BY <1>1
        <4> QED BY ONLY <4>2, <4>3 DEF PictMngrs, bd, ac, av
      <3> HIDE DEF q, bd, ac, av
      <3> QED BY ONLY <1>1, <1>4, <1>5, <2>2, <3>1 DEF PictMngrs
    <2> QED BY <1>3, <2>1, <2>2
  <1> HIDE DEF q, bd, ac, av
  <1>7. Counted(q, H, K)
    <2>1. /\ \A g : DpbFrm(q, g) = DpbFrm(m, g)
          /\ \A a : DpbMv(q, a) = DpbMv(m, a)
      BY <1>6 DEF DpbFrm, DpbMv
    <2>2. ASSUME NEW g \in Frm
          PROVE  /\ q.iAccessCnt[g] \in {H[g] + DpbFrm(q, g), -1}
                 /\ q.iAccessCnt[g] = -1 => H[g] + DpbFrm(q, g) = 0
      <3>1. /\ m.iAccessCnt[g] \in {H[g] + DpbFrm(m, g), -1}
            /\ m.iAccessCnt[g] = -1 => H[g] + DpbFrm(m, g) = 0
        BY <1>1 DEF Counted
      <3>2. q.iAccessCnt[g] = m.iAccessCnt[g]
            \/ (m.iAccessCnt[g] = -1 /\ q.iAccessCnt[g] = 0)
        BY <1>5, <1>6
      <3> QED BY <2>1, <3>1, <3>2
    <2> QED BY <1>1, <1>6, <2>1, <2>2 DEF Counted
  <1>8. AvailableIsFree(q)
    <2>1. /\ IsInjective(m.avail) /\ IsInjective(m.mvFree)
          /\ \A i \in DOMAIN m.avail : m.iAccessCnt[m.avail[i]] = 0 /\ m.avail[i] \in Frm
          /\ \A i \in DOMAIN m.mvFree : m.mvAccessCnt[m.mvFree[i]] = 0
      <3>1. \A i \in DOMAIN m.avail : m.avail[i] \in Frm
        BY <1>2, LenProperties, ElementOfSeq
      <3> QED BY <1>1, <3>1 DEF AvailableIsFree
    <2>2. b \notin Range(m.avail)
      BY <1>3, <2>1 DEF Range
    <2>3. CASE q.iAccessCnt = ac /\ q.avail = av
      <3>1. \A i \in DOMAIN av : av[i] = b \/ av[i] \in Range(m.avail)
        BY <1>4 DEF Range
      <3>2. \A g \in Range(m.avail) : ac[g] = 0
        BY <1>5, <2>1, <2>2 DEF Range
      <3>3. \A i \in DOMAIN av : ac[av[i]] = 0
        BY <1>5, <3>1, <3>2
      <3> QED BY <1>4, <1>6, <2>1, <2>2, <2>3, <3>3 DEF AvailableIsFree
    <2>4. CASE q.iAccessCnt = m.iAccessCnt /\ q.avail = m.avail
      BY <1>6, <2>1, <2>4 DEF AvailableIsFree
    <2> QED BY <1>6, <2>3, <2>4
  <1>9. UserIsKnown(q, U2)
    <2>1. ASSUME NEW g \in U2
          PROVE  q.iAccessCnt[g] = -1 \/ (q.iAccessCnt[g] > 0 /\ q.bToBeDisplayed[g])
      <3>1. /\ g \in Frm /\ g # b
            /\ m.iAccessCnt[g] = -1 \/ (m.iAccessCnt[g] > 0 /\ m.bToBeDisplayed[g])
        BY <1>1, <1>2 DEF UserIsKnown
      <3>2. q.iAccessCnt[g] = m.iAccessCnt[g] /\ q.bToBeDisplayed[g] = m.bToBeDisplayed[g]
        BY <1>5, <1>6, <3>1
      <3> QED BY <3>1, <3>2
    <2> QED BY <1>2, <2>1 DEF UserIsKnown
  <1>10. QueuedOnce(q, U2, shown)
    <2>1. ASSUME NEW i \in DOMAIN m.dispFifo, i > shown
          PROVE  bd[m.dispFifo[i]] /\ m.dispFifo[i] \notin U2
      <3>1. m.bToBeDisplayed[m.dispFifo[i]] /\ m.dispFifo[i] \notin U
        BY <1>1, <2>1 DEF QueuedOnce
      <3>2. m.dispFifo[i] \in Frm
        BY <1>2, LenProperties, ElementOfSeq
      <3> QED BY <1>5, <3>1, <3>2
    <2>2. \A i \in DOMAIN m.nodes : m.nodes[i].bPicOutputFlag =>
             m.nodes[i].frm \notin U2 /\ m.nodes[i].frm \notin Range(m.dispFifo)
      BY <1>1 DEF QueuedOnce
    <2> HIDE DEF U2
    <2> QED BY ONLY <1>1, <1>6, <2>1, <2>2 DEF QueuedOnce
  <1>11. StatusIsKnown(q, U2, shown, N)
    <2>1. N \cap U2 = {}
      BY <1>1 DEF StatusIsKnown
    <2> HIDE DEF U2
    <2> QED BY ONLY <1>1, <1>6, <2>1 DEF StatusIsKnown
  <1>12. MngrInv(q, H, K, U2, shown, N)
    BY <1>1, <1>6, <1>7, <1>8, <1>9, <1>10, <1>11 DEF MngrInv
  <1> QED BY <1>6, <1>12 DEF q

\* A frame taken from the pool is nobody's else, and has one reference.
LEMMA FrameTaken ==
  ASSUME NEW m, NEW H, NEW K, NEW U, NEW shown, NEW N, MngrInv(m, H, K, U, shown, N),
         m.avail # <<>>, NEW H2, OneMore(Frm, H2, H, Head(m.avail))
  PROVE  /\ MngrInv(WithFrame(m), H2, K, U, shown, N)
         /\ WithFrame(m).nodes = m.nodes /\ WithFrame(m).dispFifo = m.dispFifo
         /\ WithFrame(m).deleted = m.deleted
         /\ H[Head(m.avail)] = 0 /\ Head(m.avail) \notin U
         /\ Head(m.avail) \notin FramesOf(m.nodes) /\ Head(m.avail) \notin Range(m.dispFifo)
  <1> DEFINE q == WithFrame(m)
             f == Head(m.avail)
             ac == [m.iAccessCnt EXCEPT ![f] = 1]
             av == Tail(m.avail)
  <1>1. /\ m \in PictMngrs /\ H \in [Frm -> Nat] /\ K \in [Annex -> Nat] /\ shown \in {0, 1}
        /\ Counted(m, H, K) /\ AvailableIsFree(m) /\ UserIsKnown(m, U)
        /\ QueuedOnce(m, U, shown) /\ StatusIsKnown(m, U, shown, N)
    BY DEF MngrInv
  <1>2. /\ m.iAccessCnt \in [Frm -> Nat \cup {-1}] /\ m.avail \in Seq(Frm)
    BY <1>1 DEF PictMngrs
  <1>3. /\ f \in Frm /\ f \in Range(m.avail) /\ av \in Seq(Frm)
        /\ Range(av) \subseteq Range(m.avail) /\ IsInjective(av) /\ f \notin Range(av)
    BY <1>1, <1>2, TailRange DEF AvailableIsFree
  <1>4. /\ H2 \in [Frm -> Nat]
        /\ \A g \in Frm : H2[g] = H[g] + (IF g = f THEN 1 ELSE 0)
    BY DEF OneMore
  <1> HIDE DEF f, av
  <1>5. m.iAccessCnt[f] = 0
    BY <1>1, <1>3 DEF AvailableIsFree, Range
  <1>6. /\ ac \in [Frm -> Nat \cup {-1}] /\ ac[f] = 1
        /\ \A g \in Frm : g # f => ac[g] = m.iAccessCnt[g]
    BY <1>2, <1>3
  <1>7. H[f] = 0 /\ DpbFrm(m, f) = 0
    <2>1. m.iAccessCnt[f] \in {H[f] + DpbFrm(m, f), -1}
      BY <1>1, <1>3 DEF Counted
    <2>2. H[f] \in Nat /\ DpbFrm(m, f) \in Nat
      BY <1>1, <1>3, DpbRefsType
    <2> QED BY ONLY <1>5, <2>1, <2>2
  <1>8. f \notin FramesOf(m.nodes) /\ f \notin Range(m.dispFifo)
    BY <1>1, <1>7, DpbRefsType
  <1>9. f \notin U
    BY <1>1, <1>5 DEF UserIsKnown
  <1>10. /\ q \in PictMngrs /\ q.nodes = m.nodes /\ q.deleted = m.deleted
        /\ q.dispFifo = m.dispFifo /\ q.bToBeDisplayed = m.bToBeDisplayed
        /\ q.mvFree = m.mvFree /\ q.pFrmStatus = m.pFrmStatus /\ q.mvAccessCnt = m.mvAccessCnt
        /\ q.iAccessCnt = ac /\ q.avail = av
    <2>1. q = [m EXCEPT !.iAccessCnt = ac, !.avail = av]
      BY <1>1 DEF WithFrame, PictMngrs, f, av
    <2> HIDE DEF q, ac
    <2> QED BY ONLY <1>1, <1>3, <1>6, <2>1 DEF PictMngrs
  <1> HIDE DEF q, ac
  <1>11. Counted(q, H2, K)
    <2>1. /\ \A g : DpbFrm(q, g) = DpbFrm(m, g)
          /\ \A a : DpbMv(q, a) = DpbMv(m, a)
      BY <1>10 DEF DpbFrm, DpbMv
    <2>2. ASSUME NEW g \in Frm
          PROVE  /\ q.iAccessCnt[g] \in {H2[g] + DpbFrm(q, g), -1}
                 /\ q.iAccessCnt[g] = -1 => H2[g] + DpbFrm(q, g) = 0
      <3>1. CASE g = f
        BY <1>3, <1>4, <1>6, <1>7, <1>10, <2>1, <3>1
      <3>2. CASE g # f
        <4>1. H2[g] = H[g]
          BY <1>1, <1>4, <3>2
        <4> QED BY <1>1, <1>6, <1>10, <2>1, <3>2, <4>1 DEF Counted
      <3> QED BY <3>1, <3>2
    <2> QED BY <1>1, <1>10, <2>1, <2>2 DEF Counted
  <1>12. AvailableIsFree(q)
    <2>1. \A g \in Range(m.avail) : m.iAccessCnt[g] = 0 /\ g \in Frm
      BY <1>1, <1>2, LenProperties, ElementOfSeq DEF AvailableIsFree, Range
    <2>2. \A g \in Range(av) : ac[g] = 0
      BY <1>3, <1>6, <2>1
    <2>3. \A i \in DOMAIN av : ac[av[i]] = 0
      BY <2>2 DEF Range
    <2> QED BY <1>1, <1>3, <1>10, <2>3 DEF AvailableIsFree
  <1>13. UserIsKnown(q, U)
    BY <1>1, <1>6, <1>9, <1>10 DEF UserIsKnown
  <1>14. QueuedOnce(q, U, shown) /\ StatusIsKnown(q, U, shown, N)
    BY ONLY <1>1, <1>10 DEF QueuedOnce, StatusIsKnown
  <1>15. MngrInv(q, H2, K, U, shown, N)
    BY <1>1, <1>4, <1>10, <1>11, <1>12, <1>13, <1>14 DEF MngrInv
  <1> QED BY <1>7, <1>8, <1>9, <1>10, <1>15 DEF q, f

\* An annex buffer taken from the pool has one reference.
LEMMA AnnexTaken ==
  ASSUME NEW m, NEW H, NEW K, NEW U, NEW shown, NEW N, MngrInv(m, H, K, U, shown, N),
         m.mvFree # <<>>, NEW K2, OneMore(Annex, K2, K, Head(m.mvFree))
  PROVE  /\ MngrInv(WithAnnex(m), H, K2, U, shown, N)
         /\ WithAnnex(m).nodes = m.nodes /\ WithAnnex(m).dispFifo = m.dispFifo
         /\ WithAnnex(m).deleted = m.deleted
         /\ Head(m.mvFree) \in Annex
  <1> DEFINE q == WithAnnex(m)
             f == Head(m.mvFree)
             ac == [m.mvAccessCnt EXCEPT ![f] = 1]
             av == Tail(m.mvFree)
  <1>1. /\ m \in PictMngrs /\ H \in [Frm -> Nat] /\ K \in [Annex -> Nat] /\ shown \in {0, 1}
        /\ Counted(m, H, K) /\ AvailableIsFree(m) /\ UserIsKnown(m, U)
        /\ QueuedOnce(m, U, shown) /\ StatusIsKnown(m, U, shown, N)
    BY DEF MngrInv
  <1>2. /\ m.mvAccessCnt \in [Annex -> Nat] /\ m.mvFree \in Seq(Annex)
    BY <1>1 DEF PictMngrs
  <1>3. /\ f \in Annex /\ f \in Range(m.mvFree) /\ av \in Seq(Annex)
        /\ Range(av) \subseteq Range(m.mvFree) /\ IsInjective(av) /\ f \notin Range(av)
    BY <1>1, <1>2, TailRange DEF AvailableIsFree
  <1>4. /\ K2 \in [Annex -> Nat]
        /\ \A g \in Annex : K2[g] = K[g] + (IF g = f THEN 1 ELSE 0)
    BY DEF OneMore
  <1> HIDE DEF f, av
  <1>5. m.mvAccessCnt[f] = 0
    BY <1>1, <1>3 DEF AvailableIsFree, Range
  <1>6. /\ ac \in [Annex -> Nat] /\ ac[f] = 1
        /\ \A g \in Annex : g # f => ac[g] = m.mvAccessCnt[g]
    BY <1>2, <1>3
  <1>7. K[f] = 0 /\ DpbMv(m, f) = 0
    <2>1. m.mvAccessCnt[f] = K[f] + DpbMv(m, f)
      BY <1>1, <1>3 DEF Counted
    <2>2. K[f] \in Nat /\ DpbMv(m, f) \in Nat
      BY <1>1, <1>3, DpbRefsType
    <2> QED BY ONLY <1>5, <2>1, <2>2
  <1>10. /\ q \in PictMngrs /\ q.nodes = m.nodes /\ q.deleted = m.deleted
        /\ q.dispFifo = m.dispFifo /\ q.bToBeDisplayed = m.bToBeDisplayed
        /\ q.avail = m.avail /\ q.pFrmStatus = m.pFrmStatus /\ q.iAccessCnt = m.iAccessCnt
        /\ q.mvAccessCnt = ac /\ q.mvFree = av
    <2>1. q = [m EXCEPT !.mvAccessCnt = ac, !.mvFree = av]
      BY <1>1 DEF WithAnnex, PictMngrs, f, av
    <2> HIDE DEF q, ac
    <2> QED BY ONLY <1>1, <1>3, <1>6, <2>1 DEF PictMngrs
  <1> HIDE DEF q, ac
  <1>11. Counted(q, H, K2)
    <2>1. /\ \A g : DpbFrm(q, g) = DpbFrm(m, g)
          /\ \A a : DpbMv(q, a) = DpbMv(m, a)
      BY <1>10 DEF DpbFrm, DpbMv
    <2>2. ASSUME NEW g \in Annex PROVE q.mvAccessCnt[g] = K2[g] + DpbMv(q, g)
      <3>1. CASE g = f
        BY <1>3, <1>4, <1>6, <1>7, <1>10, <2>1, <3>1
      <3>2. CASE g # f
        <4>1. K2[g] = K[g]
          BY <1>1, <1>4, <3>2
        <4> QED BY <1>1, <1>6, <1>10, <2>1, <3>2, <4>1 DEF Counted
      <3> QED BY <3>1, <3>2
    <2> QED BY <1>1, <1>10, <2>1, <2>2 DEF Counted
  <1>12. AvailableIsFree(q)
    <2>1. \A g \in Range(m.mvFree) : m.mvAccessCnt[g] = 0 /\ g \in Annex
      BY <1>1, <1>2, LenProperties, ElementOfSeq DEF AvailableIsFree, Range
    <2>2. \A g \in Range(av) : ac[g] = 0
      BY <1>3, <1>6, <2>1
    <2>3. \A i \in DOMAIN av : ac[av[i]] = 0
      BY <2>2 DEF Range
    <2> QED BY <1>1, <1>3, <1>10, <2>3 DEF AvailableIsFree
  <1>14. QueuedOnce(q, U, shown) /\ StatusIsKnown(q, U, shown, N) /\ UserIsKnown(q, U)
    BY ONLY <1>1, <1>10 DEF QueuedOnce, StatusIsKnown, UserIsKnown
  <1>15. MngrInv(q, H, K2, U, shown, N)
    BY <1>1, <1>4, <1>10, <1>11, <1>12, <1>14 DEF MngrInv
  <1> QED BY <1>3, <1>10, <1>15 DEF q, f

---------------------------------------------------------------------------
(* The locked lists *)

\* The places, in the lists of the slots S of the ring R, of elements of T.
Places(R, S, T) == UNION {{o} \X {i \in DOMAIN R[o] : R[o][i] \in T} : o \in S}

\* The places of the lists of S that hold an element of T are finitely many.
LEMMA PlacesAreFinite ==
  ASSUME NEW R \in [Ring -> Seq(Reference)], NEW S \in SUBSET Ring, NEW T
  PROVE  IsFiniteSet(Places(R, S, T))
  <1> DEFINE I(o) == {i \in DOMAIN R[o] : R[o][i] \in T}
             P == {{o} \X I(o) : o \in S}
             g == [o \in S |-> {o} \X I(o)]
  <1>1. IsFiniteSet(S)
    <2>1. IsFiniteSet(Ring)
      <3>1. MaxStack - 1 \in Int
        BY FlowAssumption
      <3> QED BY <3>1, FS_Interval DEF Ring
    <2> QED BY <2>1, FS_Subset
  <1>2. ASSUME NEW o \in S PROVE IsFiniteSet({o} \X I(o))
    <2>1. R[o] \in Seq(Reference)
      OBVIOUS
    <2>2. IsFiniteSet(I(o))
      BY ONLY <2>1, CountType
    <2>3. IsFiniteSet({o})
      BY FS_Singleton
    <2> HIDE DEF I
    <2> QED BY <2>2, <2>3, FS_Product
  <1>3. g \in Surjection(S, P)
    <2> HIDE DEF I
    <2>1. g \in [S -> P] /\ \A x \in P : \E o \in S : g[o] = x
      OBVIOUS
    <2> HIDE DEF g, P
    <2> QED BY <2>1 DEF Surjection
  <1>4. IsFiniteSet(P)
    <2> HIDE DEF g, P
    <2> QED BY <1>1, <1>3, FS_Surjection
  <1>5. \A x \in P : IsFiniteSet(x)
    <2> HIDE DEF I
    <2> QED BY <1>2
  <1>6. IsFiniteSet(UNION P)
    <2> HIDE DEF P
    <2> QED BY <1>4, <1>5, FS_UNION
  <1> QED BY <1>6 DEF Places

\* One more slot.
LEMMA SlotAdded ==
  ASSUME NEW R \in [Ring -> Seq(Reference)], NEW S \in SUBSET Ring, NEW T,
         NEW o \in Ring, o \notin S
  PROVE  /\ Cardinality(Places(R, S \cup {o}, T))
              = Cardinality(Places(R, S, T)) + Count(R[o], T)
         /\ Cardinality(Places(R, S, T)) \in Nat /\ Count(R[o], T) \in Nat
  <1> DEFINE I == {i \in DOMAIN R[o] : R[o][i] \in T}
             A == Places(R, S, T)
             B == {o} \X I
             g == [i \in I |-> <<o, i>>]
  <1>1. IsFiniteSet(A)
    BY PlacesAreFinite
  <1>2. IsFiniteSet(I) /\ Cardinality(I) = Count(R[o], T)
    <2>1. R[o] \in Seq(Reference)
      OBVIOUS
    <2> QED BY ONLY <2>1, CountType DEF Count
  <1>3. Places(R, S \cup {o}, T) = A \cup B /\ A \cap B = {}
    BY DEF Places
  <1> HIDE DEF A
  <1>4. IsFiniteSet(B) /\ Cardinality(B) = Cardinality(I)
    <2> HIDE DEF I
    <2>1. g \in Bijection(I, B)
      <3>1. g \in [I -> B]
        OBVIOUS
      <3>2. \A x, y \in I : g[x] = g[y] => x = y
        OBVIOUS
      <3>3. \A z \in B : \E x \in I : g[x] = z
        OBVIOUS
      <3> HIDE DEF g, B
      <3> QED BY <3>1, <3>2, <3>3 DEF Bijection, Injection, Surjection, IsInjective
    <2> HIDE DEF g, B
    <2> QED BY <1>2, <2>1, FS_Bijection DEF ExistsBijection
  <1>5. Cardinality(A \cup B) = Cardinality(A) + Cardinality(B)
    <2> HIDE DEF B
    <2>1. Cardinality(A \cup B) = Cardinality(A) + Cardinality(B) - Cardinality({})
      BY <1>1, <1>3, <1>4, FS_Union
    <2>2. Cardinality(A) \in Nat /\ Cardinality(B) \in Nat /\ Cardinality({}) = 0
      BY <1>1, <1>4, FS_CardinalityType, FS_EmptySet
    <2> QED BY <2>1, <2>2
  <1> QED BY <1>1, <1>2, <1>3, <1>4, <1>5, FS_CardinalityType DEF A

\* The references to a frame and to an annex of the lists of the slots S.
FrmLocked(R, S, f) ==
    Cardinality(UNION {{o} \X {i \in DOMAIN R[o] : R[o][i].frm = f} : o \in S})
MvLocked(R, S, a) ==
    Cardinality(UNION {{o} \X {i \in DOMAIN R[o] : R[o][i].mv = a} : o \in S})

\* The references to a frame, and those to an annex buffer.
WithFrm(f) == {e \in Reference : e.frm = f}
WithMv(a) == {e \in Reference : e.mv = a}

\* The references of the locked lists are counted by their places.
LEMMA LockedPlaces ==
  ASSUME NEW R \in [Ring -> Seq(Reference)], NEW S \in SUBSET Ring
  PROVE  /\ \A f : FrmLocked(R, S, f) = Cardinality(Places(R, S, WithFrm(f)))
         /\ \A a : MvLocked(R, S, a) = Cardinality(Places(R, S, WithMv(a)))
         /\ \A f : FrmLocked(R, S, f) \in Nat
         /\ \A a : MvLocked(R, S, a) \in Nat
  <1>1. \A o \in S : \A i \in DOMAIN R[o] : R[o][i] \in Reference
    <2> SUFFICES ASSUME NEW o \in S PROVE \A i \in DOMAIN R[o] : R[o][i] \in Reference
      OBVIOUS
    <2>1. R[o] \in Seq(Reference)
      OBVIOUS
    <2> QED BY ONLY <2>1, LenProperties, ElementOfSeq
  <1>2. ASSUME NEW f
        PROVE  FrmLocked(R, S, f) = Cardinality(Places(R, S, {e \in Reference : e.frm = f}))
    <2>1. \A o \in S : {i \in DOMAIN R[o] : R[o][i].frm = f}
                       = {i \in DOMAIN R[o] : R[o][i] \in {e \in Reference : e.frm = f}}
      BY <1>1
    <2>2. {{o} \X {i \in DOMAIN R[o] : R[o][i].frm = f} : o \in S}
          = {{o} \X {i \in DOMAIN R[o] : R[o][i] \in {e \in Reference : e.frm = f}} : o \in S}
      BY <2>1
    <2> QED BY <2>2 DEF FrmLocked, Places
  <1>3. ASSUME NEW a
        PROVE  MvLocked(R, S, a) = Cardinality(Places(R, S, {e \in Reference : e.mv = a}))
    <2>1. \A o \in S : {i \in DOMAIN R[o] : R[o][i].mv = a}
                       = {i \in DOMAIN R[o] : R[o][i] \in {e \in Reference : e.mv = a}}
      BY <1>1
    <2>2. {{o} \X {i \in DOMAIN R[o] : R[o][i].mv = a} : o \in S}
          = {{o} \X {i \in DOMAIN R[o] : R[o][i] \in {e \in Reference : e.mv = a}} : o \in S}
      BY <2>1
    <2> QED BY <2>2 DEF MvLocked, Places
  <1>4. \A T : Cardinality(Places(R, S, T)) \in Nat
    BY PlacesAreFinite, FS_CardinalityType
  <1> QED BY <1>2, <1>3, <1>4 DEF WithFrm, WithMv

\* The references of a list as counts of its elements.
LEMMA RefsCounted ==
  ASSUME NEW s \in Seq(Reference)
  PROVE  /\ \A f : FrmRefs(s, f) = Count(s, WithFrm(f))
         /\ \A a : MvRefs(s, a) = Count(s, WithMv(a))
  <1>1. \A i \in DOMAIN s : s[i] \in Reference
    BY LenProperties, ElementOfSeq
  <1> QED BY <1>1 DEF FrmRefs, MvRefs, Occurrences, Count, WithFrm, WithMv

\* A slot is locked, or its lock ends.
LEMMA SlotLocked ==
  ASSUME NEW R \in [Ring -> Seq(Reference)], NEW S \in SUBSET Ring,
         NEW o \in Ring, o \notin S
  PROVE  /\ \A f : FrmLocked(R, S \cup {o}, f) = FrmLocked(R, S, f) + FrmRefs(R[o], f)
         /\ \A a : MvLocked(R, S \cup {o}, a) = MvLocked(R, S, a) + MvRefs(R[o], a)
  <1> DEFINE S2 == S \cup {o}
  <1>1. S2 \in SUBSET Ring /\ R[o] \in Seq(Reference)
    OBVIOUS
  <1>2. \A T : Cardinality(Places(R, S2, T)) = Cardinality(Places(R, S, T)) + Count(R[o], T)
    BY SlotAdded
  <1> HIDE DEF S2
  <1>3. /\ \A f : FrmLocked(R, S2, f) = Cardinality(Places(R, S2, WithFrm(f)))
        /\ \A a : MvLocked(R, S2, a) = Cardinality(Places(R, S2, WithMv(a)))
    BY ONLY <1>1, R \in [Ring -> Seq(Reference)], LockedPlaces
  <1>4. /\ \A f : FrmLocked(R, S, f) = Cardinality(Places(R, S, WithFrm(f)))
        /\ \A a : MvLocked(R, S, a) = Cardinality(Places(R, S, WithMv(a)))
    BY ONLY S \in SUBSET Ring, R \in [Ring -> Seq(Reference)], LockedPlaces
  <1>5. /\ \A f : FrmRefs(R[o], f) = Count(R[o], WithFrm(f))
        /\ \A a : MvRefs(R[o], a) = Count(R[o], WithMv(a))
    BY ONLY <1>1, RefsCounted
  <1>6. /\ \A f : FrmLocked(R, S2, f) = FrmLocked(R, S, f) + FrmRefs(R[o], f)
        /\ \A a : MvLocked(R, S2, a) = MvLocked(R, S, a) + MvRefs(R[o], a)
    BY ONLY <1>2, <1>3, <1>4, <1>5
  <1> QED BY <1>6 DEF S2

\* The lists of the other slots do not matter.
LEMMA SameLists ==
  ASSUME NEW R, NEW R2, NEW S, \A o \in S : R2[o] = R[o]
  PROVE  /\ \A f : FrmLocked(R2, S, f) = FrmLocked(R, S, f)
         /\ \A a : MvLocked(R2, S, a) = MvLocked(R, S, a)
  <1>1. ASSUME NEW f PROVE FrmLocked(R2, S, f) = FrmLocked(R, S, f)
    <2>1. {{o} \X {i \in DOMAIN R2[o] : R2[o][i].frm = f} : o \in S}
          = {{o} \X {i \in DOMAIN R[o] : R[o][i].frm = f} : o \in S}
      OBVIOUS
    <2> QED BY <2>1 DEF FrmLocked
  <1>2. ASSUME NEW a PROVE MvLocked(R2, S, a) = MvLocked(R, S, a)
    <2>1. {{o} \X {i \in DOMAIN R2[o] : R2[o][i].mv = a} : o \in S}
          = {{o} \X {i \in DOMAIN R[o] : R[o][i].mv = a} : o \in S}
      OBVIOUS
    <2> QED BY <2>1 DEF MvLocked
  <1> QED BY <1>1, <1>2

\* The slots of the pictures lo to hi.
Slots(lo, hi) == {Offset(n) : n \in lo .. hi}

\* The slots of a range of pictures are in the ring.
LEMMA SlotsType ==
  ASSUME NEW lo \in Nat, NEW hi \in Int
  PROVE  Slots(lo, hi) \in SUBSET Ring
  <1>1. ASSUME NEW n \in lo .. hi PROVE Offset(n) \in Ring
    BY FlowAssumption DEF Offset, Ring
  <1> QED BY <1>1 DEF Slots

\* While a range of pictures is shorter than the ring, one more picture at
\* either end has a slot of its own.
LEMMA SlotsGrow ==
  ASSUME NEW lo \in Nat, NEW hi \in Nat, lo <= hi, hi - lo < MaxStack
  PROVE  /\ Slots(lo, hi) = Slots(lo, hi - 1) \cup {Offset(hi)}
         /\ Offset(hi) \notin Slots(lo, hi - 1)
         /\ Slots(lo, hi) = Slots(lo + 1, hi) \cup {Offset(lo)}
         /\ Offset(lo) \notin Slots(lo + 1, hi)
         /\ Offset(lo) \in Ring /\ Offset(hi) \in Ring
  <1>1. MaxStack \in Nat /\ MaxStack > 0
    BY FlowAssumption
  <1>2. ASSUME NEW j \in lo .. hi, NEW k \in lo .. hi, j < k PROVE Offset(j) # Offset(k)
    <2>1. j \in Nat /\ k \in Nat /\ j < k /\ k < j + MaxStack
      BY <1>1, <1>2
    <2>2. k % MaxStack # j % MaxStack
      BY ONLY <1>1, <2>1, RingPlaces
    <2> QED BY <2>2 DEF Offset
  <1> HIDE DEF Offset
  <1>3. /\ lo .. hi = lo .. (hi - 1) \cup {hi} /\ lo .. hi = (lo + 1) .. hi \cup {lo}
        /\ \A j \in lo .. (hi - 1) : j < hi /\ j \in lo .. hi
        /\ \A j \in (lo + 1) .. hi : lo < j /\ j \in lo .. hi
        /\ lo \in lo .. hi /\ hi \in lo .. hi
    OBVIOUS
  <1>4. Offset(lo) \in Ring /\ Offset(hi) \in Ring
    BY FlowAssumption DEF Offset, Ring
  <1>5. /\ Slots(lo, hi) = Slots(lo, hi - 1) \cup {Offset(hi)}
        /\ Slots(lo, hi) = Slots(lo + 1, hi) \cup {Offset(lo)}
    BY <1>3 DEF Slots
  <1>6. Offset(hi) \notin Slots(lo, hi - 1) /\ Offset(lo) \notin Slots(lo + 1, hi)
    BY <1>2, <1>3 DEF Slots
  <1> QED BY <1>4, <1>5, <1>6

---------------------------------------------------------------------------
(* What the threads hold *)

HoldsFrame == dpc = "annex" \/ Reserved

\* The last picture whose list is locked.
LastLocked == IF RefsLocked THEN iNumFrmBlk1 ELSE iNumFrmBlk1 - 1

\* The locked slots are those of the pictures in flight; the token of a
\* picture being parsed leaves room for one more.
LEMMA SlotsInUse ==
  ASSUME FlowInv
  PROVE  /\ LockedSlots = Slots(iNumFrmBlk2, LastLocked) /\ LockedSlots \in SUBSET Ring
         /\ iNumFrmBlk1 \in Nat /\ iNumFrmBlk2 \in Nat
         /\ Reserved => iNumFrmBlk2 <= iNumFrmBlk1 /\ iNumFrmBlk1 - iNumFrmBlk2 < MaxStack
         /\ cpc = "unlockRefs" => /\ iNumFrmBlk2 <= LastLocked /\ LastLocked \in Nat
                                  /\ LastLocked - iNumFrmBlk2 < MaxStack
  <1>1. /\ iNumFrmBlk1 \in Nat /\ iNumFrmBlk2 \in Nat /\ Sem \in Nat /\ taken \in Nat
        /\ Len(inflight) \in Nat /\ iStackSize \in Nat /\ MaxStack \in Nat
        /\ iStackSize <= MaxStack /\ (inflight = <<>> <=> Len(inflight) = 0)
    BY FlowAssumption, EmptyQueue DEF FlowInv, FlowTypes
  <1>2. LockedSlots = Slots(iNumFrmBlk2, LastLocked) /\ LockedSlots \in SUBSET Ring
    <2>1. LastLocked \in Int
      BY <1>1 DEF LastLocked
    <2> QED BY <1>1, <2>1, SlotsType DEF LockedSlots, Slots, LastLocked
  <1>3. /\ Sem + taken + Len(inflight) + (IF HoldsToken THEN 1 ELSE 0)
              + (IF cpc = "post" THEN 1 ELSE 0) = iStackSize
        /\ iNumFrmBlk1 = iNumFrmBlk2 + Len(inflight) - (IF Finished THEN 1 ELSE 0)
        /\ Finished \/ cpc = "unlockRefs" => Len(inflight) # 0
    BY <1>1 DEF FlowInv, TokensConserved, CountersAgree, Finished
  <1>4. CASE Reserved
    <2>1. HoldsToken
      BY <1>4 DEF HoldsToken
    <2>2. iNumFrmBlk2 <= iNumFrmBlk1 /\ iNumFrmBlk1 - iNumFrmBlk2 < MaxStack
      BY <1>1, <1>3, <2>1
    <2>3. ASSUME cpc = "unlockRefs"
          PROVE  /\ iNumFrmBlk2 <= LastLocked /\ LastLocked \in Nat
                 /\ LastLocked - iNumFrmBlk2 < MaxStack
      <3>1. ~Finished /\ Len(inflight) # 0
        BY <1>3, <2>3 DEF Finished
      <3>2. iNumFrmBlk2 <= iNumFrmBlk1 - 1 /\ iNumFrmBlk1 - 1 \in Nat
        BY <1>1, <1>3, <3>1
      <3> QED BY <1>1, <2>2, <3>2 DEF LastLocked
    <2> QED BY <1>1, <1>2, <2>2, <2>3
  <1>5. CASE ~Reserved
    <2>1. LastLocked = iNumFrmBlk1 - 1
      BY <1>5 DEF LastLocked, RefsLocked
    <2>2. ASSUME cpc = "unlockRefs"
          PROVE  /\ iNumFrmBlk2 <= LastLocked /\ LastLocked \in Nat
                 /\ LastLocked - iNumFrmBlk2 < MaxStack
      <3>1. ~Finished /\ Len(inflight) # 0
        BY <1>3, <2>2 DEF Finished
      <3> QED BY <1>1, <1>3, <2>1, <3>1
    <2> QED BY <1>1, <1>2, <1>5, <2>2
  <1> QED BY <1>4, <1>5

\* OtherFrm and OtherMv of the variables, before and after a step.
FrmsOf(holds, c, q, R, S) ==
    [f \in Frm |-> (IF holds /\ c.frm = f THEN 1 ELSE 0) + FrmRefs(q, f) + FrmLocked(R, S, f)]
MvsOf(holds, c, q, R, S) ==
    [a \in Annex |-> (IF holds /\ c.mv = a THEN 1 ELSE 0) + MvRefs(q, a) + MvLocked(R, S, a)]

\* OtherFrm and OtherMv are FrmsOf and MvsOf of the variables.
LEMMA OtherHolders ==
  /\ OtherFrm = FrmsOf(HoldsFrame, cur, inflight, refRing, LockedSlots)
  /\ OtherMv = MvsOf(Reserved, cur, inflight, refRing, LockedSlots)
  /\ OtherFrm' = FrmsOf(HoldsFrame', cur', inflight', refRing', LockedSlots')
  /\ OtherMv' = MvsOf(Reserved', cur', inflight', refRing', LockedSlots')
  BY DEF OtherFrm, OtherMv, InLockedLists, FrmLocked, MvLocked, FrmsOf, MvsOf, HoldsFrame

\* A step that touches none of the holders keeps their counts.
LEMMA SameHolders ==
  ASSUME cur' = cur, inflight' = inflight, refRing' = refRing,
         iNumFrmBlk1' = iNumFrmBlk1, iNumFrmBlk2' = iNumFrmBlk2,
         HoldsFrame' <=> HoldsFrame, Reserved' <=> Reserved, RefsLocked' <=> RefsLocked
  PROVE  LockedSlots' = LockedSlots /\ OtherFrm' = OtherFrm /\ OtherMv' = OtherMv
  <1>1. LockedSlots' = LockedSlots
    BY DEF LockedSlots, Offset
  <1>2. FrmsOf(HoldsFrame', cur, inflight, refRing, LockedSlots)
        = FrmsOf(HoldsFrame, cur, inflight, refRing, LockedSlots)
    BY DEF FrmsOf
  <1>3. MvsOf(Reserved', cur, inflight, refRing, LockedSlots)
        = MvsOf(Reserved, cur, inflight, refRing, LockedSlots)
    BY DEF MvsOf
  <1> QED BY <1>1, <1>2, <1>3, OtherHolders

\* An operation that does nothing keeps the pictures.
LEMMA KeepsSame ==
  ASSUME NEW m, NEW shown, m \in PictMngrs
  PROVE  DpbKeeps(m, m, shown)
  <1>1. Len(m.nodes) \in Nat
    BY LenProperties DEF PictMngrs
  <1> QED BY <1>1 DEF DpbKeeps

\* DpbShrinks says all that DpbKeeps says.
LEMMA ShrinksIsKeeps ==
  ASSUME NEW m, NEW q, NEW shown, DpbShrinks(m, q, shown)
  PROVE  DpbKeeps(m, q, shown)
  <1>1. \A i \in DOMAIN q.nodes : \E j \in DOMAIN m.nodes :
           q.nodes[i].frm = m.nodes[j].frm /\ q.nodes[i].pic = m.nodes[j].pic
    BY DEF DpbShrinks
  <1> QED BY <1>1 DEF DpbShrinks, DpbKeeps

\* All of PictureInv but the rules of the DPB's size and of the flush.
FlowKept ==
    /\ ThreadTypes
    /\ MngrInv(mngr, OtherFrm, OtherMv, user, Shown, NotDecoded)
    /\ CurIsFresh /\ PicturesKept
    /\ OutputIsExact

\* A step in which no picture enters the DPB, the queue or the locked lists.
LEMMA FlowStep ==
  ASSUME FlowInv, FlowKept,
         iNumFrmBlk1' = iNumFrmBlk1, cur' = cur, content' = content, stream' = stream,
         refRing' = refRing, LockedSlots' \subseteq LockedSlots,
         inflight' \in Seq(Reference), FramesOf(inflight') \subseteq FramesOf(inflight),
         DistinctFrames(inflight'),
         HoldsFrame' => HoldsFrame, Reserved' => Reserved, Inserted' <=> Inserted,
         HoldsFrame /\ ~Inserted => cur.frm \notin user',
         next' \in Nat, next <= next', Inserted => next' = next,
         dpc' \in {"pop", "annex"} \/ Reserved' => next' <= Len(stream) /\ stream[next'] # Eos,
         MngrInv(mngr', OtherFrm', OtherMv', user', Shown', NotDecoded'),
         \A i \in DOMAIN mngr'.nodes : \E j \in DOMAIN mngr.nodes :
            mngr'.nodes[i].frm = mngr.nodes[j].frm /\ mngr'.nodes[i].pic = mngr.nodes[j].pic,
         Range(mngr'.dispFifo) \subseteq Range(mngr.dispFifo) \cup FramesOf(mngr.nodes),
         output' \in Seq(Nat),
         Len(output') + ToOutput(mngr', Shown') = Len(output) + ToOutput(mngr, Shown)
  PROVE  FlowKept'
  <1>1. LockedSlots \in SUBSET Ring
    BY SlotsInUse
  <1>2. MngrInv(mngr, OtherFrm, OtherMv, user, Shown, NotDecoded)'
    OBVIOUS
  <1>3. ThreadTypes'
    <2>1. ThreadTypes
      BY DEF FlowKept
    <2>2. next' \in Nat \ {0}
      <3>1. next \in Nat \ {0}
        BY <2>1 DEF ThreadTypes
      <3> QED BY <3>1
    <2>3. dpc' \in {"pop", "annex"} \/ Reserved' => next' <= Len(stream') /\ Now' # Eos
      BY DEF Now
    <2>4. /\ dpc' = "annex" \/ Reserved' => cur.frm \in Frm
          /\ Reserved' => cur.mv \in Annex
      BY <2>1 DEF ThreadTypes, HoldsFrame
    <2> QED BY <2>1, <2>2, <2>3, <2>4 DEF ThreadTypes
  <1>4. FramesOf(mngr'.nodes) \subseteq FramesOf(mngr.nodes)
    BY DEF FramesOf
  <1>5. CurIsFresh'
    <2>1. CurIsFresh
      BY DEF FlowKept
    <2>2. HoldsFrame' /\ ~Inserted' =>
             /\ cur.frm \notin FramesOf(mngr'.nodes)
             /\ cur.frm \notin Range(mngr'.dispFifo)
             /\ cur.frm \notin user'
      BY <1>4, <2>1 DEF CurIsFresh, HoldsFrame
    <2>3. HoldsFrame' => /\ cur.frm \notin FramesOf(inflight')
                         /\ \A o \in LockedSlots' : cur.frm \notin FramesOf(refRing[o])
      BY <2>1 DEF CurIsFresh, HoldsFrame
    <2> QED BY <2>2, <2>3 DEF CurIsFresh, HoldsFrame
  <1>6. PicturesKept'
    <2>1. PicturesKept
      BY DEF FlowKept
    <2>2. mngr.nodes \in Seq(Node) /\ refRing \in [Ring -> Seq(Reference)] /\ next \in Nat
      BY DEF FlowKept, ThreadTypes, MngrInv, PictMngrs
    <2>3. ASSUME NEW e, e.pic \in Nat, IsKept(e) PROVE content'[e.frm] = e.pic /\ e.pic < next'
      BY <2>2, <2>3 DEF IsKept
    <2>4. ASSUME NEW i \in DOMAIN mngr'.nodes
          PROVE  IF Inserted' /\ mngr'.nodes[i].frm = cur'.frm
                 THEN mngr'.nodes[i].pic = next'
                 ELSE content'[mngr'.nodes[i].frm] = mngr'.nodes[i].pic /\ mngr'.nodes[i].pic < next'
      <3>1. PICK j \in DOMAIN mngr.nodes :
               mngr'.nodes[i].frm = mngr.nodes[j].frm /\ mngr'.nodes[i].pic = mngr.nodes[j].pic
        OBVIOUS
      <3>2. mngr.nodes[j].pic \in Nat
        BY <2>2, NodesTyped
      <3>3. IF Inserted /\ mngr.nodes[j].frm = cur.frm
            THEN mngr.nodes[j].pic = next
            ELSE IsKept(mngr.nodes[j])
        BY <2>1 DEF PicturesKept
      <3> QED BY <2>3, <3>1, <3>2, <3>3
    <2>5. ASSUME NEW o \in LockedSlots', NEW i \in DOMAIN refRing'[o]
          PROVE  content'[refRing'[o][i].frm] = refRing'[o][i].pic /\ refRing'[o][i].pic < next'
      <3>1. refRing[o] \in Seq(Reference) /\ o \in LockedSlots /\ i \in DOMAIN refRing[o]
        BY <1>1, <2>2
      <3>2. refRing[o][i].pic \in Nat /\ IsKept(refRing[o][i])
        BY <2>1, <3>1, ReferencesTyped DEF PicturesKept
      <3> QED BY <2>3, <3>2
    <2> QED BY <2>4, <2>5 DEF PicturesKept, IsKept
  <1>7. OutputIsExact'
    BY DEF FlowKept, OutputIsExact
  <1> QED BY <1>2, <1>3, <1>5, <1>6, <1>7 DEF FlowKept

\* A step of one thread in which no buffer changes hands.
LEMMA ManagerStep ==
  ASSUME FlowInv, FlowKept,
         iNumFrmBlk1' = iNumFrmBlk1, iNumFrmBlk2' = iNumFrmBlk2,
         refRing' = refRing, inflight' = inflight, cur' = cur, user' = user,
         content' = content, output' = output, stream' = stream,
         HoldsFrame' <=> HoldsFrame, Reserved' <=> Reserved, RefsLocked' <=> RefsLocked,
         Inserted' <=> Inserted, Shown' = Shown, Undecoded' = Undecoded,
         next' \in Nat, next <= next', Inserted => next' = next,
         dpc' \in {"pop", "annex"} \/ Reserved' => next' <= Len(stream) /\ stream[next'] # Eos,
         MngrInv(mngr', OtherFrm, OtherMv, user, Shown, NotDecoded),
         DpbKeeps(mngr, mngr', Shown)
  PROVE  FlowKept'
  <1>1. LockedSlots' = LockedSlots /\ OtherFrm' = OtherFrm /\ OtherMv' = OtherMv
    BY SameHolders
  <1>2. NotDecoded' = NotDecoded
    BY DEF NotDecoded
  <1>3. MngrInv(mngr', OtherFrm', OtherMv', user', Shown', NotDecoded')
    BY <1>1, <1>2
  <1>4. ThreadTypes /\ CurIsFresh
    BY DEF FlowKept
  <1>5. /\ inflight \in Seq(Reference) /\ output \in Seq(Nat) /\ DistinctFrames(inflight)
        /\ HoldsFrame /\ ~Inserted => cur.frm \notin user
    BY <1>4 DEF ThreadTypes, CurIsFresh, HoldsFrame
  <1>6. /\ \A i \in DOMAIN mngr'.nodes : \E j \in DOMAIN mngr.nodes :
              mngr'.nodes[i].frm = mngr.nodes[j].frm /\ mngr'.nodes[i].pic = mngr.nodes[j].pic
        /\ Range(mngr'.dispFifo) \subseteq Range(mngr.dispFifo) \cup FramesOf(mngr.nodes)
        /\ ToOutput(mngr', Shown) = ToOutput(mngr, Shown)
    BY DEF DpbKeeps
  <1> QED BY <1>1, <1>3, <1>5, <1>6, FlowStep

\* The three parts of PictureInv, before and after a step.
LEMMA PictureParts ==
  /\ PictureInv <=> FlowKept /\ DpbHasRoom /\ FlushLeavesNothing
  /\ PictureInv' <=> FlowKept' /\ DpbHasRoom' /\ FlushLeavesNothing'
  BY DEF PictureInv, FlowKept

\* What the steps need of the invariant.
LEMMA FlowFacts ==
  ASSUME FlowKept
  PROVE  /\ MngrInv(mngr, OtherFrm, OtherMv, user, Shown, NotDecoded)
         /\ mngr \in PictMngrs
         /\ mngr.nodes \in Seq(Node) /\ mngr.dispFifo \in Seq(Frm) /\ mngr.deleted \in Seq(Entry)
         /\ mngr.avail \in Seq(Frm) /\ mngr.mvFree \in Seq(Annex)
         /\ inflight \in Seq(Reference) /\ refRing \in [Ring -> Seq(Reference)]
         /\ stream \in Streams /\ next \in Nat /\ next > 0
         /\ content \in [Frm -> Nat] /\ output \in Seq(Nat)
         /\ HoldsFrame => cur.frm \in Frm
         /\ Reserved => cur.mv \in Annex
         /\ cur \in [frm : Frm \cup {0}, mv : Annex \cup {0}]
         /\ dpc \in {"pop", "annex"} \/ Reserved => next <= Len(stream) /\ Now # Eos
         /\ OtherFrm \in [Frm -> Nat] /\ OtherMv \in [Annex -> Nat]
  <1>1. MngrInv(mngr, OtherFrm, OtherMv, user, Shown, NotDecoded) /\ ThreadTypes
    BY DEF FlowKept
  <1>2. mngr \in PictMngrs /\ OtherFrm \in [Frm -> Nat] /\ OtherMv \in [Annex -> Nat]
    BY <1>1 DEF MngrInv
  <1>3. /\ mngr.nodes \in Seq(Node) /\ mngr.dispFifo \in Seq(Frm) /\ mngr.deleted \in Seq(Entry)
        /\ mngr.avail \in Seq(Frm) /\ mngr.mvFree \in Seq(Annex)
    BY <1>2 DEF PictMngrs
  <1>4. next \in Nat /\ next > 0
    BY <1>1 DEF ThreadTypes
  <1> QED BY <1>1, <1>2, <1>3, <1>4 DEF ThreadTypes, HoldsFrame

\* A step that leaves the picture manager and what the threads hold alone.
LEMMA QuietStep ==
  ASSUME FlowInv, FlowKept, mngr' = mngr,
         iNumFrmBlk1' = iNumFrmBlk1, iNumFrmBlk2' = iNumFrmBlk2,
         refRing' = refRing, inflight' = inflight, cur' = cur, user' = user,
         content' = content, output' = output, stream' = stream,
         HoldsFrame' <=> HoldsFrame, Reserved' <=> Reserved, RefsLocked' <=> RefsLocked,
         Inserted' <=> Inserted, Shown' = Shown, Undecoded' = Undecoded,
         next' \in Nat, next <= next', Inserted => next' = next,
         dpc' \in {"pop", "annex"} \/ Reserved' => next' <= Len(stream) /\ stream[next'] # Eos
  PROVE  FlowKept'
  <1>1. MngrInv(mngr', OtherFrm, OtherMv, user, Shown, NotDecoded)
    BY DEF FlowKept
  <1>2. DpbKeeps(mngr, mngr', Shown)
    BY KeepsSame, FlowFacts
  <1> QED BY <1>1, <1>2, ManagerStep

\* The decoder thread moves from one place to another; the callback thread
\* does not.
LEMMA DecoderMoves ==
  ASSUME FlowInv, FlowKept, mngr' = mngr,
         iNumFrmBlk1' = iNumFrmBlk1, iNumFrmBlk2' = iNumFrmBlk2,
         refRing' = refRing, inflight' = inflight, cur' = cur, user' = user,
         content' = content, output' = output, stream' = stream, cpc' = cpc,
         ~HoldsFrame, dpc # "signal", ~HoldsFrame', dpc' # "signal",
         next' \in Nat, next <= next',
         dpc' = "pop" => next' <= Len(stream) /\ stream[next'] # Eos
  PROVE  FlowKept'
  <1>1. /\ ~Reserved /\ ~RefsLocked /\ ~Inserted
        /\ ~Reserved' /\ ~RefsLocked' /\ ~Inserted' /\ dpc' # "annex"
    BY DEF HoldsFrame, Reserved, RefsLocked, Inserted
  <1>2. Shown' = Shown /\ Undecoded' = Undecoded
    BY DEF Shown, Undecoded
  <1> QED BY <1>1, <1>2, QuietStep

\* The DPB keeps its room while the decoder thread stays where it is.
LEMMA RoomKept ==
  ASSUME FlowKept, DpbHasRoom, dpc' = dpc, next' = next, stream' = stream,
         mngr'.nodes \in Seq(Node),
         Len(mngr'.nodes) <= Len(mngr.nodes), NumRef(mngr'.nodes) <= NumRef(mngr.nodes)
  PROVE  DpbHasRoom'
  <1>1. /\ Len(mngr'.nodes) \in Nat /\ Len(mngr.nodes) \in Nat
        /\ NumRef(mngr'.nodes) \in Nat /\ NumRef(mngr.nodes) \in Nat
        /\ uNumRef \in Nat
        /\ (mngr.nodes = <<>> => mngr'.nodes = <<>>)
    <2>1. mngr.nodes \in Seq(Node)
      BY FlowFacts
    <2>2. /\ Len(mngr'.nodes) \in Nat /\ Len(mngr.nodes) \in Nat
          /\ NumRef(mngr'.nodes) \in Nat /\ NumRef(mngr.nodes) \in Nat
      BY <2>1, LenProperties, RefsType
    <2>3. mngr.nodes = <<>> => Len(mngr'.nodes) = 0
      BY <2>2
    <2>4. Len(mngr'.nodes) = 0 => mngr'.nodes = <<>>
      BY EmptySeq
    <2> QED BY FlowAssumption, <2>2, <2>3, <2>4
  <1>2. Now' = Now
    BY DEF Now
  <1> DEFINE a == Len(mngr'.nodes)
             b == Len(mngr.nodes)
             c == NumRef(mngr'.nodes)
             d == NumRef(mngr.nodes)
  <1>3. /\ a \in Nat /\ b \in Nat /\ c \in Nat /\ d \in Nat /\ uNumRef \in Nat /\ a <= b /\ c <= d
    BY <1>1
  <1> HIDE DEF a, b, c, d
  <1>4. /\ dpc # "cleanup" => b <= uNumRef
        /\ dpc \in {"endParsing", "insert"} /\ Now.idr => mngr.nodes = <<>>
        /\ dpc = "cleanup" =>
              /\ b <= uNumRef + 1
              /\ Now.idr => b <= 1
              /\ ~Now.ref => d <= uNumRef \/ Now.idr
    BY DEF DpbHasRoom, a, b, c, d
  <1>5. /\ dpc # "cleanup" => a <= uNumRef
        /\ dpc = "cleanup" =>
              /\ a <= uNumRef + 1
              /\ Now.idr => a <= 1
              /\ ~Now.ref => c <= uNumRef \/ Now.idr
    BY <1>3, <1>4
  <1> QED BY <1>1, <1>2, <1>4, <1>5 DEF DpbHasRoom, a, c

\* The DPB has room and the decoder thread is not in updatePictManager.
LEMMA RoomLeft ==
  ASSUME DpbHasRoom, dpc # "cleanup", mngr'.nodes = mngr.nodes,
         dpc' \notin {"endParsing", "insert", "cleanup"}
  PROVE  DpbHasRoom'
  BY DEF DpbHasRoom

Away == dpc \in {"parse", "pop", "wait", "exited"}

\* A step of the decoder thread away from the DPB.
LEMMA AwayStep ==
  ASSUME FlowInv, PictureInv, mngr' = mngr,
         iNumFrmBlk1' = iNumFrmBlk1, iNumFrmBlk2' = iNumFrmBlk2,
         refRing' = refRing, inflight' = inflight, cur' = cur, user' = user,
         content' = content, output' = output, stream' = stream, cpc' = cpc,
         hasBeenFlushed' = hasBeenFlushed, Away, Away',
         next' \in Nat, next <= next',
         dpc' = "pop" => next' <= Len(stream) /\ stream[next'] # Eos
  PROVE  PictureInv'
  <1>1. FlowKept'
    <2>1. ~HoldsFrame /\ dpc # "signal" /\ ~HoldsFrame' /\ dpc' # "signal"
      BY DEF HoldsFrame, Reserved, Away
    <2> QED BY <2>1, DecoderMoves, PictureParts
  <1>2. DpbHasRoom'
    BY RoomLeft, PictureParts DEF Away
  <1>3. FlushLeavesNothing'
    <2>1. /\ FlushLeavesNothing
      BY PictureParts
    <2>2. ~Inserted /\ ~Flushing'
      BY DEF Inserted, Flushing, Away
    <2>3. dpc' \notin {"terminate", "annexes"} /\ dpc' # "annexes"
      BY DEF Away
    <2> QED BY <2>1, <2>2, <2>3 DEF FlushLeavesNothing
  <1> QED BY <1>1, <1>2, <1>3, PictureParts

\* AL_InitFrameBuffers takes a token, and no buffer.
LEMMA ReserveStartKeeps ==
  ASSUME FlowInv, PictureInv, ReserveStart PROVE PictureInv'
  <1>1. /\ mngr' = mngr /\ iNumFrmBlk1' = iNumFrmBlk1 /\ iNumFrmBlk2' = iNumFrmBlk2
        /\ refRing' = refRing /\ inflight' = inflight /\ cur' = cur /\ user' = user
        /\ content' = content /\ output' = output /\ stream' = stream /\ cpc' = cpc
        /\ hasBeenFlushed' = hasBeenFlushed /\ next' = next
        /\ dpc = "parse" /\ dpc' = "pop" /\ ~AtEnd /\ Now # Eos
    BY DEF ReserveStart, ghosts
  <1>2. next \in Nat /\ Len(stream) \in Nat
    <2>1. stream \in Seq(Picture \cup {Eos})
      BY FlowFacts, PictureParts, FlowAssumption
    <2> QED BY <2>1, LenProperties, FlowFacts, PictureParts
  <1>3. next <= next /\ next <= Len(stream) /\ stream[next] # Eos
    BY <1>1, <1>2 DEF AtEnd, Now
  <1>4. Away /\ Away'
    BY <1>1 DEF Away
  <1> QED BY <1>1, <1>2, <1>3, <1>4, AwayStep

\* AL_PictMngr_BeginFrame fails: the token goes back, the picture is dropped.
LEMMA BeginFrameFailsKeeps ==
  ASSUME FlowInv, PictureInv, BeginFrameFails PROVE PictureInv'
  <1>1. /\ mngr' = mngr /\ iNumFrmBlk1' = iNumFrmBlk1 /\ iNumFrmBlk2' = iNumFrmBlk2
        /\ refRing' = refRing /\ inflight' = inflight /\ cur' = cur /\ user' = user
        /\ content' = content /\ output' = output /\ stream' = stream /\ cpc' = cpc
        /\ hasBeenFlushed' = hasBeenFlushed /\ next' = next + 1
        /\ dpc = "pop" /\ dpc' = "parse"
    BY DEF BeginFrameFails, ghosts
  <1>2. next' \in Nat /\ next <= next'
    BY <1>1, FlowFacts, PictureParts
  <1>3. Away /\ Away'
    BY <1>1 DEF Away
  <1> QED BY <1>1, <1>2, <1>3, AwayStep

\* The start of a flush, and each turn of WaitFrameSent, touch no buffer.
LEMMA FlushBeginsKeeps ==
  ASSUME FlowInv, PictureInv, StartFlush \/ Leave \/ WaitFrameSent PROVE PictureInv'
  <1>1. /\ mngr' = mngr /\ iNumFrmBlk1' = iNumFrmBlk1 /\ iNumFrmBlk2' = iNumFrmBlk2
        /\ refRing' = refRing /\ inflight' = inflight /\ cur' = cur /\ user' = user
        /\ content' = content /\ output' = output /\ stream' = stream /\ cpc' = cpc
        /\ hasBeenFlushed' = hasBeenFlushed /\ next' = next
        /\ dpc \in {"parse", "wait"} /\ dpc' \in {"wait", "exited"}
    BY DEF StartFlush, Leave, WaitFrameSent, cntVars, ghosts
  <1>2. next' \in Nat /\ next <= next'
    BY <1>1, FlowFacts, PictureParts
  <1>3. Away /\ Away' /\ dpc' # "pop"
    BY <1>1 DEF Away
  <1> QED BY <1>1, <1>2, <1>3, AwayStep

\* The threads do not move.
LEMMA StillStep ==
  ASSUME FlowInv, PictureInv, UNCHANGED <<mngr, cntVars, refRing, inflight, decVars, cpc,
                                          stream, user, ghosts>>
  PROVE  PictureInv'
  <1>1. /\ mngr' = mngr /\ iNumFrmBlk1' = iNumFrmBlk1 /\ iNumFrmBlk2' = iNumFrmBlk2
        /\ refRing' = refRing /\ inflight' = inflight /\ cur' = cur /\ user' = user
        /\ content' = content /\ output' = output /\ stream' = stream /\ cpc' = cpc
        /\ hasBeenFlushed' = hasBeenFlushed /\ next' = next /\ dpc' = dpc
    BY DEF cntVars, decVars, ghosts
  <1>2. next' \in Nat /\ next <= next'
    BY <1>1, FlowFacts, PictureParts
  <1>3. dpc' \in {"pop", "annex"} \/ Reserved' => next' <= Len(stream) /\ stream[next'] # Eos
    <2>1. dpc \in {"pop", "annex"} \/ Reserved => next <= Len(stream) /\ stream[next] # Eos
      BY FlowFacts, PictureParts DEF Now
    <2>2. Reserved' <=> Reserved
      BY <1>1 DEF Reserved
    <2> QED BY <1>1, <2>1, <2>2
  <1>4. FlowKept'
    <2>1. /\ HoldsFrame' <=> HoldsFrame
          /\ Reserved' <=> Reserved
          /\ RefsLocked' <=> RefsLocked
          /\ Inserted' <=> Inserted
          /\ Shown' = Shown /\ Undecoded' = Undecoded
      BY <1>1 DEF HoldsFrame, Reserved, RefsLocked, Inserted, Shown, Undecoded
    <2> QED BY <1>1, <1>2, <1>3, <2>1, QuietStep, PictureParts
  <1>5. DpbHasRoom' /\ FlushLeavesNothing'
    BY <1>1, PictureParts DEF DpbHasRoom, FlushLeavesNothing, Now, Flushing, Inserted
  <1> QED BY <1>4, <1>5, PictureParts

\* The last step of EndDecoding releases the token, and nothing else.
LEMMA SemReleasedKeeps ==
  ASSUME FlowInv, PictureInv, SemReleased PROVE PictureInv'
  <1>1. /\ mngr' = mngr /\ iNumFrmBlk1' = iNumFrmBlk1 /\ iNumFrmBlk2' = iNumFrmBlk2
        /\ refRing' = refRing /\ inflight' = inflight /\ cur' = cur /\ user' = user
        /\ content' = content /\ output' = output /\ stream' = stream
        /\ hasBeenFlushed' = hasBeenFlushed /\ next' = next /\ dpc' = dpc
        /\ cpc = "post" /\ cpc' = "idle"
    BY DEF SemReleased, decVars, ghosts
  <1>2. next' \in Nat /\ next <= next'
    BY <1>1, FlowFacts, PictureParts
  <1>3. dpc' \in {"pop", "annex"} \/ Reserved' => next' <= Len(stream) /\ stream[next'] # Eos
    <2>1. dpc \in {"pop", "annex"} \/ Reserved => next <= Len(stream) /\ stream[next] # Eos
      BY FlowFacts, PictureParts DEF Now
    <2>2. Reserved' <=> Reserved
      BY <1>1 DEF Reserved
    <2> QED BY <1>1, <2>1, <2>2
  <1>4. FlowKept'
    <2>1. /\ HoldsFrame' <=> HoldsFrame
          /\ Reserved' <=> Reserved
          /\ RefsLocked' <=> RefsLocked
          /\ Inserted' <=> Inserted
          /\ Shown' = Shown /\ Undecoded' = Undecoded
      BY <1>1 DEF HoldsFrame, Reserved, RefsLocked, Inserted, Shown, Undecoded
    <2> QED BY <1>1, <1>2, <1>3, <2>1, QuietStep, PictureParts
  <1>5. DpbHasRoom' /\ FlushLeavesNothing'
    BY <1>1, PictureParts DEF DpbHasRoom, FlushLeavesNothing, Now, Flushing, Inserted
  <1> QED BY <1>4, <1>5, PictureParts

\* A step of the decoder thread that changes the picture manager only.
LEMMA UpdateStep ==
  ASSUME FlowInv, FlowKept, NEW from, NEW to, NEW m, Update(from, to, m),
         \/ from \in {"flushDpb", "endParsing"} /\ to \in {"endParsing", "insert"}
         \/ from = "cleanup" /\ to = "launch",
         MngrInv(m, OtherFrm, OtherMv, user, Shown, NotDecoded), DpbKeeps(mngr, m, Shown)
  PROVE  /\ FlowKept' /\ mngr' = m /\ dpc = from /\ dpc' = to
         /\ hasBeenFlushed' = hasBeenFlushed /\ Now' = Now
         /\ inflight' = inflight /\ cpc' = cpc
  <1>1. /\ mngr' = m /\ iNumFrmBlk1' = iNumFrmBlk1 /\ iNumFrmBlk2' = iNumFrmBlk2
        /\ refRing' = refRing /\ inflight' = inflight /\ cur' = cur /\ user' = user
        /\ content' = content /\ output' = output /\ stream' = stream /\ cpc' = cpc
        /\ hasBeenFlushed' = hasBeenFlushed /\ next' = next
        /\ dpc = from /\ dpc' = to
    BY DEF Update, cntVars, ghosts
  <1>2. /\ HoldsFrame /\ HoldsFrame' /\ Reserved /\ Reserved' /\ RefsLocked /\ RefsLocked'
        /\ Inserted' <=> Inserted
        /\ Shown' = Shown /\ Undecoded' = Undecoded
    BY <1>1 DEF HoldsFrame, Reserved, RefsLocked, Inserted, Shown, Undecoded
  <1>3. next' \in Nat /\ next <= next'
    BY <1>1, FlowFacts
  <1>4. next' <= Len(stream) /\ stream[next'] # Eos
    BY <1>1, <1>2, FlowFacts DEF Now
  <1>5. FlowKept'
    BY <1>1, <1>2, <1>3, <1>4, ManagerStep
  <1> QED BY <1>1, <1>5 DEF Now

\* An empty DPB has room.
LEMMA EmptyDpb ==
  ASSUME NEW s, s = <<>>
  PROVE  Len(s) = 0 /\ Len(s) <= uNumRef
  <1>1. uNumRef \in Nat
    BY FlowAssumption
  <1> QED BY <1>1

\* An IDR picture flushes the DPB.
LEMMA IdrFlushKeeps ==
  ASSUME FlowInv, PictureInv, Update("flushDpb", "endParsing", Flush(mngr))
  PROVE  PictureInv'
  <1> DEFINE q == Flush(mngr)
  <1>1. FlowKept /\ DpbHasRoom /\ FlushLeavesNothing
    BY PictureParts
  <1>2. /\ MngrInv(q, OtherFrm, OtherMv, user, Shown, NotDecoded)
        /\ q.nodes = <<>> /\ DpbShrinks(mngr, q, Shown)
        /\ mngr.nodes = <<>> => q = mngr
    BY ONLY <1>1, FlowFacts, Flushed
  <1> HIDE DEF q
  <1>3. DpbKeeps(mngr, q, Shown)
    BY <1>2, ShrinksIsKeeps
  <1>4. /\ FlowKept' /\ mngr' = q /\ dpc = "flushDpb" /\ dpc' = "endParsing"
        /\ hasBeenFlushed' = hasBeenFlushed /\ Now' = Now
        /\ inflight' = inflight /\ cpc' = cpc
    <2>1. Update("flushDpb", "endParsing", q)
      BY DEF q
    <2> QED BY <1>1, <1>2, <1>3, <2>1, UpdateStep
  <1>5. DpbHasRoom'
    BY <1>2, <1>4, EmptyDpb DEF DpbHasRoom
  <1>6. FlushLeavesNothing'
    BY <1>1, <1>2, <1>4 DEF FlushLeavesNothing, Flushing, Inserted
  <1> QED BY <1>4, <1>5, <1>6, PictureParts

\* AL_AVC_Dpb_EndParsing removes a reference with the POC of the picture.
LEMMA EndParsingKeeps ==
  ASSUME FlowInv, PictureInv, Update("endParsing", "insert", EndParsing(mngr, Now.poc))
  PROVE  PictureInv'
  <1> DEFINE q == EndParsing(mngr, Now.poc)
  <1>1. FlowKept /\ DpbHasRoom /\ FlushLeavesNothing
    BY PictureParts
  <1>2. /\ MngrInv(q, OtherFrm, OtherMv, user, Shown, NotDecoded)
        /\ DpbShrinks(mngr, q, Shown)
        /\ mngr.nodes = <<>> => q = mngr
    BY ONLY <1>1, FlowFacts, ParsingEnded
  <1> HIDE DEF q
  <1>3. DpbKeeps(mngr, q, Shown)
    BY <1>2, ShrinksIsKeeps
  <1>4. /\ FlowKept' /\ mngr' = q /\ dpc = "endParsing" /\ dpc' = "insert"
        /\ hasBeenFlushed' = hasBeenFlushed /\ Now' = Now
        /\ inflight' = inflight /\ cpc' = cpc
    <2>1. Update("endParsing", "insert", q)
      BY DEF q
    <2> QED BY <1>1, <1>2, <1>3, <2>1, UpdateStep
  <1>5. DpbHasRoom'
    <2>1. Len(mngr.nodes) <= uNumRef /\ (Now.idr => mngr.nodes = <<>>)
      BY <1>1, <1>4 DEF DpbHasRoom
    <2>2. /\ Len(mngr.nodes) \in Nat /\ Len(q.nodes) \in Nat /\ uNumRef \in Nat
          /\ Len(q.nodes) <= Len(mngr.nodes)
      <3>1. q.nodes \in Seq(Node) /\ mngr.nodes \in Seq(Node)
        BY <1>1, <1>2, FlowFacts DEF MngrInv, PictMngrs
      <3> QED BY FlowAssumption, <1>2, <3>1, LenProperties DEF DpbShrinks
    <2>3. Len(q.nodes) <= uNumRef
      BY ONLY <2>1, <2>2
    <2> QED BY <1>2, <1>4, <2>1, <2>3 DEF DpbHasRoom
  <1>6. FlushLeavesNothing'
    BY <1>1, <1>2, <1>4 DEF FlushLeavesNothing, Flushing, Inserted
  <1> QED BY <1>4, <1>5, <1>6, PictureParts

\* The marking and AL_Dpb_AVC_Cleanup make room for the next picture.
LEMMA CleanupKeeps ==
  ASSUME FlowInv, PictureInv,
         Update("cleanup", "launch",
                AVC_Cleanup(IF Now.ref /\ ~Now.idr THEN SlidingWindowMarking(mngr) ELSE mngr))
  PROVE  PictureInv'
  <1> DEFINE w == IF Now.ref /\ ~Now.idr THEN SlidingWindowMarking(mngr) ELSE mngr
             q == AVC_Cleanup(w)
             Ok(m) == MngrInv(m, OtherFrm, OtherMv, user, Shown, NotDecoded)
  <1>1. FlowKept /\ DpbHasRoom /\ FlushLeavesNothing
    BY PictureParts
  <1>2. Ok(mngr) /\ mngr \in PictMngrs /\ mngr.nodes \in Seq(Node)
    BY <1>1, FlowFacts
  <1>3. dpc = "cleanup"
    BY DEF Update
  <1>4. /\ uNumRef \in Nat /\ uNumRef > 0 /\ Len(mngr.nodes) \in Nat
        /\ NumRef(mngr.nodes) \in Nat /\ NumRef(mngr.nodes) <= Len(mngr.nodes)
        /\ Len(mngr.nodes) <= uNumRef + 1
        /\ Now.idr => Len(mngr.nodes) <= 1
        /\ ~Now.ref => NumRef(mngr.nodes) <= uNumRef \/ Now.idr
    BY FlowAssumption, <1>1, <1>2, <1>3, RefsType, LenProperties DEF DpbHasRoom
  <1>5. Ok(w) /\ DpbKeeps(mngr, w, Shown) /\ NumRef(w.nodes) <= uNumRef
    <2>1. CASE Now.ref /\ ~Now.idr
      <3> DEFINE v == SlidingWindowMarking(mngr)
      <3>1. /\ Ok(v) /\ DpbKeeps(mngr, v, Shown)
            /\ NumRef(mngr.nodes) <= uNumRef + 1 => NumRef(v.nodes) <= uNumRef
        BY ONLY <1>2, WindowMarked
      <3>2. NumRef(mngr.nodes) <= uNumRef + 1
        BY ONLY <1>4
      <3>3. w = v
        BY <2>1
      <3> HIDE DEF v, w, Ok
      <3> QED BY ONLY <3>1, <3>2, <3>3
    <2>2. CASE ~(Now.ref /\ ~Now.idr)
      <3>1. w = mngr
        BY <2>2
      <3>2. DpbKeeps(mngr, mngr, Shown)
        BY <1>2, KeepsSame
      <3>3. NumRef(mngr.nodes) <= uNumRef
        BY <1>4, <2>2
      <3> HIDE DEF w, Ok
      <3> QED BY ONLY <1>2, <3>1, <3>2, <3>3
    <2> QED BY <2>1, <2>2
  <1> HIDE DEF w
  <1>6. Ok(q) /\ DpbShrinks(w, q, Shown) /\ Len(q.nodes) <= uNumRef
    BY ONLY <1>5, CleanedUp
  <1> HIDE DEF q
  <1>7. DpbKeeps(mngr, q, Shown)
    <2>1. w \in PictMngrs /\ q \in PictMngrs
      BY <1>5, <1>6 DEF MngrInv
    <2> QED BY ONLY <1>2, <1>5, <1>6, <2>1, KeepsThenShrinks
  <1>8. /\ FlowKept' /\ mngr' = q /\ dpc = "cleanup" /\ dpc' = "launch"
        /\ hasBeenFlushed' = hasBeenFlushed /\ Now' = Now
        /\ inflight' = inflight /\ cpc' = cpc
    <2>1. Update("cleanup", "launch", q)
      BY DEF q, w
    <2> QED BY <1>1, <1>6, <1>7, <2>1, UpdateStep
  <1>9. DpbHasRoom'
    BY <1>6, <1>8 DEF DpbHasRoom
  <1>10. FlushLeavesNothing'
    BY <1>8 DEF FlushLeavesNothing, Flushing, Inserted
  <1> QED BY <1>8, <1>9, <1>10, PictureParts

---------------------------------------------------------------------------
(* The flush *)

\* With every token in hand, the flush empties the DPB into the fifo.
LEMMA AllFramesSentKeeps ==
  ASSUME FlowInv, PictureInv, AllFramesSent
  PROVE  PictureInv'
  <1> DEFINE q == Flush(mngr)
  <1>1. FlowKept /\ DpbHasRoom /\ FlushLeavesNothing
    BY PictureParts
  <1>2. /\ MngrInv(q, OtherFrm, OtherMv, user, Shown, NotDecoded)
        /\ q.nodes = <<>> /\ DpbShrinks(mngr, q, Shown)
        /\ mngr.nodes = <<>> => q = mngr
    BY ONLY <1>1, FlowFacts, Flushed
  <1>3. DpbKeeps(mngr, q, Shown)
    BY <1>2, ShrinksIsKeeps
  <1>4. /\ mngr' = q /\ iNumFrmBlk1' = iNumFrmBlk1 /\ iNumFrmBlk2' = iNumFrmBlk2
        /\ refRing' = refRing /\ inflight' = inflight /\ cur' = cur /\ user' = user
        /\ content' = content /\ output' = output /\ stream' = stream /\ cpc' = cpc
        /\ hasBeenFlushed' = hasBeenFlushed /\ next' = next
        /\ dpc = "wait" /\ dpc' = "display"
    BY DEF AllFramesSent, ghosts
  <1> HIDE DEF q
  <1>5. FlowKept'
    <2>1. /\ HoldsFrame' <=> HoldsFrame
          /\ Reserved' <=> Reserved
          /\ RefsLocked' <=> RefsLocked
          /\ Inserted' <=> Inserted
          /\ Shown' = Shown /\ Undecoded' = Undecoded /\ ~Reserved' /\ dpc' \notin {"pop", "annex"}
      BY <1>4 DEF HoldsFrame, Reserved, RefsLocked, Inserted, Shown, Undecoded
    <2>2. next' \in Nat /\ next <= next'
      BY <1>1, <1>4, FlowFacts
    <2> QED BY <1>1, <1>2, <1>3, <1>4, <2>1, <2>2, ManagerStep
  <1>6. DpbHasRoom'
    BY <1>2, <1>4, EmptyDpb DEF DpbHasRoom
  <1>7. FlushLeavesNothing'
    BY <1>1, <1>2, <1>4 DEF FlushLeavesNothing, Flushing, Inserted
  <1> QED BY <1>5, <1>6, <1>7, PictureParts

\* AL_PictMngr_Terminate gives back what was removed from the DPB.
LEMMA TerminateKeeps ==
  ASSUME FlowInv, PictureInv, Terminate
  PROVE  PictureInv'
  <1> DEFINE q == ReleaseUnusedBuf(mngr)
  <1>1. FlowKept /\ DpbHasRoom /\ FlushLeavesNothing
    BY PictureParts
  <1>2. /\ MngrInv(q, OtherFrm, OtherMv, user, Shown, NotDecoded)
        /\ q.nodes = mngr.nodes /\ q.dispFifo = mngr.dispFifo /\ q.deleted = <<>>
    BY ONLY <1>1, FlowFacts, UnusedReleased
  <1>3. DpbKeeps(mngr, q, Shown)
    <2>1. DpbKeeps(mngr, mngr, Shown)
      BY <1>1, FlowFacts, KeepsSame
    <2> HIDE DEF q
    <2> QED BY ONLY <1>2, <2>1 DEF DpbKeeps, ToOutput
  <1>4. /\ mngr' = q /\ iNumFrmBlk1' = iNumFrmBlk1 /\ iNumFrmBlk2' = iNumFrmBlk2
        /\ refRing' = refRing /\ inflight' = inflight /\ cur' = cur /\ user' = user
        /\ content' = content /\ output' = output /\ stream' = stream /\ cpc' = cpc
        /\ hasBeenFlushed' = hasBeenFlushed /\ next' = next
        /\ dpc = "terminate" /\ dpc' = "annexes"
    BY DEF Terminate, cntVars, ghosts
  <1> HIDE DEF q
  <1>5. FlowKept'
    <2>1. /\ HoldsFrame' <=> HoldsFrame
          /\ Reserved' <=> Reserved
          /\ RefsLocked' <=> RefsLocked
          /\ Inserted' <=> Inserted
          /\ Shown' = Shown /\ Undecoded' = Undecoded /\ ~Reserved' /\ dpc' \notin {"pop", "annex"}
      BY <1>4 DEF HoldsFrame, Reserved, RefsLocked, Inserted, Shown, Undecoded
    <2>2. next' \in Nat /\ next <= next'
      BY <1>1, <1>4, FlowFacts
    <2> QED BY <1>1, <1>2, <1>3, <1>4, <2>1, <2>2, ManagerStep
  <1>6. mngr.nodes = <<>> /\ mngr.dispFifo = <<>>
    BY <1>1, <1>4 DEF FlushLeavesNothing, Flushing
  <1>7. DpbHasRoom'
    BY <1>2, <1>4, <1>6, EmptyDpb DEF DpbHasRoom
  <1>8. FlushLeavesNothing'
    BY <1>1, <1>2, <1>4, <1>6 DEF FlushLeavesNothing, Flushing, Inserted
  <1> QED BY <1>5, <1>7, <1>8, PictureParts

\* The end of the flush: nothing of the sequence is left.
LEMMA AnnexesTerminatedKeeps ==
  ASSUME FlowInv, PictureInv, AnnexesTerminated
  PROVE  PictureInv'
  <1>1. FlowKept /\ DpbHasRoom /\ FlushLeavesNothing
    BY PictureParts
  <1>2. /\ mngr' = mngr /\ iNumFrmBlk1' = iNumFrmBlk1 /\ iNumFrmBlk2' = iNumFrmBlk2
        /\ refRing' = refRing /\ inflight' = inflight /\ cur' = cur /\ user' = user
        /\ content' = content /\ output' = output /\ stream' = stream /\ cpc' = cpc
        /\ next' \in {next, next + 1}
        /\ dpc = "annexes" /\ dpc' \in {"exited", "parse"}
    BY DEF AnnexesTerminated, cntVars, ghosts
  <1>3. next' \in Nat /\ next <= next'
    <2>1. next \in Nat
      BY <1>1, FlowFacts
    <2> QED BY <1>2, <2>1
  <1>4. FlowKept'
    <2>1. ~HoldsFrame /\ dpc # "signal" /\ ~HoldsFrame' /\ dpc' # "signal" /\ dpc' # "pop"
      BY <1>2 DEF HoldsFrame, Reserved
    <2> QED BY <1>1, <1>2, <1>3, <2>1, DecoderMoves
  <1>5. DpbHasRoom'
    BY <1>1, <1>2, RoomLeft
  <1>6. /\ mngr.nodes = <<>> /\ mngr.dispFifo = <<>> /\ mngr.deleted = <<>>
        /\ inflight = <<>> /\ cpc = "idle"
    BY <1>1, <1>2 DEF FlushLeavesNothing, FlowInv, Flushing
  <1>7. FlushLeavesNothing'
    BY <1>2, <1>6 DEF FlushLeavesNothing, Flushing, Inserted
  <1> QED BY <1>4, <1>5, <1>7, PictureParts

---------------------------------------------------------------------------
(* AL_sDecoder_CallDisplay *)

\* What AL_sDecoder_CallDisplay leaves alone, whichever thread is in it.
DisplayFrame ==
    /\ iNumFrmBlk1' = iNumFrmBlk1 /\ iNumFrmBlk2' = iNumFrmBlk2
    /\ refRing' = refRing /\ inflight' = inflight /\ cur' = cur
    /\ content' = content /\ stream' = stream /\ next' = next
    /\ hasBeenFlushed' = hasBeenFlushed
    /\ HoldsFrame' <=> HoldsFrame
    /\ Reserved' <=> Reserved
    /\ RefsLocked' <=> RefsLocked
    /\ Inserted' <=> Inserted
    /\ dpc' = "pop" => dpc = "pop"
    /\ dpc' = "annex" => dpc = "annex"
    /\ Undecoded' = Undecoded

\* What a step of AL_sDecoder_CallDisplay, by either thread, leaves alone.
LEMMA DisplayParts ==
  ASSUME FlowInv, FlowKept, DisplayFrame
  PROVE  /\ LockedSlots' = LockedSlots /\ OtherFrm' = OtherFrm /\ OtherMv' = OtherMv
         /\ NotDecoded' = NotDecoded
         /\ inflight' \in Seq(Reference) /\ DistinctFrames(inflight')
         /\ FramesOf(inflight') \subseteq FramesOf(inflight)
         /\ next' \in Nat /\ next <= next'
         /\ dpc' \in {"pop", "annex"} \/ Reserved' => next' <= Len(stream) /\ stream[next'] # Eos
         /\ HoldsFrame /\ ~Inserted => cur.frm \notin user /\ cur.frm \notin Range(mngr.dispFifo)
  <1>1. LockedSlots' = LockedSlots /\ OtherFrm' = OtherFrm /\ OtherMv' = OtherMv
    BY SameHolders DEF DisplayFrame
  <1>2. NotDecoded' = NotDecoded
    BY DEF NotDecoded, DisplayFrame
  <1>3. inflight' = inflight /\ next' = next
    BY DEF DisplayFrame
  <1>4. /\ inflight \in Seq(Reference) /\ DistinctFrames(inflight)
        /\ HoldsFrame /\ ~Inserted => cur.frm \notin user /\ cur.frm \notin Range(mngr.dispFifo)
    BY DEF FlowKept, ThreadTypes, CurIsFresh, HoldsFrame
  <1>5. next \in Nat
    BY FlowFacts
  <1>6. next <= next
    BY <1>5
  <1>7. dpc' \in {"pop", "annex"} \/ Reserved' => next <= Len(stream) /\ stream[next] # Eos
    BY FlowFacts DEF DisplayFrame, Now
  <1> QED BY <1>1, <1>2, <1>3, <1>4, <1>5, <1>6, <1>7

\* The head of the fifo is decoded, and goes to the application.
LEMMA ShowStep ==
  ASSUME FlowInv, FlowKept, DisplayFrame, CanDisplay, ShowHead, Shown = 0, Shown' = 1
  PROVE  FlowKept'
  <1> DEFINE f == Head(mngr.dispFifo)
  <1>1. /\ mngr' = mngr /\ user' = user \cup {f} /\ output' = Append(output, content[f])
        /\ mngr.dispFifo # <<>> /\ mngr.pFrmStatus[f] = "ready"
    BY DEF ShowHead, CanDisplay
  <1>2. MngrInv(mngr, OtherFrm, OtherMv, user, 0, NotDecoded)
    BY FlowFacts
  <1>3. /\ MngrInv(mngr, OtherFrm, OtherMv, user \cup {f}, 1, NotDecoded)
        /\ f \in Frm /\ f \in Range(mngr.dispFifo)
        /\ ToOutput(mngr, 1) = ToOutput(mngr, 0) - 1 /\ ToOutput(mngr, 0) \in Nat
    BY ONLY <1>1, <1>2, HeadShown
  <1> HIDE DEF f
  <1>4. MngrInv(mngr', OtherFrm', OtherMv', user', Shown', NotDecoded')
    <2>1. OtherFrm' = OtherFrm /\ OtherMv' = OtherMv /\ NotDecoded' = NotDecoded
      BY DisplayParts
    <2> QED BY <1>1, <1>3, <2>1
  <1>5. output' \in Seq(Nat) /\ Len(output') = Len(output) + 1 /\ Len(output) \in Nat
    <2>1. content[f] \in Nat /\ output \in Seq(Nat)
      BY <1>3, FlowFacts
    <2> QED BY <1>1, <2>1, AppendProperties, LenProperties
  <1>6. Len(output') + ToOutput(mngr', Shown') = Len(output) + ToOutput(mngr, Shown)
    <2>1. ToOutput(mngr', Shown') = ToOutput(mngr, 1) /\ ToOutput(mngr, Shown) = ToOutput(mngr, 0)
      BY <1>1
    <2> QED BY ONLY <1>3, <1>5, <2>1
  <1>7. HoldsFrame /\ ~Inserted => cur.frm \notin user'
    BY <1>1, <1>3, DisplayParts
  <1>8. /\ \A i \in DOMAIN mngr'.nodes : \E j \in DOMAIN mngr.nodes :
              mngr'.nodes[i].frm = mngr.nodes[j].frm /\ mngr'.nodes[i].pic = mngr.nodes[j].pic
        /\ Range(mngr'.dispFifo) \subseteq Range(mngr.dispFifo) \cup FramesOf(mngr.nodes)
    BY <1>1
  <1>9. /\ iNumFrmBlk1' = iNumFrmBlk1 /\ cur' = cur /\ content' = content /\ stream' = stream
        /\ refRing' = refRing /\ (Inserted => next' = next)
        /\ HoldsFrame' <=> HoldsFrame
        /\ Reserved' <=> Reserved
        /\ Inserted' <=> Inserted
    BY DEF DisplayFrame
  <1> QED BY <1>4, <1>5, <1>6, <1>7, <1>8, <1>9, DisplayParts, FlowStep

\* sApiReleaseDisplayBuffer: the head that was shown leaves the fifo.
LEMMA ReleaseStep ==
  ASSUME FlowInv, FlowKept, DisplayFrame, mngr' = ReleaseDisplayBuffer(mngr),
         user' = user, output' = output, Shown = 1, Shown' = 0
  PROVE  FlowKept' /\ mngr'.nodes = mngr.nodes /\ mngr'.deleted = mngr.deleted
         /\ mngr.dispFifo # <<>>
  <1>1. MngrInv(mngr, OtherFrm, OtherMv, user, 1, NotDecoded)
    BY FlowFacts
  <1>2. mngr.dispFifo # <<>>
    BY <1>1 DEF MngrInv, QueuedOnce
  <1>3. /\ MngrInv(mngr', OtherFrm, OtherMv, user, 0, NotDecoded)
        /\ mngr'.nodes = mngr.nodes /\ mngr'.deleted = mngr.deleted
        /\ Range(mngr'.dispFifo) \subseteq Range(mngr.dispFifo)
        /\ ToOutput(mngr', 0) = ToOutput(mngr, 1)
    <2> DEFINE q == ReleaseDisplayBuffer(mngr)
    <2>1. /\ MngrInv(q, OtherFrm, OtherMv, user, 0, NotDecoded)
          /\ q.nodes = mngr.nodes /\ q.deleted = mngr.deleted
          /\ Range(q.dispFifo) \subseteq Range(mngr.dispFifo)
          /\ ToOutput(q, 0) = ToOutput(mngr, 1)
      BY ONLY <1>1, HeadReleased
    <2> HIDE DEF q
    <2>2. mngr' = q
      BY DEF q
    <2> QED BY ONLY <2>1, <2>2
  <1>4. MngrInv(mngr', OtherFrm', OtherMv', user', Shown', NotDecoded')
    <2>1. OtherFrm' = OtherFrm /\ OtherMv' = OtherMv /\ NotDecoded' = NotDecoded
      BY DisplayParts
    <2> QED BY <1>3, <2>1
  <1>5. output' \in Seq(Nat)
    BY FlowFacts
  <1>6. Len(output') + ToOutput(mngr', Shown') = Len(output) + ToOutput(mngr, Shown)
    BY <1>3
  <1>7. HoldsFrame /\ ~Inserted => cur.frm \notin user'
    BY DisplayParts
  <1>8. /\ \A i \in DOMAIN mngr'.nodes : \E j \in DOMAIN mngr.nodes :
              mngr'.nodes[i].frm = mngr.nodes[j].frm /\ mngr'.nodes[i].pic = mngr.nodes[j].pic
        /\ Range(mngr'.dispFifo) \subseteq Range(mngr.dispFifo) \cup FramesOf(mngr.nodes)
    BY <1>3
  <1>9. /\ iNumFrmBlk1' = iNumFrmBlk1 /\ cur' = cur /\ content' = content /\ stream' = stream
        /\ refRing' = refRing /\ (Inserted => next' = next)
        /\ HoldsFrame' <=> HoldsFrame
        /\ Reserved' <=> Reserved
        /\ Inserted' <=> Inserted
    BY DEF DisplayFrame
  <1>10. FlowKept'
    BY <1>4, <1>5, <1>6, <1>7, <1>8, <1>9, DisplayParts, FlowStep
  <1> QED BY <1>2, <1>3, <1>10

\* The decoder thread displays, at the end of a flush.
LEMMA DecoderDisplaysKeeps ==
  ASSUME FlowInv, PictureInv, DecoderDisplays
  PROVE  PictureInv'
  <1>1. FlowKept /\ DpbHasRoom /\ FlushLeavesNothing
    BY PictureParts
  <1>2. /\ iNumFrmBlk1' = iNumFrmBlk1 /\ iNumFrmBlk2' = iNumFrmBlk2
        /\ refRing' = refRing /\ inflight' = inflight /\ cur' = cur
        /\ content' = content /\ stream' = stream /\ next' = next /\ cpc' = cpc
        /\ hasBeenFlushed' = hasBeenFlushed
        /\ dpc \in {"display", "signal"} /\ dpc' \in {"display", "signal", "terminate"}
    BY DEF DecoderDisplays, cntVars
  <1>3. DisplayFrame
    BY <1>2 DEF DisplayFrame, HoldsFrame, Reserved, RefsLocked, Inserted, Undecoded
  <1>4. inflight = <<>> /\ cpc = "idle" /\ mngr.nodes = <<>>
    BY <1>1, <1>2 DEF FlowInv, Flushing, FlushLeavesNothing
  <1>5. CASE dpc = "display" /\ CanDisplay /\ ShowHead /\ dpc' = "signal"
    <2>1. Shown = 0 /\ Shown' = 1
      BY <1>2, <1>4, <1>5 DEF Shown
    <2>2. FlowKept'
      BY <1>1, <1>3, <1>5, <2>1, ShowStep
    <2>3. mngr' = mngr
      BY <1>5 DEF ShowHead
    <2>4. DpbHasRoom' /\ FlushLeavesNothing'
      BY <1>1, <1>2, <1>5, <2>3, RoomLeft DEF FlushLeavesNothing, Flushing, Inserted
    <2> QED BY <2>2, <2>4, PictureParts
  <1>6. CASE dpc = "display" /\ ~CanDisplay /\ dpc' = "terminate" /\ UNCHANGED <<mngr, user, output>>
    <2>1. FlowKept'
      <3>1. ~HoldsFrame /\ ~HoldsFrame'
        BY <1>6 DEF HoldsFrame, Reserved
      <3>2. next' \in Nat /\ next <= next'
        BY <1>1, <1>3, DisplayParts
      <3> QED BY <1>1, <1>2, <1>6, <3>1, <3>2, DecoderMoves
    <2>2. mngr.dispFifo = <<>>
      <3> SUFFICES ASSUME mngr.dispFifo # <<>> PROVE FALSE
        OBVIOUS
      <3>1. Shown = 0
        BY <1>2, <1>4, <1>6 DEF Shown
      <3>2. NotDecoded = {}
        <4>1. Undecoded = <<>> /\ ~Inserted
          BY <1>4, <1>6 DEF Undecoded, Inserted
        <4>2. FramesOf(<<>>) = {}
          BY DEF FramesOf
        <4> QED BY <4>1, <4>2 DEF NotDecoded
      <3>3. MngrInv(mngr, OtherFrm, OtherMv, user, 0, {}) /\ mngr.dispFifo \in Seq(Frm)
        BY <1>1, <3>1, <3>2, FlowFacts
      <3>4. 1 \in DOMAIN mngr.dispFifo /\ Head(mngr.dispFifo) = mngr.dispFifo[1]
        <4>1. Len(mngr.dispFifo) \in Nat /\ Len(mngr.dispFifo) > 0
              /\ Head(mngr.dispFifo) = mngr.dispFifo[1]
          BY <3>3, TailGrown
        <4> QED BY <3>3, <4>1, LenProperties
      <3>5. mngr.pFrmStatus[mngr.dispFifo[1]] = "ready"
        BY <3>3, <3>4 DEF MngrInv, StatusIsKnown
      <3> QED BY <1>6, <3>4, <3>5 DEF CanDisplay
    <2>3. DpbHasRoom' /\ FlushLeavesNothing'
      BY <1>1, <1>2, <1>6, <2>2, RoomLeft DEF FlushLeavesNothing, Flushing, Inserted
    <2> QED BY <2>1, <2>3, PictureParts
  <1>7. CASE dpc = "signal" /\ mngr' = ReleaseDisplayBuffer(mngr) /\ dpc' = "display"
             /\ UNCHANGED <<user, output>>
    <2>1. Shown = 1 /\ Shown' = 0
      BY <1>2, <1>4, <1>7 DEF Shown
    <2>2. FlowKept' /\ mngr'.nodes = mngr.nodes /\ mngr'.deleted = mngr.deleted
          /\ mngr.dispFifo # <<>>
      BY <1>1, <1>3, <1>7, <2>1, ReleaseStep
    <2>3. DpbHasRoom' /\ FlushLeavesNothing'
      BY <1>1, <1>2, <1>7, <2>2, RoomLeft DEF FlushLeavesNothing, Flushing, Inserted
    <2> QED BY <2>2, <2>3, PictureParts
  <1> QED BY <1>5, <1>6, <1>7 DEF DecoderDisplays

\* The callback thread is at work: no flush.
LEMMA CallbackAtWork ==
  ASSUME FlowInv, PictureInv, cpc # "idle" \/ inflight # <<>>,
         dpc' = dpc, hasBeenFlushed' = hasBeenFlushed
  PROVE  ~Flushing /\ dpc # "signal" /\ FlushLeavesNothing'
  <1>1. ~Flushing
    BY DEF FlowInv
  <1>2. ~(hasBeenFlushed /\ ~Inserted)
    BY PictureParts DEF FlushLeavesNothing
  <1>3. ~Flushing' /\ ~(hasBeenFlushed' /\ ~Inserted')
    BY <1>1, <1>2 DEF Flushing, Inserted
  <1> QED BY <1>1, <1>3 DEF FlushLeavesNothing, Flushing

\* The callback thread displays, after a picture is decoded.
LEMMA CallbackDisplaysKeeps ==
  ASSUME FlowInv, PictureInv, CallbackDisplays
  PROVE  PictureInv'
  <1>1. FlowKept /\ DpbHasRoom /\ FlushLeavesNothing
    BY PictureParts
  <1>2. /\ iNumFrmBlk1' = iNumFrmBlk1 /\ iNumFrmBlk2' = iNumFrmBlk2
        /\ refRing' = refRing /\ inflight' = inflight /\ cur' = cur
        /\ content' = content /\ stream' = stream /\ next' = next /\ dpc' = dpc
        /\ hasBeenFlushed' = hasBeenFlushed
        /\ cpc \in {"display", "signal"} /\ cpc' \in {"display", "signal", "unlock"}
    BY DEF CallbackDisplays, cntVars, decVars
  <1>3. DisplayFrame
    BY <1>2 DEF DisplayFrame, HoldsFrame, Reserved, RefsLocked, Inserted, Undecoded
  <1>4. dpc # "signal" /\ FlushLeavesNothing'
    BY <1>2, CallbackAtWork
  <1>5. CASE cpc = "display" /\ CanDisplay /\ ShowHead /\ cpc' = "signal"
    <2>1. Shown = 0 /\ Shown' = 1
      BY <1>2, <1>4, <1>5 DEF Shown
    <2>2. FlowKept'
      BY <1>1, <1>3, <1>5, <2>1, ShowStep
    <2>3. mngr' = mngr
      BY <1>5 DEF ShowHead
    <2>4. DpbHasRoom'
      BY <1>1, <1>2, <2>3 DEF DpbHasRoom, Now
    <2> QED BY <1>4, <2>2, <2>4, PictureParts
  <1>6. CASE cpc = "display" /\ ~CanDisplay /\ cpc' = "unlock" /\ UNCHANGED <<mngr, user, output>>
    <2>1. Shown' = Shown
      BY <1>2, <1>4, <1>6 DEF Shown
    <2>2. FlowKept'
      BY <1>1, <1>2, <1>3, <1>6, <2>1, DisplayParts, QuietStep DEF DisplayFrame
    <2>3. DpbHasRoom'
      BY <1>1, <1>2, <1>6 DEF DpbHasRoom, Now
    <2> QED BY <1>4, <2>2, <2>3, PictureParts
  <1>7. CASE cpc = "signal" /\ mngr' = ReleaseDisplayBuffer(mngr) /\ cpc' = "display"
             /\ UNCHANGED <<user, output>>
    <2>1. Shown = 1 /\ Shown' = 0
      BY <1>2, <1>4, <1>7 DEF Shown
    <2>2. FlowKept' /\ mngr'.nodes = mngr.nodes
      BY <1>1, <1>3, <1>7, <2>1, ReleaseStep
    <2>3. DpbHasRoom'
      BY <1>1, <1>2, <2>2 DEF DpbHasRoom, Now
    <2> QED BY <1>4, <2>2, <2>3, PictureParts
  <1> QED BY <1>5, <1>6, <1>7 DEF CallbackDisplays

---------------------------------------------------------------------------
(* The application *)

\* AL_Decoder_PutDisplayPicture gives back a buffer that the application has.
LEMMA PutDisplayPictureKeeps ==
  ASSUME FlowInv, PictureInv, NEW b \in Frm, PutDisplayPicture(b)
  PROVE  PictureInv'
  <1>1. FlowKept /\ DpbHasRoom /\ FlushLeavesNothing
    BY PictureParts
  <1>2. /\ iNumFrmBlk1' = iNumFrmBlk1 /\ iNumFrmBlk2' = iNumFrmBlk2
        /\ refRing' = refRing /\ inflight' = inflight /\ cur' = cur
        /\ content' = content /\ stream' = stream /\ next' = next /\ dpc' = dpc
        /\ hasBeenFlushed' = hasBeenFlushed /\ cpc' = cpc /\ output' = output
        /\ b \in user /\ user' = user \ {b} /\ mngr' = Returned(mngr, b)
    BY DEF PutDisplayPicture, cntVars, decVars, ghosts, Returned
  <1>3. DisplayFrame /\ Shown' = Shown
    BY <1>2 DEF DisplayFrame, HoldsFrame, Reserved, RefsLocked, Inserted, Undecoded, Shown
  <1>4. /\ MngrInv(mngr', OtherFrm, OtherMv, user \ {b}, Shown, NotDecoded)
        /\ mngr'.nodes = mngr.nodes /\ mngr'.dispFifo = mngr.dispFifo
        /\ mngr'.deleted = mngr.deleted
    <2> DEFINE q == Returned(mngr, b)
    <2>1. /\ MngrInv(q, OtherFrm, OtherMv, user \ {b}, Shown, NotDecoded)
          /\ q.nodes = mngr.nodes /\ q.dispFifo = mngr.dispFifo /\ q.deleted = mngr.deleted
      <3>1. MngrInv(mngr, OtherFrm, OtherMv, user, Shown, NotDecoded)
        BY <1>1, FlowFacts
      <3> QED BY ONLY <1>2, <3>1, BufferReturned
    <2> HIDE DEF q
    <2>2. mngr' = q
      BY <1>2 DEF q
    <2> QED BY ONLY <2>1, <2>2
  <1>5. MngrInv(mngr', OtherFrm', OtherMv', user', Shown', NotDecoded')
    <2>1. OtherFrm' = OtherFrm /\ OtherMv' = OtherMv /\ NotDecoded' = NotDecoded
      BY <1>1, <1>3, DisplayParts
    <2> QED BY <1>2, <1>3, <1>4, <2>1
  <1>6. FlowKept'
    <2>1. output' \in Seq(Nat)
      BY <1>1, <1>2, FlowFacts
    <2>2. ToOutput(mngr', Shown') = ToOutput(mngr, Shown)
      BY <1>3, <1>4 DEF ToOutput
    <2>3. Len(output') + ToOutput(mngr', Shown') = Len(output) + ToOutput(mngr, Shown)
      BY <1>2, <2>2
    <2>4. HoldsFrame /\ ~Inserted => cur.frm \notin user'
      BY <1>1, <1>2, <1>3, DisplayParts
    <2>5. /\ \A i \in DOMAIN mngr'.nodes : \E j \in DOMAIN mngr.nodes :
                mngr'.nodes[i].frm = mngr.nodes[j].frm /\ mngr'.nodes[i].pic = mngr.nodes[j].pic
          /\ Range(mngr'.dispFifo) \subseteq Range(mngr.dispFifo) \cup FramesOf(mngr.nodes)
      BY <1>4
    <2>6. /\ HoldsFrame' <=> HoldsFrame
          /\ Reserved' <=> Reserved
          /\ Inserted' <=> Inserted
      BY <1>3 DEF DisplayFrame
    <2> QED BY <1>1, <1>2, <1>3, <1>5, <2>1, <2>3, <2>4, <2>5, <2>6, DisplayParts, FlowStep
  <1>7. DpbHasRoom' /\ FlushLeavesNothing'
    BY <1>1, <1>2, <1>4 DEF DpbHasRoom, Now, FlushLeavesNothing, Flushing, Inserted
  <1> QED BY <1>6, <1>7, PictureParts

---------------------------------------------------------------------------
(* AL_Default_Decoder_EndDecoding *)

\* The picture that the hardware finishes first.
LEMMA FirstInFlight ==
  ASSUME FlowKept, inflight # <<>>
  PROVE  /\ Tail(inflight) \in Seq(Reference) /\ Head(inflight) \in Reference
         /\ Head(inflight).frm \in Frm /\ Head(inflight).mv \in Annex
         /\ FramesOf(inflight) = FramesOf(Tail(inflight)) \cup {Head(inflight).frm}
         /\ Head(inflight).frm \notin FramesOf(Tail(inflight))
         /\ DistinctFrames(Tail(inflight))
         /\ \A f : FrmRefs(inflight, f) = FrmRefs(Tail(inflight), f)
                                          + (IF Head(inflight).frm = f THEN 1 ELSE 0)
         /\ \A a : MvRefs(inflight, a) = MvRefs(Tail(inflight), a)
                                          + (IF Head(inflight).mv = a THEN 1 ELSE 0)
  <1> DEFINE s == inflight
             t == Tail(inflight)
             h == Head(inflight)
  <1>1. s \in Seq(Reference) /\ DistinctFrames(s) /\ s # <<>>
    BY DEF FlowKept, ThreadTypes, CurIsFresh
  <1>2. /\ t \in Seq(Reference) /\ h \in Reference /\ h = s[1]
        /\ Grown(t, s, 1) /\ Len(s) \in Nat /\ Len(s) > 0
    BY ONLY <1>1, TailGrown
  <1> HIDE DEF s, t, h
  <1>3. 1 \in DOMAIN s /\ h.frm \in Frm /\ h.mv \in Annex
    BY <1>1, <1>2, ReferencesTyped, LenProperties
  <1>4. FramesOf(s) = FramesOf(t) \cup {h.frm} /\ h.frm \notin FramesOf(t)
    BY <1>1, <1>2, GrownElements
  <1>5. DistinctFrames(t)
    <2>1. Len(s) = Len(t) + 1 /\ \A j \in 1 .. Len(t) : s[j + 1] = t[j]
      BY <1>2 DEF Grown
    <2>2. DOMAIN s = 1 .. Len(s) /\ DOMAIN t = 1 .. Len(t) /\ Len(t) \in Nat
      BY <1>1, <1>2, LenProperties
    <2>3. ASSUME NEW i \in DOMAIN t, NEW j \in DOMAIN t, t[i].frm = t[j].frm PROVE i = j
      <3>1. i + 1 \in DOMAIN s /\ j + 1 \in DOMAIN s /\ s[i + 1] = t[i] /\ s[j + 1] = t[j]
            /\ i \in Int /\ j \in Int
        BY <2>1, <2>2
      <3>2. i + 1 = j + 1
        BY <1>1, <2>3, <3>1 DEF DistinctFrames
      <3> QED BY <3>1, <3>2
    <2> QED BY <2>3 DEF DistinctFrames
  <1>6. /\ \A f : FrmRefs(s, f) = FrmRefs(t, f) + (IF h.frm = f THEN 1 ELSE 0)
        /\ \A a : MvRefs(s, a) = MvRefs(t, a) + (IF h.mv = a THEN 1 ELSE 0)
    BY <1>1, <1>2, RefsGrown
  <1> QED BY <1>2, <1>3, <1>4, <1>5, <1>6 DEF s, t, h

\* What AL_Default_Decoder_EndDecoding leaves alone, while it displays nothing.
CallbackFrame ==
    /\ dpc' = dpc /\ cur' = cur /\ next' = next /\ stream' = stream /\ content' = content
    /\ user' = user /\ output' = output /\ refRing' = refRing
    /\ iNumFrmBlk1' = iNumFrmBlk1 /\ hasBeenFlushed' = hasBeenFlushed

\* The callback thread leaves alone what the decoder thread holds.
LEMMA CallbackHolds ==
  ASSUME CallbackFrame
  PROVE  /\ HoldsFrame' <=> HoldsFrame
         /\ Reserved' <=> Reserved
         /\ RefsLocked' <=> RefsLocked
         /\ Inserted' <=> Inserted
         /\ Now' = Now
  BY DEF CallbackFrame, HoldsFrame, Reserved, RefsLocked, Inserted, Now

\* The callback thread shrinks the DPB, the queue and the locked lists.
LEMMA CallbackKeeps ==
  ASSUME FlowInv, PictureInv, CallbackFrame, cpc # "idle" \/ inflight # <<>>,
         Shown' = Shown, LockedSlots' \subseteq LockedSlots,
         inflight' \in Seq(Reference), FramesOf(inflight') \subseteq FramesOf(inflight),
         DistinctFrames(inflight'),
         MngrInv(mngr', OtherFrm', OtherMv', user', Shown', NotDecoded'),
         DpbShrinks(mngr, mngr', Shown)
  PROVE  PictureInv'
  <1>1. FlowKept /\ DpbHasRoom /\ FlushLeavesNothing
    BY PictureParts
  <1>2. FlushLeavesNothing'
    BY CallbackAtWork DEF CallbackFrame
  <1>3. DpbHasRoom'
    <2>1. mngr' \in PictMngrs
      BY DEF MngrInv
    <2>2. mngr'.nodes \in Seq(Node)
      BY <2>1 DEF PictMngrs
    <2>3. Len(mngr'.nodes) <= Len(mngr.nodes) /\ NumRef(mngr'.nodes) <= NumRef(mngr.nodes)
      BY DEF DpbShrinks
    <2> QED BY <1>1, <2>2, <2>3, RoomKept DEF CallbackFrame
  <1>4. DpbKeeps(mngr, mngr', Shown)
    BY ShrinksIsKeeps
  <1>5. /\ \A i \in DOMAIN mngr'.nodes : \E j \in DOMAIN mngr.nodes :
              mngr'.nodes[i].frm = mngr.nodes[j].frm /\ mngr'.nodes[i].pic = mngr.nodes[j].pic
        /\ Range(mngr'.dispFifo) \subseteq Range(mngr.dispFifo) \cup FramesOf(mngr.nodes)
        /\ ToOutput(mngr', Shown) = ToOutput(mngr, Shown)
    BY <1>4 DEF DpbKeeps
  <1>6. next' \in Nat /\ next <= next' /\ output' \in Seq(Nat)
        /\ Len(output') + ToOutput(mngr', Shown') = Len(output) + ToOutput(mngr, Shown)
    BY <1>1, <1>5, FlowFacts DEF CallbackFrame
  <1>7. dpc' \in {"pop", "annex"} \/ Reserved' => next' <= Len(stream) /\ stream[next'] # Eos
    BY <1>1, FlowFacts, CallbackHolds DEF CallbackFrame, Now
  <1>8. HoldsFrame /\ ~Inserted => cur.frm \notin user'
    BY <1>1 DEF FlowKept, CurIsFresh, HoldsFrame, CallbackFrame
  <1>9. FlowKept'
    BY <1>1, <1>5, <1>6, <1>7, <1>8, CallbackHolds, FlowStep DEF CallbackFrame
  <1> QED BY <1>2, <1>3, <1>9, PictureParts

\* sApiEndDecoding: the first picture in flight is ready, or displayed at once.
LEMMA PictureDecodedKeeps ==
  ASSUME FlowInv, PictureInv, PictureDecoded
  PROVE  PictureInv'
  <1> DEFINE f == Head(inflight).frm
  <1>1. FlowKept
    BY PictureParts
  <1>2. /\ CallbackFrame /\ cpc = "idle" /\ cpc' = "unlockRefs" /\ inflight # <<>>
        /\ inflight' = inflight /\ iNumFrmBlk2' = iNumFrmBlk2
        /\ mngr' = EndDecoding(mngr, f)
    BY DEF PictureDecoded, CallbackFrame, cntVars, decVars, ghosts
  <1>3. /\ f \in Frm /\ FramesOf(inflight) = FramesOf(Tail(inflight)) \cup {f}
        /\ f \notin FramesOf(Tail(inflight))
    BY <1>1, <1>2, FirstInFlight
  <1>4. /\ inflight \in Seq(Reference) /\ DistinctFrames(inflight)
        /\ Inserted => cur.frm \notin FramesOf(inflight)
    BY <1>1 DEF FlowKept, ThreadTypes, CurIsFresh, Inserted, Reserved
  <1> HIDE DEF f
  <1>5. f \in NotDecoded /\ NotDecoded' = NotDecoded \ {f}
    <2>1. Undecoded = inflight /\ Undecoded' = Tail(inflight)
      BY <1>2 DEF Undecoded
    <2>2. (Inserted' <=> Inserted) /\ cur' = cur
      BY <1>2, CallbackHolds DEF CallbackFrame
    <2> QED BY <1>3, <1>4, <2>1, <2>2 DEF NotDecoded
  <1>6. LockedSlots' = LockedSlots /\ OtherFrm' = OtherFrm /\ OtherMv' = OtherMv
    BY <1>2, SameHolders, CallbackHolds DEF CallbackFrame
  <1>7. Shown' = Shown
    BY <1>2 DEF Shown, CallbackFrame
  <1>8. /\ MngrInv(mngr', OtherFrm, OtherMv, user, Shown, NotDecoded \ {f})
        /\ DpbShrinks(mngr, mngr', Shown)
    <2> DEFINE q == EndDecoding(mngr, f)
    <2>1. MngrInv(mngr, OtherFrm, OtherMv, user, Shown, NotDecoded)
      BY <1>1, FlowFacts
    <2>2. MngrInv(q, OtherFrm, OtherMv, user, Shown, NotDecoded \ {f}) /\ DpbShrinks(mngr, q, Shown)
      BY ONLY <1>3, <1>5, <2>1, DecodingEnded
    <2> HIDE DEF q
    <2>3. mngr' = q
      BY <1>2 DEF q
    <2> QED BY ONLY <2>2, <2>3
  <1>9. MngrInv(mngr', OtherFrm', OtherMv', user', Shown', NotDecoded')
    BY <1>2, <1>5, <1>6, <1>7, <1>8 DEF CallbackFrame
  <1> QED BY <1>2, <1>4, <1>6, <1>7, <1>8, <1>9, CallbackKeeps

\* The references outside of the DPB are numbers.
LEMMA HoldersTyped ==
  ASSUME NEW R \in [Ring -> Seq(Reference)], NEW S \in SUBSET Ring, NEW q \in Seq(Reference),
         NEW holds, NEW c
  PROVE  FrmsOf(holds, c, q, R, S) \in [Frm -> Nat] /\ MvsOf(holds, c, q, R, S) \in [Annex -> Nat]
  <1>1. ASSUME NEW f \in Frm
        PROVE  (IF holds /\ c.frm = f THEN 1 ELSE 0) + FrmRefs(q, f) + FrmLocked(R, S, f) \in Nat
    <2>1. FrmRefs(q, f) \in Nat
      BY RefsType
    <2>2. FrmLocked(R, S, f) \in Nat
      BY LockedPlaces
    <2> QED BY <2>1, <2>2
  <1>2. ASSUME NEW a \in Annex
        PROVE  (IF holds /\ c.mv = a THEN 1 ELSE 0) + MvRefs(q, a) + MvLocked(R, S, a) \in Nat
    <2>1. MvRefs(q, a) \in Nat
      BY RefsType
    <2>2. MvLocked(R, S, a) \in Nat
      BY LockedPlaces
    <2> QED BY <2>1, <2>2
  <1> QED BY <1>1, <1>2 DEF FrmsOf, MvsOf

\* An operation that leaves the nodes and the fifo alone.
LEMMA SameDpb ==
  ASSUME NEW m, NEW q, NEW shown, m \in PictMngrs, q.nodes = m.nodes, q.dispFifo = m.dispFifo
  PROVE  DpbShrinks(m, q, shown)
  <1>1. DpbShrinks(m, m, shown)
    BY ShrinksSame
  <1> QED BY <1>1 DEF DpbShrinks, ToOutput

\* EndDecoding gives back the references to the picture itself.
LEMMA PictureUnlockedKeeps ==
  ASSUME FlowInv, PictureInv, PictureUnlocked
  PROVE  PictureInv'
  <1> DEFINE h == Head(inflight)
             t == Tail(inflight)
  <1>1. FlowKept
    BY PictureParts
  <1>2. /\ CallbackFrame /\ cpc = "unlock" /\ cpc' = "post" /\ inflight # <<>>
        /\ inflight' = t /\ iNumFrmBlk2' = iNumFrmBlk2
        /\ mngr' = Unlock(mngr, h)
    BY DEF PictureUnlocked, CallbackFrame, cntVars, decVars, ghosts, FlowInv
  <1>3. /\ t \in Seq(Reference) /\ h.frm \in Frm /\ h.mv \in Annex
        /\ FramesOf(t) \subseteq FramesOf(inflight)
        /\ DistinctFrames(t)
        /\ \A f : FrmRefs(inflight, f) = FrmRefs(t, f) + (IF h.frm = f THEN 1 ELSE 0)
        /\ \A a : MvRefs(inflight, a) = MvRefs(t, a) + (IF h.mv = a THEN 1 ELSE 0)
    BY <1>1, <1>2, FirstInFlight
  <1>4. /\ inflight \in Seq(Reference) /\ refRing \in [Ring -> Seq(Reference)]
        /\ MngrInv(mngr, OtherFrm, OtherMv, user, Shown, NotDecoded)
        /\ OtherFrm \in [Frm -> Nat] /\ OtherMv \in [Annex -> Nat]
    BY <1>1, FlowFacts
  <1>5. LockedSlots' = LockedSlots /\ LockedSlots \in SUBSET Ring
    BY <1>2, CallbackHolds, SlotsInUse DEF CallbackFrame, LockedSlots, Offset
  <1> HIDE DEF h, t
  <1>6. /\ OtherFrm' = FrmsOf(HoldsFrame, cur, t, refRing, LockedSlots)
        /\ OtherMv' = MvsOf(Reserved, cur, t, refRing, LockedSlots)
        /\ OtherFrm = FrmsOf(HoldsFrame, cur, inflight, refRing, LockedSlots)
        /\ OtherMv = MvsOf(Reserved, cur, inflight, refRing, LockedSlots)
    <2>1. /\ FrmsOf(HoldsFrame', cur', inflight', refRing', LockedSlots')
               = FrmsOf(HoldsFrame, cur, t, refRing, LockedSlots)
          /\ MvsOf(Reserved', cur', inflight', refRing', LockedSlots')
               = MvsOf(Reserved, cur, t, refRing, LockedSlots)
      BY <1>2, <1>5, CallbackHolds DEF CallbackFrame, FrmsOf, MvsOf
    <2> QED BY <2>1, OtherHolders
  <1>7. OneMore(Frm, OtherFrm, OtherFrm', h.frm) /\ OneMore(Annex, OtherMv, OtherMv', h.mv)
    <2>1. OtherFrm' \in [Frm -> Nat] /\ OtherMv' \in [Annex -> Nat]
      BY <1>3, <1>4, <1>5, <1>6, HoldersTyped
    <2>2. ASSUME NEW f \in Frm PROVE OtherFrm[f] = OtherFrm'[f] + (IF f = h.frm THEN 1 ELSE 0)
      <3>1. /\ FrmRefs(t, f) \in Nat /\ FrmLocked(refRing, LockedSlots, f) \in Nat
            /\ FrmRefs(inflight, f) = FrmRefs(t, f) + (IF h.frm = f THEN 1 ELSE 0)
        BY <1>3, <1>4, <1>5, RefsType, LockedPlaces
      <3>2. /\ OtherFrm'[f] = (IF HoldsFrame /\ cur.frm = f THEN 1 ELSE 0)
                              + FrmRefs(t, f) + FrmLocked(refRing, LockedSlots, f)
            /\ OtherFrm[f] = (IF HoldsFrame /\ cur.frm = f THEN 1 ELSE 0)
                             + FrmRefs(inflight, f) + FrmLocked(refRing, LockedSlots, f)
        BY <1>6 DEF FrmsOf
      <3> QED BY <3>1, <3>2
    <2>3. ASSUME NEW a \in Annex PROVE OtherMv[a] = OtherMv'[a] + (IF a = h.mv THEN 1 ELSE 0)
      <3>1. /\ MvRefs(t, a) \in Nat /\ MvLocked(refRing, LockedSlots, a) \in Nat
            /\ MvRefs(inflight, a) = MvRefs(t, a) + (IF h.mv = a THEN 1 ELSE 0)
        BY <1>3, <1>4, <1>5, RefsType, LockedPlaces
      <3>2. /\ OtherMv'[a] = (IF Reserved /\ cur.mv = a THEN 1 ELSE 0)
                              + MvRefs(t, a) + MvLocked(refRing, LockedSlots, a)
            /\ OtherMv[a] = (IF Reserved /\ cur.mv = a THEN 1 ELSE 0)
                             + MvRefs(inflight, a) + MvLocked(refRing, LockedSlots, a)
        BY <1>6 DEF MvsOf
      <3> QED BY <3>1, <3>2
    <2> QED BY <1>3, <1>4, <2>1, <2>2, <2>3 DEF OneMore
  <1>8. NotDecoded' = NotDecoded
    <2>1. Undecoded = t /\ Undecoded' = t
      BY <1>2 DEF Undecoded, t
    <2>2. (Inserted' <=> Inserted) /\ cur' = cur
      BY <1>2, CallbackHolds DEF CallbackFrame
    <2> QED BY <2>1, <2>2 DEF NotDecoded
  <1>9. Shown' = Shown /\ user' = user
    BY <1>2 DEF Shown, CallbackFrame
  <1>10. /\ MngrInv(mngr', OtherFrm', OtherMv', user, Shown, NotDecoded)
         /\ mngr'.nodes = mngr.nodes /\ mngr'.dispFifo = mngr.dispFifo
    <2> DEFINE q == Unlock(mngr, h)
               H2 == OtherFrm'
               K2 == OtherMv'
    <2>1. OneMore(Frm, OtherFrm, H2, h.frm) /\ OneMore(Annex, OtherMv, K2, h.mv)
      BY <1>7
    <2> HIDE DEF H2, K2
    <2>2. /\ MngrInv(q, H2, K2, user, Shown, NotDecoded)
          /\ q.nodes = mngr.nodes /\ q.dispFifo = mngr.dispFifo
      <3>1. MngrInv(mngr, OtherFrm, OtherMv, user, Shown, NotDecoded)
        BY <1>4
      <3> QED BY ONLY <3>1, <2>1, Unlocked
    <2> HIDE DEF q
    <2>3. mngr' = q
      BY <1>2 DEF q
    <2> QED BY <2>2, <2>3 DEF H2, K2
  <1>11. DpbShrinks(mngr, mngr', Shown)
    BY <1>1, <1>10, SameDpb, FlowFacts
  <1>12. MngrInv(mngr', OtherFrm', OtherMv', user', Shown', NotDecoded')
    BY <1>8, <1>9, <1>10
  <1>13. inflight' \in Seq(Reference) /\ FramesOf(inflight') \subseteq FramesOf(inflight)
         /\ DistinctFrames(inflight')
    BY <1>2, <1>3
  <1> QED BY <1>2, <1>5, <1>9, <1>11, <1>12, <1>13, CallbackKeeps

\* EndDecoding gives back the references that AL_InitRefBuffers locked.
LEMMA ReferencesUnlockedKeeps ==
  ASSUME FlowInv, PictureInv, ReferencesUnlocked
  PROVE  PictureInv'
  <1> DEFINE o == Offset(iNumFrmBlk2)
             R == refRing
             S == LockedSlots'
             list == refRing[o]
  <1>1. FlowKept
    BY PictureParts
  <1>2. /\ CallbackFrame /\ cpc = "unlockRefs" /\ cpc' = "display"
        /\ inflight' = inflight /\ iNumFrmBlk2' = iNumFrmBlk2 + 1
        /\ mngr' = UnlockRefID(mngr, list)
    BY DEF ReferencesUnlocked, CallbackFrame, cntVars, decVars, ghosts
  <1>3. /\ inflight \in Seq(Reference) /\ R \in [Ring -> Seq(Reference)]
        /\ MngrInv(mngr, OtherFrm, OtherMv, user, Shown, NotDecoded)
        /\ OtherFrm \in [Frm -> Nat] /\ OtherMv \in [Annex -> Nat]
        /\ DistinctFrames(inflight)
    BY <1>1, FlowFacts DEF FlowKept, CurIsFresh
  <1>4. /\ LockedSlots = S \cup {o} /\ o \notin S /\ o \in Ring /\ S \in SUBSET Ring
    <2>1. /\ LockedSlots = Slots(iNumFrmBlk2, LastLocked) /\ LockedSlots \in SUBSET Ring
          /\ iNumFrmBlk2 \in Nat /\ LastLocked \in Nat /\ iNumFrmBlk2 <= LastLocked
          /\ LastLocked - iNumFrmBlk2 < MaxStack
      BY <1>2, SlotsInUse
    <2>2. S = Slots(iNumFrmBlk2 + 1, LastLocked)
      <3>1. RefsLocked' <=> RefsLocked
        BY <1>2, CallbackHolds
      <3> QED BY <1>2, <3>1 DEF LockedSlots, Slots, LastLocked, CallbackFrame, Offset
    <2> HIDE DEF S, o
    <2>3. /\ Slots(iNumFrmBlk2, LastLocked)
               = Slots(iNumFrmBlk2 + 1, LastLocked) \cup {Offset(iNumFrmBlk2)}
          /\ Offset(iNumFrmBlk2) \notin Slots(iNumFrmBlk2 + 1, LastLocked)
          /\ Offset(iNumFrmBlk2) \in Ring
      BY ONLY <2>1, SlotsGrow
    <2>4. o = Offset(iNumFrmBlk2)
      BY DEF o
    <2> QED BY <2>1, <2>2, <2>3, <2>4
  <1>5. list \in Seq(Reference)
    BY <1>3, <1>4
  <1> HIDE DEF o, R, S
  <1>6. /\ OtherFrm' = FrmsOf(HoldsFrame, cur, inflight, R, S)
        /\ OtherMv' = MvsOf(Reserved, cur, inflight, R, S)
        /\ OtherFrm = FrmsOf(HoldsFrame, cur, inflight, R, S \cup {o})
        /\ OtherMv = MvsOf(Reserved, cur, inflight, R, S \cup {o})
    <2>1. /\ FrmsOf(HoldsFrame', cur', inflight', refRing', LockedSlots')
               = FrmsOf(HoldsFrame, cur, inflight, R, S)
          /\ MvsOf(Reserved', cur', inflight', refRing', LockedSlots')
               = MvsOf(Reserved, cur, inflight, R, S)
      BY <1>2, CallbackHolds DEF CallbackFrame, FrmsOf, MvsOf, R, S
    <2> QED BY <1>4, <2>1, OtherHolders DEF R
  <1>7. list = R[o]
    BY DEF R
  <1> HIDE DEF list
  <1>8. /\ OtherFrm' \in [Frm -> Nat] /\ OtherMv' \in [Annex -> Nat]
        /\ \A f \in Frm : OtherFrm[f] = OtherFrm'[f] + FrmRefs(list, f)
        /\ \A a \in Annex : OtherMv[a] = OtherMv'[a] + MvRefs(list, a)
    <2>1. OtherFrm' \in [Frm -> Nat] /\ OtherMv' \in [Annex -> Nat]
      BY <1>3, <1>4, <1>6, HoldersTyped
    <2>2. ASSUME NEW f \in Frm PROVE OtherFrm[f] = OtherFrm'[f] + FrmRefs(list, f)
      <3>1. /\ FrmRefs(inflight, f) \in Nat /\ FrmLocked(R, S, f) \in Nat
            /\ FrmRefs(list, f) \in Nat
            /\ FrmLocked(R, S \cup {o}, f) = FrmLocked(R, S, f) + FrmRefs(list, f)
        <4>1. FrmRefs(inflight, f) \in Nat /\ FrmRefs(list, f) \in Nat
          BY <1>3, <1>5, RefsType
        <4>2. FrmLocked(R, S, f) \in Nat
          BY <1>3, <1>4, LockedPlaces DEF R
        <4>3. FrmLocked(R, S \cup {o}, f) = FrmLocked(R, S, f) + FrmRefs(R[o], f)
          <5>1. R \in [Ring -> Seq(Reference)]
            BY <1>3 DEF R
          <5> QED BY ONLY <1>4, <5>1, SlotLocked
        <4> QED BY <1>7, <4>1, <4>2, <4>3
      <3>2. /\ OtherFrm'[f] = (IF HoldsFrame /\ cur.frm = f THEN 1 ELSE 0)
                              + FrmRefs(inflight, f) + FrmLocked(R, S, f)
            /\ OtherFrm[f] = (IF HoldsFrame /\ cur.frm = f THEN 1 ELSE 0)
                             + FrmRefs(inflight, f) + FrmLocked(R, S \cup {o}, f)
        BY <1>6 DEF FrmsOf
      <3> QED BY <3>1, <3>2
    <2>3. ASSUME NEW a \in Annex PROVE OtherMv[a] = OtherMv'[a] + MvRefs(list, a)
      <3>1. /\ MvRefs(inflight, a) \in Nat /\ MvLocked(R, S, a) \in Nat
            /\ MvRefs(list, a) \in Nat
            /\ MvLocked(R, S \cup {o}, a) = MvLocked(R, S, a) + MvRefs(list, a)
        <4>1. MvRefs(inflight, a) \in Nat /\ MvRefs(list, a) \in Nat
          BY <1>3, <1>5, RefsType
        <4>2. MvLocked(R, S, a) \in Nat
          BY <1>3, <1>4, LockedPlaces DEF R
        <4>3. MvLocked(R, S \cup {o}, a) = MvLocked(R, S, a) + MvRefs(R[o], a)
          <5>1. R \in [Ring -> Seq(Reference)]
            BY <1>3 DEF R
          <5> QED BY ONLY <1>4, <5>1, SlotLocked
        <4> QED BY <1>7, <4>1, <4>2, <4>3
      <3>2. /\ OtherMv'[a] = (IF Reserved /\ cur.mv = a THEN 1 ELSE 0)
                              + MvRefs(inflight, a) + MvLocked(R, S, a)
            /\ OtherMv[a] = (IF Reserved /\ cur.mv = a THEN 1 ELSE 0)
                             + MvRefs(inflight, a) + MvLocked(R, S \cup {o}, a)
        BY <1>6 DEF MvsOf
      <3> QED BY <3>1, <3>2
    <2> QED BY <2>1, <2>2, <2>3
  <1>9. NotDecoded' = NotDecoded
    <2>1. Undecoded' = Undecoded
      BY <1>2 DEF Undecoded
    <2>2. (Inserted' <=> Inserted) /\ cur' = cur
      BY <1>2, CallbackHolds DEF CallbackFrame
    <2> QED BY <2>1, <2>2 DEF NotDecoded
  <1>10. Shown' = Shown /\ user' = user
    BY <1>2 DEF Shown, CallbackFrame
  <1>11. /\ MngrInv(mngr', OtherFrm', OtherMv', user, Shown, NotDecoded)
         /\ mngr'.nodes = mngr.nodes /\ mngr'.dispFifo = mngr.dispFifo
    <2> DEFINE q == UnlockRefID(mngr, list)
               H2 == OtherFrm'
               K2 == OtherMv'
    <2>1. \A e \in Reference : e.frm \in Frm /\ e.mv \in Annex
      BY DEF Reference
    <2>2. /\ H2 \in [Frm -> Nat] /\ K2 \in [Annex -> Nat]
          /\ \A f \in Frm : OtherFrm[f] = H2[f] + FrmRefs(list, f)
          /\ \A a \in Annex : OtherMv[a] = K2[a] + MvRefs(list, a)
      BY <1>8
    <2> HIDE DEF H2, K2
    <2>3. /\ MngrInv(q, H2, K2, user, Shown, NotDecoded)
          /\ q.nodes = mngr.nodes /\ q.dispFifo = mngr.dispFifo
      <3>1. MngrInv(mngr, OtherFrm, OtherMv, user, Shown, NotDecoded)
        BY <1>3
      <3> QED BY ONLY <3>1, <1>5, <2>1, <2>2, AllUnlocked
    <2> HIDE DEF q
    <2>4. mngr' = q
      BY <1>2 DEF q
    <2> QED BY <2>3, <2>4 DEF H2, K2
  <1>12. DpbShrinks(mngr, mngr', Shown)
    BY <1>1, <1>11, SameDpb, FlowFacts
  <1>13. MngrInv(mngr', OtherFrm', OtherMv', user', Shown', NotDecoded')
    BY <1>9, <1>10, <1>11
  <1>14. inflight' \in Seq(Reference) /\ FramesOf(inflight') \subseteq FramesOf(inflight)
         /\ DistinctFrames(inflight')
    BY <1>2, <1>3
  <1>15. LockedSlots' \subseteq LockedSlots
    BY <1>4 DEF S
  <1> QED BY <1>2, <1>10, <1>12, <1>13, <1>14, <1>15, CallbackKeeps

---------------------------------------------------------------------------
(* The picture being parsed *)

\* AL_CancelFrameBuffers: the buffers of the picture and its references are
\* given back.
LEMMA CancelFrameKeeps ==
  ASSUME FlowInv, PictureInv, CancelFrame
  PROVE  PictureInv'
  <1> DEFINE o == Offset(iNumFrmBlk1)
             R == refRing
             S == LockedSlots'
             list == refRing[o]
             r == Unlock(mngr, cur)
             H1 == FrmsOf(FALSE, cur, inflight, R, S \cup {o})
             K1 == MvsOf(FALSE, cur, inflight, R, S \cup {o})
  <1>1. FlowKept /\ DpbHasRoom
    BY PictureParts
  <1>2. /\ dpc = "cancel" /\ dpc' = "parse" /\ next' = next + 1 /\ ~hasBeenFlushed'
        /\ mngr' = UnlockRefID(r, list)
        /\ cur' = cur /\ stream' = stream /\ content' = content
        /\ user' = user /\ output' = output /\ refRing' = refRing /\ cpc' = cpc
        /\ inflight' = inflight /\ iNumFrmBlk1' = iNumFrmBlk1 /\ iNumFrmBlk2' = iNumFrmBlk2
    BY DEF CancelFrame, ghosts
  <1>3. /\ inflight \in Seq(Reference) /\ R \in [Ring -> Seq(Reference)]
        /\ MngrInv(mngr, OtherFrm, OtherMv, user, Shown, NotDecoded)
        /\ OtherFrm \in [Frm -> Nat] /\ OtherMv \in [Annex -> Nat]
        /\ DistinctFrames(inflight) /\ cur.frm \notin user
    BY <1>1, <1>2, FlowFacts DEF FlowKept, CurIsFresh, Reserved, Inserted
  <1>4. /\ Reserved /\ HoldsFrame /\ RefsLocked /\ ~Inserted
        /\ ~Reserved' /\ ~HoldsFrame' /\ ~RefsLocked' /\ ~Inserted'
        /\ Shown' = Shown /\ Undecoded' = Undecoded
    BY <1>2 DEF Reserved, HoldsFrame, RefsLocked, Inserted, Shown, Undecoded
  <1>5. cur.frm \in Frm /\ cur.mv \in Annex
    BY <1>1, <1>4, FlowFacts
  <1>6. /\ LockedSlots = S \cup {o} /\ o \notin S /\ o \in Ring /\ S \in SUBSET Ring
        /\ LockedSlots \in SUBSET Ring
    <2>1. /\ LockedSlots = Slots(iNumFrmBlk2, iNumFrmBlk1) /\ LockedSlots \in SUBSET Ring
          /\ iNumFrmBlk2 \in Nat /\ iNumFrmBlk1 \in Nat /\ iNumFrmBlk2 <= iNumFrmBlk1
          /\ iNumFrmBlk1 - iNumFrmBlk2 < MaxStack
      BY <1>4, SlotsInUse DEF LastLocked
    <2>2. S = Slots(iNumFrmBlk2, iNumFrmBlk1 - 1)
      BY <1>2, <1>4 DEF LockedSlots, Slots, Offset
    <2> HIDE DEF S, o
    <2>3. /\ Slots(iNumFrmBlk2, iNumFrmBlk1)
               = Slots(iNumFrmBlk2, iNumFrmBlk1 - 1) \cup {Offset(iNumFrmBlk1)}
          /\ Offset(iNumFrmBlk1) \notin Slots(iNumFrmBlk2, iNumFrmBlk1 - 1)
          /\ Offset(iNumFrmBlk1) \in Ring
      BY ONLY <2>1, SlotsGrow
    <2>4. o = Offset(iNumFrmBlk1)
      BY DEF o
    <2> QED BY <2>1, <2>2, <2>3, <2>4
  <1>7. list \in Seq(Reference) /\ list = R[o]
    BY <1>3, <1>6
  <1> HIDE DEF o, R, S, list, r
  <1>8. /\ OtherFrm' = FrmsOf(FALSE, cur, inflight, R, S)
        /\ OtherMv' = MvsOf(FALSE, cur, inflight, R, S)
        /\ OtherFrm = FrmsOf(TRUE, cur, inflight, R, S \cup {o})
        /\ OtherMv = MvsOf(TRUE, cur, inflight, R, S \cup {o})
    <2>1. /\ FrmsOf(HoldsFrame', cur', inflight', refRing', LockedSlots')
               = FrmsOf(FALSE, cur, inflight, R, S)
          /\ MvsOf(Reserved', cur', inflight', refRing', LockedSlots')
               = MvsOf(FALSE, cur, inflight, R, S)
          /\ FrmsOf(HoldsFrame, cur, inflight, refRing, LockedSlots)
               = FrmsOf(TRUE, cur, inflight, R, LockedSlots)
          /\ MvsOf(Reserved, cur, inflight, refRing, LockedSlots)
               = MvsOf(TRUE, cur, inflight, R, LockedSlots)
      BY <1>2, <1>4 DEF FrmsOf, MvsOf, R, S
    <2> QED BY <1>6, <2>1, OtherHolders
  <1>9. OneMore(Frm, OtherFrm, H1, cur.frm) /\ OneMore(Annex, OtherMv, K1, cur.mv)
    <2>1. H1 \in [Frm -> Nat] /\ K1 \in [Annex -> Nat]
      <3>1. S \cup {o} \in SUBSET Ring /\ R \in [Ring -> Seq(Reference)]
        BY <1>3, <1>6
      <3> QED BY <1>3, <3>1, HoldersTyped
    <2>2. ASSUME NEW f \in Frm PROVE OtherFrm[f] = H1[f] + (IF f = cur.frm THEN 1 ELSE 0)
      <3>1. FrmRefs(inflight, f) \in Nat /\ FrmLocked(R, S \cup {o}, f) \in Nat
        <4>1. FrmRefs(inflight, f) \in Nat
          BY <1>3, RefsType
        <4>2. FrmLocked(R, LockedSlots, f) \in Nat
          BY <1>3, <1>6, LockedPlaces
        <4> QED BY <1>6, <4>1, <4>2
      <3>2. /\ H1[f] = 0 + FrmRefs(inflight, f) + FrmLocked(R, S \cup {o}, f)
            /\ OtherFrm[f] = (IF cur.frm = f THEN 1 ELSE 0)
                             + FrmRefs(inflight, f) + FrmLocked(R, S \cup {o}, f)
        BY <1>8 DEF FrmsOf
      <3> HIDE DEF H1
      <3> QED BY <3>1, <3>2
    <2>3. ASSUME NEW a \in Annex PROVE OtherMv[a] = K1[a] + (IF a = cur.mv THEN 1 ELSE 0)
      <3>1. MvRefs(inflight, a) \in Nat /\ MvLocked(R, S \cup {o}, a) \in Nat
        <4>1. MvRefs(inflight, a) \in Nat
          BY <1>3, RefsType
        <4>2. MvLocked(R, LockedSlots, a) \in Nat
          BY <1>3, <1>6, LockedPlaces
        <4> QED BY <1>6, <4>1, <4>2
      <3>2. /\ K1[a] = 0 + MvRefs(inflight, a) + MvLocked(R, S \cup {o}, a)
            /\ OtherMv[a] = (IF cur.mv = a THEN 1 ELSE 0)
                            + MvRefs(inflight, a) + MvLocked(R, S \cup {o}, a)
        BY <1>8 DEF MvsOf
      <3> HIDE DEF K1
      <3> QED BY <3>1, <3>2
    <2> HIDE DEF H1, K1
    <2> QED BY <1>3, <1>5, <2>1, <2>2, <2>3 DEF OneMore
  <1>10. /\ OtherFrm' \in [Frm -> Nat] /\ OtherMv' \in [Annex -> Nat]
         /\ \A f \in Frm : H1[f] = OtherFrm'[f] + FrmRefs(list, f)
         /\ \A a \in Annex : K1[a] = OtherMv'[a] + MvRefs(list, a)
    <2>1. OtherFrm' \in [Frm -> Nat] /\ OtherMv' \in [Annex -> Nat]
      BY <1>3, <1>6, <1>8, HoldersTyped
    <2>2. /\ \A f : FrmLocked(R, S \cup {o}, f) = FrmLocked(R, S, f) + FrmRefs(R[o], f)
          /\ \A a : MvLocked(R, S \cup {o}, a) = MvLocked(R, S, a) + MvRefs(R[o], a)
      <3>1. R \in [Ring -> Seq(Reference)]
        BY <1>3
      <3> QED BY ONLY <1>6, <3>1, SlotLocked
    <2>3. ASSUME NEW f \in Frm PROVE H1[f] = OtherFrm'[f] + FrmRefs(list, f)
      <3>1. FrmRefs(inflight, f) \in Nat /\ FrmRefs(list, f) \in Nat
        BY <1>3, <1>7, RefsType
      <3>2. FrmLocked(R, S, f) \in Nat
        BY <1>3, <1>6, LockedPlaces
      <3>3. /\ H1[f] = 0 + FrmRefs(inflight, f) + FrmLocked(R, S \cup {o}, f)
            /\ OtherFrm'[f] = 0 + FrmRefs(inflight, f) + FrmLocked(R, S, f)
        BY <1>8 DEF FrmsOf
      <3>4. FrmLocked(R, S \cup {o}, f) = FrmLocked(R, S, f) + FrmRefs(list, f)
        BY <1>7, <2>2
      <3> HIDE DEF H1
      <3> QED BY ONLY <3>1, <3>2, <3>3, <3>4
    <2>4. ASSUME NEW a \in Annex PROVE K1[a] = OtherMv'[a] + MvRefs(list, a)
      <3>1. MvRefs(inflight, a) \in Nat /\ MvRefs(list, a) \in Nat
        BY <1>3, <1>7, RefsType
      <3>2. MvLocked(R, S, a) \in Nat
        BY <1>3, <1>6, LockedPlaces
      <3>3. /\ K1[a] = 0 + MvRefs(inflight, a) + MvLocked(R, S \cup {o}, a)
            /\ OtherMv'[a] = 0 + MvRefs(inflight, a) + MvLocked(R, S, a)
        BY <1>8 DEF MvsOf
      <3>4. MvLocked(R, S \cup {o}, a) = MvLocked(R, S, a) + MvRefs(list, a)
        BY <1>7, <2>2
      <3> HIDE DEF K1
      <3> QED BY ONLY <3>1, <3>2, <3>3, <3>4
    <2> HIDE DEF H1, K1
    <2> QED BY <2>1, <2>3, <2>4
  <1> HIDE DEF H1, K1
  <1>11. /\ MngrInv(r, H1, K1, user, Shown, NotDecoded)
         /\ r.nodes = mngr.nodes /\ r.dispFifo = mngr.dispFifo
    <2>1. MngrInv(mngr, OtherFrm, OtherMv, user, Shown, NotDecoded)
      BY <1>3
    <2>2. /\ MngrInv(Unlock(mngr, cur), H1, K1, user, Shown, NotDecoded)
          /\ Unlock(mngr, cur).nodes = mngr.nodes /\ Unlock(mngr, cur).dispFifo = mngr.dispFifo
      BY ONLY <1>9, <2>1, Unlocked
    <2> QED BY <2>2 DEF r
  <1>12. /\ MngrInv(mngr', OtherFrm', OtherMv', user, Shown, NotDecoded)
         /\ mngr'.nodes = mngr.nodes /\ mngr'.dispFifo = mngr.dispFifo
    <2> DEFINE q == UnlockRefID(r, list)
               H2 == OtherFrm'
               K2 == OtherMv'
    <2>1. \A e \in Reference : e.frm \in Frm /\ e.mv \in Annex
      BY DEF Reference
    <2>2. /\ H2 \in [Frm -> Nat] /\ K2 \in [Annex -> Nat]
          /\ \A f \in Frm : H1[f] = H2[f] + FrmRefs(list, f)
          /\ \A a \in Annex : K1[a] = K2[a] + MvRefs(list, a)
      BY <1>10
    <2> HIDE DEF H2, K2
    <2>3. /\ MngrInv(q, H2, K2, user, Shown, NotDecoded)
          /\ q.nodes = r.nodes /\ q.dispFifo = r.dispFifo
      <3>1. MngrInv(r, H1, K1, user, Shown, NotDecoded) /\ list \in Seq(Reference)
        BY <1>7, <1>11
      <3> QED BY ONLY <3>1, <2>1, <2>2, AllUnlocked
    <2> HIDE DEF q
    <2>4. mngr' = q
      BY <1>2 DEF q
    <2> QED BY <1>11, <2>3, <2>4 DEF H2, K2
  <1>13. NotDecoded' = NotDecoded
    BY <1>4 DEF NotDecoded
  <1>14. MngrInv(mngr', OtherFrm', OtherMv', user', Shown', NotDecoded')
    BY <1>2, <1>4, <1>12, <1>13
  <1>15. /\ next' \in Nat /\ next <= next' /\ output' \in Seq(Nat)
         /\ Len(output') + ToOutput(mngr', Shown') = Len(output) + ToOutput(mngr, Shown)
    <2>1. ToOutput(mngr', Shown') = ToOutput(mngr, Shown)
      BY <1>4, <1>12 DEF ToOutput
    <2> QED BY <1>1, <1>2, <2>1, FlowFacts
  <1>16. FlowKept'
    <2>1. LockedSlots' \subseteq LockedSlots
      BY <1>6 DEF S
    <2>2. inflight' \in Seq(Reference) /\ FramesOf(inflight') \subseteq FramesOf(inflight)
          /\ DistinctFrames(inflight')
      BY <1>2, <1>3
    <2>3. /\ \A i \in DOMAIN mngr'.nodes : \E j \in DOMAIN mngr.nodes :
                mngr'.nodes[i].frm = mngr.nodes[j].frm /\ mngr'.nodes[i].pic = mngr.nodes[j].pic
          /\ Range(mngr'.dispFifo) \subseteq Range(mngr.dispFifo) \cup FramesOf(mngr.nodes)
      BY <1>12
    <2>4. cur.frm \notin user' /\ dpc' \notin {"pop", "annex"}
      BY <1>2, <1>3
    <2> QED BY <1>1, <1>2, <1>4, <1>14, <1>15, <2>1, <2>2, <2>3, <2>4, FlowStep
  <1>17. DpbHasRoom'
    BY <1>1, <1>2, <1>12, RoomLeft
  <1>18. FlushLeavesNothing'
    BY <1>2 DEF FlushLeavesNothing, Flushing
  <1> QED BY <1>16, <1>17, <1>18, PictureParts

\* A frame that nothing in the locked lists refers to.
LEMMA NotLocked ==
  ASSUME NEW R \in [Ring -> Seq(Reference)], NEW S \in SUBSET Ring, NEW f,
         FrmLocked(R, S, f) = 0
  PROVE  \A o \in S : f \notin FramesOf(R[o])
  <1> DEFINE P == UNION {{o} \X {i \in DOMAIN R[o] : R[o][i] \in WithFrm(f)} : o \in S}
  <1>1. Cardinality(P) = 0 /\ IsFiniteSet(P)
    <2>1. FrmLocked(R, S, f) = Cardinality(Places(R, S, WithFrm(f)))
      BY LockedPlaces
    <2>2. IsFiniteSet(Places(R, S, WithFrm(f)))
      BY PlacesAreFinite
    <2> QED BY <2>1, <2>2 DEF Places
  <1>2. P = {}
    <2> HIDE DEF P
    <2> QED BY <1>1, FS_EmptySet
  <1>3. SUFFICES ASSUME NEW o \in S, NEW i \in DOMAIN R[o], R[o][i].frm = f PROVE FALSE
    BY DEF FramesOf
  <1>4. R[o] \in Seq(Reference)
    OBVIOUS
  <1>5. R[o][i] \in WithFrm(f)
    BY <1>3, <1>4, ReferencesTyped DEF WithFrm
  <1>6. <<o, i>> \in {o} \X {j \in DOMAIN R[o] : R[o][j] \in WithFrm(f)}
    BY <1>5
  <1>7. <<o, i>> \in P
    BY <1>6
  <1> QED BY <1>2, <1>7

\* A step of the decoder thread that takes buffers for the picture: the DPB and
\* the locked lists stay as they are.
LEMMA PicturesStay ==
  ASSUME FlowKept, mngr'.nodes = mngr.nodes, mngr'.dispFifo = mngr.dispFifo,
         content' = content, next' = next, refRing' = refRing, LockedSlots' = LockedSlots,
         ~Inserted, ~Inserted', iNumFrmBlk1' = iNumFrmBlk1, output' = output, Shown' = Shown
  PROVE  PicturesKept' /\ OutputIsExact'
  <1>1. PicturesKept'
    BY DEF FlowKept, PicturesKept, IsKept
  <1>2. ToOutput(mngr', Shown') = ToOutput(mngr, Shown)
    BY DEF ToOutput
  <1>3. OutputIsExact'
    BY <1>2 DEF FlowKept, OutputIsExact
  <1> QED BY <1>1, <1>3

\* The rules of the DPB's size and of the flush, for such a step.
LEMMA DpbStays ==
  ASSUME DpbHasRoom, FlushLeavesNothing, Reserved \/ dpc \in {"pop", "annex"},
         Reserved' \/ dpc' \in {"pop", "annex"}, ~Inserted, ~Inserted',
         mngr'.nodes = mngr.nodes, mngr'.dispFifo = mngr.dispFifo,
         mngr'.deleted = mngr.deleted, inflight' = inflight, cpc' = cpc,
         hasBeenFlushed' = hasBeenFlushed,
         dpc' \notin {"insert", "cleanup"}, dpc' = "endParsing" => ~Now'.idr
  PROVE  DpbHasRoom' /\ FlushLeavesNothing'
  <1>1. dpc # "cleanup"
    BY DEF Inserted
  <1>2. DpbHasRoom'
    BY <1>1 DEF DpbHasRoom
  <1>3. ~Flushing'
    BY DEF Flushing, Reserved
  <1>4. FlushLeavesNothing'
    BY <1>3 DEF FlushLeavesNothing, Flushing
  <1> QED BY <1>2, <1>4

\* AL_PictMngr_BeginFrame: the frame buffer is nobody's.
LEMMA BeginFrameKeeps ==
  ASSUME FlowInv, PictureInv, BeginFrame
  PROVE  PictureInv'
  <1> DEFINE f == Head(mngr.avail)
             R == refRing
             S == LockedSlots
  <1>1. FlowKept /\ DpbHasRoom /\ FlushLeavesNothing
    BY PictureParts
  <1>2. /\ dpc = "pop" /\ dpc' = "annex" /\ next' = next /\ hasBeenFlushed' = hasBeenFlushed
        /\ mngr.avail # <<>> /\ mngr' = WithFrame(mngr) /\ cur' = [cur EXCEPT !.frm = f]
        /\ stream' = stream /\ content' = content
        /\ user' = user /\ output' = output /\ refRing' = refRing /\ cpc' = cpc
        /\ inflight' = inflight /\ iNumFrmBlk1' = iNumFrmBlk1 /\ iNumFrmBlk2' = iNumFrmBlk2
    BY DEF BeginFrame, ghosts, cntVars, WithFrame
  <1>3. /\ inflight \in Seq(Reference) /\ R \in [Ring -> Seq(Reference)]
        /\ MngrInv(mngr, OtherFrm, OtherMv, user, Shown, NotDecoded)
        /\ OtherFrm \in [Frm -> Nat] /\ OtherMv \in [Annex -> Nat]
        /\ cur \in [frm : Frm \cup {0}, mv : Annex \cup {0}]
        /\ mngr.avail \in Seq(Frm)
    BY <1>1, FlowFacts
  <1>4. /\ ~Reserved /\ ~HoldsFrame /\ ~Inserted
        /\ ~Reserved' /\ HoldsFrame' /\ ~Inserted'
        /\ Shown' = Shown /\ Undecoded' = Undecoded
        /\ LockedSlots' = S
    BY <1>2 DEF Reserved, HoldsFrame, RefsLocked, Inserted, Shown, Undecoded, LockedSlots, Offset
  <1>5. S \in SUBSET Ring
    BY SlotsInUse
  <1>6. f \in Frm
    BY ONLY <1>2, <1>3, TailGrown
  <1> HIDE DEF f, R, S
  <1>7. cur'.frm = f /\ cur'.mv = cur.mv /\ cur' \in [frm : Frm \cup {0}, mv : Annex \cup {0}]
    BY <1>2, <1>3, <1>6
  <1>8. /\ OtherFrm' = FrmsOf(TRUE, cur', inflight, R, S)
        /\ OtherMv' = OtherMv
        /\ OtherFrm = FrmsOf(FALSE, cur, inflight, R, S)
    <2>1. /\ FrmsOf(HoldsFrame', cur', inflight', refRing', LockedSlots')
               = FrmsOf(TRUE, cur', inflight, R, S)
          /\ MvsOf(Reserved', cur', inflight', refRing', LockedSlots')
               = MvsOf(Reserved, cur, inflight, R, S)
          /\ FrmsOf(HoldsFrame, cur, inflight, refRing, LockedSlots)
               = FrmsOf(FALSE, cur, inflight, R, S)
      BY <1>2, <1>4 DEF FrmsOf, MvsOf, R, S
    <2> QED BY <2>1, OtherHolders DEF R, S
  <1>9. /\ \A g \in Frm : /\ OtherFrm[g] = FrmRefs(inflight, g) + FrmLocked(R, S, g)
                          /\ FrmRefs(inflight, g) \in Nat /\ FrmLocked(R, S, g) \in Nat
        /\ OneMore(Frm, OtherFrm', OtherFrm, f)
    <2>1. OtherFrm' \in [Frm -> Nat]
      BY <1>3, <1>5, <1>8, HoldersTyped
    <2>2. ASSUME NEW g \in Frm
          PROVE  /\ OtherFrm[g] = FrmRefs(inflight, g) + FrmLocked(R, S, g)
                 /\ OtherFrm'[g] = OtherFrm[g] + (IF g = f THEN 1 ELSE 0)
                 /\ FrmRefs(inflight, g) \in Nat /\ FrmLocked(R, S, g) \in Nat
      <3>1. FrmRefs(inflight, g) \in Nat
        BY <1>3, RefsType
      <3>2. FrmLocked(R, S, g) \in Nat
        BY <1>3, <1>5, LockedPlaces
      <3>3. /\ OtherFrm[g] = 0 + FrmRefs(inflight, g) + FrmLocked(R, S, g)
            /\ OtherFrm'[g] = (IF f = g THEN 1 ELSE 0) + FrmRefs(inflight, g) + FrmLocked(R, S, g)
        BY <1>7, <1>8 DEF FrmsOf
      <3> QED BY <3>1, <3>2, <3>3
    <2> QED BY <1>3, <1>6, <2>1, <2>2 DEF OneMore
  <1>10. /\ MngrInv(mngr', OtherFrm', OtherMv, user, Shown, NotDecoded)
         /\ mngr'.nodes = mngr.nodes /\ mngr'.dispFifo = mngr.dispFifo
         /\ mngr'.deleted = mngr.deleted
         /\ OtherFrm[f] = 0 /\ f \notin user
         /\ f \notin FramesOf(mngr.nodes) /\ f \notin Range(mngr.dispFifo)
    <2> DEFINE q == WithFrame(mngr)
               H2 == OtherFrm'
    <2>1. OneMore(Frm, H2, OtherFrm, Head(mngr.avail))
      BY <1>9 DEF f
    <2> HIDE DEF H2
    <2>2. /\ MngrInv(q, H2, OtherMv, user, Shown, NotDecoded)
          /\ q.nodes = mngr.nodes /\ q.dispFifo = mngr.dispFifo /\ q.deleted = mngr.deleted
          /\ OtherFrm[f] = 0 /\ f \notin user
          /\ f \notin FramesOf(mngr.nodes) /\ f \notin Range(mngr.dispFifo)
      <3>1. MngrInv(mngr, OtherFrm, OtherMv, user, Shown, NotDecoded) /\ mngr.avail # <<>>
        BY <1>2, <1>3
      <3> QED BY ONLY <3>1, <2>1, FrameTaken DEF f
    <2> HIDE DEF q
    <2>3. mngr' = q
      BY <1>2 DEF q
    <2> QED BY <2>2, <2>3 DEF H2
  <1>11. MngrInv(mngr', OtherFrm', OtherMv', user', Shown', NotDecoded')
    <2>1. NotDecoded' = NotDecoded
      BY <1>4 DEF NotDecoded
    <2> QED BY <1>2, <1>4, <1>8, <1>10, <2>1
  <1>12. f \notin FramesOf(inflight) /\ \A o \in S : f \notin FramesOf(R[o])
    <2>1. FrmRefs(inflight, f) = 0 /\ FrmLocked(R, S, f) = 0
      <3>1. /\ OtherFrm[f] = FrmRefs(inflight, f) + FrmLocked(R, S, f)
            /\ FrmRefs(inflight, f) \in Nat /\ FrmLocked(R, S, f) \in Nat
        BY <1>6, <1>9
      <3> QED BY <1>10, <3>1
    <2>2. R \in [Ring -> Seq(Reference)]
      BY <1>3
    <2> QED BY <1>3, <1>5, <2>1, <2>2, RefsType, NotLocked
  <1>13. ThreadTypes'
    <2>1. ThreadTypes
      BY <1>1 DEF FlowKept
    <2> QED BY <1>2, <1>4, <1>6, <1>7, <2>1 DEF ThreadTypes, Now
  <1>14. CurIsFresh'
    <2>1. DistinctFrames(inflight)
      BY <1>1 DEF FlowKept, CurIsFresh
    <2>2. /\ cur'.frm \notin FramesOf(mngr'.nodes) /\ cur'.frm \notin Range(mngr'.dispFifo)
          /\ cur'.frm \notin user' /\ cur'.frm \notin FramesOf(inflight')
          /\ \A o \in LockedSlots' : cur'.frm \notin FramesOf(refRing'[o])
      BY <1>2, <1>4, <1>7, <1>10, <1>12 DEF R
    <2> QED BY <1>2, <2>1, <2>2 DEF CurIsFresh
  <1>15. PicturesKept' /\ OutputIsExact'
    BY <1>1, <1>2, <1>4, <1>10, PicturesStay DEF S
  <1>16. FlowKept'
    <2>1. MngrInv(mngr, OtherFrm, OtherMv, user, Shown, NotDecoded)'
      BY <1>11
    <2> QED BY <2>1, <1>13, <1>14, <1>15 DEF FlowKept
  <1>17. DpbHasRoom' /\ FlushLeavesNothing'
    BY <1>1, <1>2, <1>4, <1>10, DpbStays
  <1> QED BY <1>16, <1>17, PictureParts

\* AL_TBufPool_GetFreeBufID
LEMMA GetAnnexKeeps ==
  ASSUME FlowInv, PictureInv, GetAnnex
  PROVE  PictureInv'
  <1> DEFINE a == Head(mngr.mvFree)
             R == refRing
             S == LockedSlots
  <1>1. FlowKept /\ DpbHasRoom /\ FlushLeavesNothing
    BY PictureParts
  <1>2. /\ dpc = "annex" /\ dpc' = "refs" /\ next' = next /\ hasBeenFlushed' = hasBeenFlushed
        /\ mngr.mvFree # <<>> /\ mngr' = WithAnnex(mngr) /\ cur' = [cur EXCEPT !.mv = a]
        /\ stream' = stream /\ content' = content
        /\ user' = user /\ output' = output /\ refRing' = refRing /\ cpc' = cpc
        /\ inflight' = inflight /\ iNumFrmBlk1' = iNumFrmBlk1 /\ iNumFrmBlk2' = iNumFrmBlk2
    BY DEF GetAnnex, ghosts, cntVars, WithAnnex
  <1>3. /\ inflight \in Seq(Reference) /\ R \in [Ring -> Seq(Reference)]
        /\ MngrInv(mngr, OtherFrm, OtherMv, user, Shown, NotDecoded)
        /\ OtherFrm \in [Frm -> Nat] /\ OtherMv \in [Annex -> Nat]
        /\ cur \in [frm : Frm \cup {0}, mv : Annex \cup {0}]
        /\ mngr.mvFree \in Seq(Annex)
    BY <1>1, FlowFacts
  <1>4. /\ ~Reserved /\ HoldsFrame /\ ~Inserted
        /\ Reserved' /\ HoldsFrame' /\ ~Inserted'
        /\ Shown' = Shown /\ Undecoded' = Undecoded
        /\ LockedSlots' = S
    BY <1>2 DEF Reserved, HoldsFrame, RefsLocked, Inserted, Shown, Undecoded, LockedSlots, Offset
  <1>5. S \in SUBSET Ring
    BY SlotsInUse
  <1>6. a \in Annex
    BY ONLY <1>2, <1>3, TailGrown
  <1> HIDE DEF a, R, S
  <1>7. cur'.frm = cur.frm /\ cur'.mv = a /\ cur' \in [frm : Frm \cup {0}, mv : Annex \cup {0}]
    BY <1>2, <1>3, <1>6
  <1>8. /\ OtherMv' = MvsOf(TRUE, cur', inflight, R, S)
        /\ OtherFrm' = OtherFrm
        /\ OtherMv = MvsOf(FALSE, cur, inflight, R, S)
    <2>1. /\ MvsOf(Reserved', cur', inflight', refRing', LockedSlots')
               = MvsOf(TRUE, cur', inflight, R, S)
          /\ MvsOf(Reserved, cur, inflight, refRing, LockedSlots)
               = MvsOf(FALSE, cur, inflight, R, S)
      BY <1>2, <1>4 DEF MvsOf, R, S
    <2>2. FrmsOf(HoldsFrame', cur', inflight', refRing', LockedSlots')
               = FrmsOf(HoldsFrame, cur, inflight, R, S)
      BY <1>2, <1>4, <1>7 DEF FrmsOf, R
    <2> QED BY <2>1, <2>2, OtherHolders DEF R, S
  <1>9. OneMore(Annex, OtherMv', OtherMv, a)
    <2>1. OtherMv' \in [Annex -> Nat]
      BY <1>3, <1>5, <1>8, HoldersTyped
    <2>2. ASSUME NEW g \in Annex PROVE OtherMv'[g] = OtherMv[g] + (IF g = a THEN 1 ELSE 0)
      <3>1. MvRefs(inflight, g) \in Nat
        BY <1>3, RefsType
      <3>2. MvLocked(R, S, g) \in Nat
        BY <1>3, <1>5, LockedPlaces
      <3>3. /\ OtherMv[g] = 0 + MvRefs(inflight, g) + MvLocked(R, S, g)
            /\ OtherMv'[g] = (IF a = g THEN 1 ELSE 0) + MvRefs(inflight, g) + MvLocked(R, S, g)
        BY <1>7, <1>8 DEF MvsOf
      <3> QED BY <3>1, <3>2, <3>3
    <2> QED BY <1>3, <1>6, <2>1, <2>2 DEF OneMore
  <1>10. /\ MngrInv(mngr', OtherFrm, OtherMv', user, Shown, NotDecoded)
         /\ mngr'.nodes = mngr.nodes /\ mngr'.dispFifo = mngr.dispFifo
         /\ mngr'.deleted = mngr.deleted
    <2> DEFINE q == WithAnnex(mngr)
               K2 == OtherMv'
    <2>1. OneMore(Annex, K2, OtherMv, Head(mngr.mvFree))
      BY <1>9 DEF a
    <2> HIDE DEF K2
    <2>2. /\ MngrInv(q, OtherFrm, K2, user, Shown, NotDecoded)
          /\ q.nodes = mngr.nodes /\ q.dispFifo = mngr.dispFifo /\ q.deleted = mngr.deleted
      <3>1. MngrInv(mngr, OtherFrm, OtherMv, user, Shown, NotDecoded) /\ mngr.mvFree # <<>>
        BY <1>2, <1>3
      <3> QED BY ONLY <3>1, <2>1, AnnexTaken
    <2> HIDE DEF q
    <2>3. mngr' = q
      BY <1>2 DEF q
    <2> QED BY <2>2, <2>3 DEF K2
  <1>11. MngrInv(mngr', OtherFrm', OtherMv', user', Shown', NotDecoded')
    <2>1. NotDecoded' = NotDecoded
      BY <1>4 DEF NotDecoded
    <2> QED BY <1>2, <1>4, <1>8, <1>10, <2>1
  <1>12. ThreadTypes'
    <2>1. ThreadTypes /\ cur.frm \in Frm
      BY <1>1, <1>4, FlowFacts DEF FlowKept
    <2> QED BY <1>2, <1>4, <1>6, <1>7, <2>1 DEF ThreadTypes, Now
  <1>13. CurIsFresh'
    <2>1. CurIsFresh
      BY <1>1 DEF FlowKept
    <2>2. /\ cur'.frm \notin FramesOf(mngr'.nodes) /\ cur'.frm \notin Range(mngr'.dispFifo)
          /\ cur'.frm \notin user' /\ cur'.frm \notin FramesOf(inflight')
          /\ \A o \in LockedSlots' : cur'.frm \notin FramesOf(refRing'[o])
      BY <1>2, <1>4, <1>7, <1>10, <2>1 DEF CurIsFresh, HoldsFrame, S
    <2> QED BY <1>2, <2>1, <2>2 DEF CurIsFresh
  <1>14. PicturesKept' /\ OutputIsExact'
    BY <1>1, <1>2, <1>4, <1>10, PicturesStay DEF S
  <1>15. FlowKept'
    <2>1. MngrInv(mngr, OtherFrm, OtherMv, user, Shown, NotDecoded)'
      BY <1>11
    <2> QED BY <2>1, <1>12, <1>13, <1>14 DEF FlowKept
  <1>16. DpbHasRoom' /\ FlushLeavesNothing'
    BY <1>1, <1>2, <1>4, <1>10, DpbStays
  <1> QED BY <1>15, <1>16, PictureParts

\* AL_InitRefBuffers: the nodes that are references are locked, in the next
\* slot of the ring.
LEMMA InitRefBuffersKeeps ==
  ASSUME FlowInv, PictureInv, InitRefBuffers
  PROVE  PictureInv'
  <1> DEFINE o == Offset(iNumFrmBlk1)
             R == refRing
             R2 == refRing'
             S == LockedSlots
             list == RefList(mngr)
  <1>1. FlowKept /\ DpbHasRoom /\ FlushLeavesNothing
    BY PictureParts
  <1>2. /\ dpc = "refs" /\ next' = next /\ hasBeenFlushed' = hasBeenFlushed
        /\ R2 = [R EXCEPT ![o] = list] /\ mngr' = LockRefID(mngr, list) /\ cur' = cur
        /\ stream' = stream /\ content' = content
        /\ user' = user /\ output' = output /\ cpc' = cpc
        /\ inflight' = inflight /\ iNumFrmBlk1' = iNumFrmBlk1 /\ iNumFrmBlk2' = iNumFrmBlk2
    BY DEF InitRefBuffers, ghosts, cntVars
  <1>3. dpc' \in {"cancel", "flushDpb", "endParsing"} /\ (dpc' = "endParsing" => ~Now'.idr)
    <2>1. dpc' = CASE ~Now.ok -> "cancel" [] Now.idr -> "flushDpb" [] OTHER -> "endParsing"
      BY DEF InitRefBuffers
    <2>2. Now' = Now
      BY <1>2 DEF Now
    <2> QED BY ONLY <2>1, <2>2
  <1>4. /\ inflight \in Seq(Reference) /\ R \in [Ring -> Seq(Reference)]
        /\ MngrInv(mngr, OtherFrm, OtherMv, user, Shown, NotDecoded)
        /\ mngr \in PictMngrs /\ mngr.nodes \in Seq(Node)
        /\ OtherFrm \in [Frm -> Nat] /\ OtherMv \in [Annex -> Nat]
    BY <1>1, FlowFacts
  <1>5. /\ Reserved /\ HoldsFrame /\ ~RefsLocked /\ ~Inserted
        /\ Reserved' /\ HoldsFrame' /\ RefsLocked' /\ ~Inserted'
        /\ Shown' = Shown /\ Undecoded' = Undecoded
    BY <1>2, <1>3 DEF Reserved, HoldsFrame, RefsLocked, Inserted, Shown, Undecoded
  <1>6. /\ LockedSlots' = S \cup {o} /\ o \notin S /\ o \in Ring /\ S \in SUBSET Ring
    <2>1. /\ S = Slots(iNumFrmBlk2, iNumFrmBlk1 - 1) /\ S \in SUBSET Ring
          /\ iNumFrmBlk2 \in Nat /\ iNumFrmBlk1 \in Nat /\ iNumFrmBlk2 <= iNumFrmBlk1
          /\ iNumFrmBlk1 - iNumFrmBlk2 < MaxStack
      BY <1>5, SlotsInUse DEF LastLocked
    <2>2. LockedSlots' = Slots(iNumFrmBlk2, iNumFrmBlk1)
      BY <1>2, <1>5 DEF LockedSlots, Slots, Offset
    <2> HIDE DEF S, o
    <2>3. /\ Slots(iNumFrmBlk2, iNumFrmBlk1)
               = Slots(iNumFrmBlk2, iNumFrmBlk1 - 1) \cup {Offset(iNumFrmBlk1)}
          /\ Offset(iNumFrmBlk1) \notin Slots(iNumFrmBlk2, iNumFrmBlk1 - 1)
          /\ Offset(iNumFrmBlk1) \in Ring
      BY ONLY <2>1, SlotsGrow
    <2>4. o = Offset(iNumFrmBlk1)
      BY DEF o
    <2> QED BY <2>1, <2>2, <2>3, <2>4
  <1>7. /\ list \in Seq(Reference)
        /\ \A j \in DOMAIN list : \E i \in DOMAIN mngr.nodes :
              /\ list[j].frm = mngr.nodes[i].frm /\ list[j].mv = mngr.nodes[i].mv
              /\ list[j].pic = mngr.nodes[i].pic
    BY <1>4, RefListed
  <1> HIDE DEF o, R, R2, S, list
  <1>8. /\ R2 \in [Ring -> Seq(Reference)] /\ R2[o] = list /\ \A s \in S : R2[s] = R[s]
    <2>1. \A s \in S : s \in Ring /\ s # o
      BY <1>6
    <2> QED BY <1>2, <1>4, <1>6, <1>7, <2>1
  <1>9. /\ OtherFrm' = FrmsOf(TRUE, cur, inflight, R2, S \cup {o})
        /\ OtherMv' = MvsOf(TRUE, cur, inflight, R2, S \cup {o})
        /\ OtherFrm = FrmsOf(TRUE, cur, inflight, R, S)
        /\ OtherMv = MvsOf(TRUE, cur, inflight, R, S)
    <2>1. /\ FrmsOf(HoldsFrame', cur', inflight', refRing', LockedSlots')
               = FrmsOf(TRUE, cur, inflight, R2, LockedSlots')
          /\ MvsOf(Reserved', cur', inflight', refRing', LockedSlots')
               = MvsOf(TRUE, cur, inflight, R2, LockedSlots')
          /\ FrmsOf(HoldsFrame, cur, inflight, refRing, LockedSlots)
               = FrmsOf(TRUE, cur, inflight, R, S)
          /\ MvsOf(Reserved, cur, inflight, refRing, LockedSlots)
               = MvsOf(TRUE, cur, inflight, R, S)
      BY <1>2, <1>5 DEF FrmsOf, MvsOf, R, R2, S
    <2> QED BY <1>6, <2>1, OtherHolders
  <1>10. /\ \A f : FrmLocked(R2, S \cup {o}, f) = FrmLocked(R, S, f) + FrmRefs(list, f)
         /\ \A a : MvLocked(R2, S \cup {o}, a) = MvLocked(R, S, a) + MvRefs(list, a)
    <2>1. /\ \A f : FrmLocked(R2, S \cup {o}, f) = FrmLocked(R2, S, f) + FrmRefs(R2[o], f)
          /\ \A a : MvLocked(R2, S \cup {o}, a) = MvLocked(R2, S, a) + MvRefs(R2[o], a)
      <3>1. R2 \in [Ring -> Seq(Reference)]
        BY <1>8
      <3> QED BY ONLY <1>6, <3>1, SlotLocked
    <2>2. /\ \A f : FrmLocked(R2, S, f) = FrmLocked(R, S, f)
          /\ \A a : MvLocked(R2, S, a) = MvLocked(R, S, a)
      <3>1. \A s \in S : R2[s] = R[s]
        BY <1>8
      <3> QED BY ONLY <3>1, SameLists
    <2>3. R2[o] = list
      BY <1>8
    <2> QED BY ONLY <2>1, <2>2, <2>3
  <1>11. /\ OtherFrm' \in [Frm -> Nat] /\ OtherMv' \in [Annex -> Nat]
         /\ \A f \in Frm : OtherFrm'[f] = OtherFrm[f] + FrmRefs(list, f)
         /\ \A a \in Annex : OtherMv'[a] = OtherMv[a] + MvRefs(list, a)
    <2> DEFINE S2 == S \cup {o}
    <2>1. OtherFrm' \in [Frm -> Nat] /\ OtherMv' \in [Annex -> Nat]
      <3>1. S2 \in SUBSET Ring /\ R2 \in [Ring -> Seq(Reference)]
        BY <1>6, <1>8
      <3>2. OtherFrm' = FrmsOf(TRUE, cur, inflight, R2, S2)
            /\ OtherMv' = MvsOf(TRUE, cur, inflight, R2, S2)
        BY <1>9
      <3> HIDE DEF S2
      <3> QED BY <1>4, <3>1, <3>2, HoldersTyped
    <2>2. ASSUME NEW f \in Frm PROVE OtherFrm'[f] = OtherFrm[f] + FrmRefs(list, f)
      <3>1. FrmRefs(inflight, f) \in Nat /\ FrmRefs(list, f) \in Nat
        BY <1>4, <1>7, RefsType
      <3>2. FrmLocked(R, S, f) \in Nat
        BY <1>4, <1>6, LockedPlaces
      <3>3. /\ OtherFrm'[f] = (IF cur.frm = f THEN 1 ELSE 0) + FrmRefs(inflight, f)
                              + FrmLocked(R2, S \cup {o}, f)
            /\ OtherFrm[f] = (IF cur.frm = f THEN 1 ELSE 0) + FrmRefs(inflight, f)
                             + FrmLocked(R, S, f)
        BY <1>9 DEF FrmsOf
      <3>4. FrmLocked(R2, S \cup {o}, f) = FrmLocked(R, S, f) + FrmRefs(list, f)
        BY <1>10
      <3> QED BY ONLY <3>1, <3>2, <3>3, <3>4
    <2>3. ASSUME NEW a \in Annex PROVE OtherMv'[a] = OtherMv[a] + MvRefs(list, a)
      <3>1. MvRefs(inflight, a) \in Nat /\ MvRefs(list, a) \in Nat
        BY <1>4, <1>7, RefsType
      <3>2. MvLocked(R, S, a) \in Nat
        BY <1>4, <1>6, LockedPlaces
      <3>3. /\ OtherMv'[a] = (IF cur.mv = a THEN 1 ELSE 0) + MvRefs(inflight, a)
                              + MvLocked(R2, S \cup {o}, a)
            /\ OtherMv[a] = (IF cur.mv = a THEN 1 ELSE 0) + MvRefs(inflight, a)
                             + MvLocked(R, S, a)
        BY <1>9 DEF MvsOf
      <3>4. MvLocked(R2, S \cup {o}, a) = MvLocked(R, S, a) + MvRefs(list, a)
        BY <1>10
      <3> QED BY ONLY <3>1, <3>2, <3>3, <3>4
    <2> QED BY <2>1, <2>2, <2>3
  <1>12. /\ MngrInv(mngr', OtherFrm', OtherMv', user, Shown, NotDecoded)
         /\ mngr'.nodes = mngr.nodes /\ mngr'.dispFifo = mngr.dispFifo
         /\ mngr'.deleted = mngr.deleted
    <2> DEFINE q == LockRefID(mngr, list)
               H2 == OtherFrm'
               K2 == OtherMv'
    <2>1. /\ H2 \in [Frm -> Nat] /\ K2 \in [Annex -> Nat]
          /\ \A f \in Frm : H2[f] = OtherFrm[f] + FrmRefs(list, f)
          /\ \A a \in Annex : K2[a] = OtherMv[a] + MvRefs(list, a)
      BY <1>11
    <2> HIDE DEF H2, K2
    <2>2. /\ MngrInv(mngr, OtherFrm, OtherMv, user, Shown, NotDecoded)
          /\ list \in Seq(Reference)
      BY <1>4, <1>7
    <2>3. FromNodes(list, mngr)
      BY <1>7 DEF FromNodes
    <2>4. /\ MngrInv(q, H2, K2, user, Shown, NotDecoded)
          /\ q.nodes = mngr.nodes /\ q.dispFifo = mngr.dispFifo /\ q.deleted = mngr.deleted
      BY ONLY <2>1, <2>2, <2>3, ListLocked
    <2> HIDE DEF q
    <2>5. mngr' = q
      BY <1>2 DEF q
    <2> QED BY <2>4, <2>5 DEF H2, K2
  <1>13. MngrInv(mngr', OtherFrm', OtherMv', user', Shown', NotDecoded')
    <2>1. NotDecoded' = NotDecoded
      BY <1>5 DEF NotDecoded
    <2> QED BY <1>2, <1>5, <1>12, <2>1
  <1>14. ThreadTypes'
    <2>1. ThreadTypes /\ cur.frm \in Frm /\ cur.mv \in Annex
      BY <1>1, <1>5, FlowFacts DEF FlowKept
    <2>2. refRing' \in [Ring -> Seq(Reference)]
      BY <1>8 DEF R2
    <2> QED BY <1>2, <1>5, <2>1, <2>2 DEF ThreadTypes, Now
  <1>15. CurIsFresh'
    <2>1. /\ cur.frm \notin FramesOf(mngr.nodes) /\ cur.frm \notin Range(mngr.dispFifo)
          /\ cur.frm \notin user /\ cur.frm \notin FramesOf(inflight)
          /\ DistinctFrames(inflight)
          /\ \A s \in S : cur.frm \notin FramesOf(R[s])
      BY <1>1, <1>5 DEF FlowKept, CurIsFresh, S, R
    <2>2. cur.frm \notin FramesOf(list)
      BY <1>7, <2>1 DEF FramesOf
    <2>3. \A s \in LockedSlots' : cur.frm \notin FramesOf(refRing'[s])
      BY <1>6, <1>8, <2>1, <2>2 DEF R2
    <2> QED BY <1>2, <1>12, <2>1, <2>3 DEF CurIsFresh
  <1>16. PicturesKept'
    <2>1. PicturesKept
      BY <1>1 DEF FlowKept
    <2>2. \A i \in DOMAIN mngr.nodes : IsKept(mngr.nodes[i])
      BY <1>5, <2>1 DEF PicturesKept
    <2>3. ASSUME NEW s \in LockedSlots', NEW j \in DOMAIN R2[s] PROVE IsKept(R2[s][j])
      <3>1. CASE s = o
        <4>1. R2[s] = list
          BY <1>8, <3>1
        <4>2. PICK i \in DOMAIN mngr.nodes :
                 list[j].frm = mngr.nodes[i].frm /\ list[j].pic = mngr.nodes[i].pic
          BY <1>7, <4>1
        <4> QED BY <2>2, <4>1, <4>2 DEF IsKept
      <3>2. CASE s # o
        <4>1. s \in S /\ R2[s] = R[s]
          BY <1>6, <1>8, <3>2
        <4> QED BY <2>1, <2>3, <4>1 DEF PicturesKept, S, R
      <3> QED BY <3>1, <3>2
    <2>4. \A e : IsKept(e) => content'[e.frm] = e.pic /\ e.pic < next'
      BY <1>2 DEF IsKept
    <2> QED BY <1>5, <1>12, <2>2, <2>3, <2>4 DEF PicturesKept, IsKept, R2
  <1>17. OutputIsExact'
    <2>1. ToOutput(mngr', Shown') = ToOutput(mngr, Shown)
      BY <1>5, <1>12 DEF ToOutput
    <2> QED BY <1>1, <1>2, <1>5, <2>1 DEF FlowKept, OutputIsExact
  <1>18. FlowKept'
    <2>1. MngrInv(mngr, OtherFrm, OtherMv, user, Shown, NotDecoded)'
      BY <1>13
    <2> QED BY <2>1, <1>14, <1>15, <1>16, <1>17 DEF FlowKept
  <1>19. DpbHasRoom' /\ FlushLeavesNothing'
    BY <1>1, <1>2, <1>3, <1>5, <1>12, DpbStays
  <1> QED BY <1>18, <1>19, PictureParts

\* The picture that the decoder thread is parsing.
LEMMA NowIsPicture ==
  ASSUME FlowKept, Reserved
  PROVE  Now.poc \in Nat /\ Now.idr \in BOOLEAN /\ Now.ref \in BOOLEAN
  <1>1. /\ stream \in Streams /\ next \in Nat /\ next > 0 /\ next <= Len(stream) /\ Now # Eos
    BY FlowFacts
  <1>2. stream \in Seq(Picture \cup {Eos})
    BY <1>1, FlowAssumption
  <1>3. next \in DOMAIN stream
    BY <1>1, <1>2, LenProperties
  <1>4. stream[next] \in Picture \cup {Eos}
    BY <1>2, <1>3, ElementOfSeq, LenProperties
  <1> QED BY <1>1, <1>4 DEF Now, Picture

\* The picture being parsed enters the DPB.
LEMMA InsertKeeps ==
  ASSUME FlowInv, PictureInv, NEW node,
         node = [frm |-> cur.frm, mv |-> cur.mv, pic |-> next, iFramePOC |-> Now.poc,
                 isRef |-> Now.ref \/ Now.idr, bPicOutputFlag |-> TRUE],
         Update("insert", "cleanup", Insert(mngr, node))
  PROVE  PictureInv'
  <1>1. FlowKept /\ DpbHasRoom
    BY PictureParts
  <1>2. /\ dpc = "insert" /\ dpc' = "cleanup" /\ next' = next /\ hasBeenFlushed' = hasBeenFlushed
        /\ mngr' = Insert(mngr, node) /\ cur' = cur
        /\ stream' = stream /\ content' = content /\ refRing' = refRing
        /\ user' = user /\ output' = output /\ cpc' = cpc
        /\ inflight' = inflight /\ iNumFrmBlk1' = iNumFrmBlk1 /\ iNumFrmBlk2' = iNumFrmBlk2
    BY DEF Update, ghosts, cntVars
  <1>3. /\ inflight \in Seq(Reference) /\ refRing \in [Ring -> Seq(Reference)]
        /\ MngrInv(mngr, OtherFrm, OtherMv, user, Shown, NotDecoded)
        /\ OtherFrm \in [Frm -> Nat] /\ OtherMv \in [Annex -> Nat]
        /\ next \in Nat /\ mngr.nodes \in Seq(Node)
    BY <1>1, FlowFacts
  <1>4. /\ Reserved /\ HoldsFrame /\ RefsLocked /\ ~Inserted
        /\ Reserved' /\ HoldsFrame' /\ RefsLocked' /\ Inserted'
        /\ Shown' = Shown /\ Undecoded' = Undecoded /\ Now' = Now
    BY <1>2 DEF Reserved, HoldsFrame, RefsLocked, Inserted, Shown, Undecoded, Now
  <1>5. /\ cur.frm \in Frm /\ cur.mv \in Annex
        /\ Now.poc \in Nat /\ Now.idr \in BOOLEAN /\ Now.ref \in BOOLEAN
    BY <1>1, <1>4, FlowFacts, NowIsPicture
  <1>6. /\ node \in Node /\ node.bPicOutputFlag /\ node.frm = cur.frm /\ node.mv = cur.mv
        /\ node.pic = next /\ (node.isRef <=> Now.ref \/ Now.idr)
    BY <1>3, <1>5 DEF Node
  <1>7. LockedSlots' = LockedSlots /\ OtherFrm' = OtherFrm /\ OtherMv' = OtherMv
    BY <1>2, <1>4, SameHolders
  <1>8. LockedSlots \in SUBSET Ring
    BY SlotsInUse
  <1>9. OtherFrm[cur.frm] > 0 /\ OtherMv[cur.mv] > 0
    <2>1. /\ FrmRefs(inflight, cur.frm) \in Nat /\ MvRefs(inflight, cur.mv) \in Nat
      BY <1>3, RefsType
    <2>2. /\ FrmLocked(refRing, LockedSlots, cur.frm) \in Nat
          /\ MvLocked(refRing, LockedSlots, cur.mv) \in Nat
      BY <1>3, <1>8, LockedPlaces
    <2>3. /\ OtherFrm[cur.frm] = 1 + FrmRefs(inflight, cur.frm)
                                   + FrmLocked(refRing, LockedSlots, cur.frm)
          /\ OtherMv[cur.mv] = 1 + MvRefs(inflight, cur.mv)
                                 + MvLocked(refRing, LockedSlots, cur.mv)
      BY <1>4, <1>5, OtherHolders DEF FrmsOf, MvsOf
    <2> QED BY <2>1, <2>2, <2>3
  <1>10. /\ cur.frm \notin FramesOf(mngr.nodes) /\ cur.frm \notin Range(mngr.dispFifo)
         /\ cur.frm \notin user /\ cur.frm \notin FramesOf(inflight)
         /\ DistinctFrames(inflight)
         /\ \A s \in LockedSlots : cur.frm \notin FramesOf(refRing[s])
    BY <1>1, <1>4 DEF FlowKept, CurIsFresh
  <1>11. /\ MngrInv(mngr', OtherFrm, OtherMv, user, Shown, NotDecoded \cup {cur.frm})
         /\ \E at : Grown(mngr.nodes, mngr'.nodes, at) /\ mngr'.nodes[at] = node
         /\ ToOutput(mngr', Shown) = ToOutput(mngr, Shown) + 1
    <2> DEFINE q == Insert(mngr, node)
    <2>1. MngrInv(mngr, OtherFrm, OtherMv, user, Shown, NotDecoded)
      BY <1>3
    <2>2. /\ node \in Node /\ node.bPicOutputFlag
          /\ OtherFrm[node.frm] > 0 /\ OtherMv[node.mv] > 0
          /\ node.frm \notin FramesOf(mngr.nodes) /\ node.frm \notin Range(mngr.dispFifo)
          /\ node.frm \notin user
      BY <1>6, <1>9, <1>10
    <2>3. /\ MngrInv(q, OtherFrm, OtherMv, user, Shown, NotDecoded \cup {node.frm})
          /\ \E at : Grown(mngr.nodes, q.nodes, at) /\ q.nodes[at] = node
          /\ ToOutput(q, Shown) = ToOutput(mngr, Shown) + 1
      BY ONLY <2>1, <2>2, NodeInserted
    <2> HIDE DEF q
    <2>4. mngr' = q
      BY <1>2 DEF q
    <2> QED BY <1>6, <2>3, <2>4
  <1>12. MngrInv(mngr', OtherFrm', OtherMv', user', Shown', NotDecoded')
    <2>1. NotDecoded' = NotDecoded \cup {cur.frm}
      BY <1>2, <1>4 DEF NotDecoded
    <2> QED BY <1>2, <1>4, <1>7, <1>11, <2>1
  <1>13. PICK at : Grown(mngr.nodes, mngr'.nodes, at) /\ mngr'.nodes[at] = node
    BY <1>11
  <1>14. mngr'.nodes \in Seq(Node)
    <2>1. mngr' \in PictMngrs
      BY <1>11 DEF MngrInv
    <2> QED BY <2>1 DEF PictMngrs
  <1>15. /\ Len(mngr'.nodes) = Len(mngr.nodes) + 1 /\ Len(mngr.nodes) \in Nat
         /\ \A k \in DOMAIN mngr'.nodes : k # at =>
               \E j \in DOMAIN mngr.nodes : mngr.nodes[j] = mngr'.nodes[k]
         /\ NumRef(mngr'.nodes) = NumRef(mngr.nodes) + (IF node.isRef THEN 1 ELSE 0)
         /\ NumRef(mngr.nodes) \in Nat /\ NumRef(mngr.nodes) <= Len(mngr.nodes)
    <2> DEFINE s == mngr.nodes
               t == mngr'.nodes
    <2>1. s \in Seq(Node) /\ t \in Seq(Node) /\ Grown(s, t, at) /\ t[at] = node
      BY <1>3, <1>13, <1>14
    <2> HIDE DEF s, t
    <2>2. /\ Len(t) = Len(s) + 1 /\ Len(s) \in Nat
          /\ \A k \in DOMAIN t : k # at => \E j \in DOMAIN s : s[j] = t[k]
      BY ONLY <2>1, GrownElements
    <2>3. NumRef(t) = NumRef(s) + (IF node.isRef THEN 1 ELSE 0)
      <3>1. NumRef(t) = NumRef(s) + (IF t[at].isRef THEN 1 ELSE 0)
        BY ONLY <2>1, RefsGrown
      <3> QED BY <2>1, <3>1
    <2>4. NumRef(s) \in Nat /\ NumRef(s) <= Len(s)
      BY ONLY <2>1, RefsType
    <2> QED BY <2>2, <2>3, <2>4 DEF s, t
  <1>16. ThreadTypes'
    <2>1. ThreadTypes
      BY <1>1 DEF FlowKept
    <2> QED BY <1>2, <1>4, <2>1 DEF ThreadTypes, Now
  <1>17. CurIsFresh'
    BY <1>2, <1>4, <1>7, <1>10 DEF CurIsFresh
  <1>18. PicturesKept'
    <2>1. PicturesKept
      BY <1>1 DEF FlowKept
    <2>2. \A e : IsKept(e) => content'[e.frm] = e.pic /\ e.pic < next'
      BY <1>2 DEF IsKept
    <2>3. ASSUME NEW k \in DOMAIN mngr'.nodes
          PROVE  IF mngr'.nodes[k].frm = cur.frm
                 THEN mngr'.nodes[k].pic = next
                 ELSE IsKept(mngr'.nodes[k])
      <3>1. CASE k = at
        BY <1>6, <1>13, <3>1
      <3>2. CASE k # at
        <4>1. PICK j \in DOMAIN mngr.nodes : mngr.nodes[j] = mngr'.nodes[k]
          BY <1>15, <3>2
        <4>2. mngr.nodes[j].frm # cur.frm
          BY <1>10 DEF FramesOf
        <4> QED BY <1>4, <2>1, <4>1, <4>2 DEF PicturesKept
      <3> QED BY <3>1, <3>2
    <2>4. \A o \in LockedSlots' : \A i \in DOMAIN refRing'[o] : IsKept(refRing'[o][i])
      BY <1>2, <1>7, <2>1 DEF PicturesKept
    <2> QED BY <1>2, <1>4, <2>2, <2>3, <2>4 DEF PicturesKept, IsKept
  <1>19. OutputIsExact'
    <2>1. OutputIsExact
      BY <1>1 DEF FlowKept
    <2>2. /\ iNumFrmBlk1 + 0 = Len(output) + ToOutput(mngr, Shown)
          /\ iNumFrmBlk1 \in Nat /\ Len(output) \in Nat
      <3>1. output \in Seq(Nat)
        BY <1>1, FlowFacts
      <3> QED BY <1>4, <2>1, <3>1, SlotsInUse, LenProperties DEF OutputIsExact
    <2>3. ToOutput(mngr, Shown) \in Int
      <3>1. mngr.dispFifo \in Seq(Frm)
        BY <1>1, FlowFacts
      <3>2. NumOutput(mngr.nodes) \in Nat /\ Len(mngr.dispFifo) \in Nat
        BY <1>3, <3>1, RefsType, LenProperties
      <3>3. Shown \in Nat
        BY DEF Shown
      <3> QED BY <3>2, <3>3 DEF ToOutput
    <2> QED BY <1>2, <1>4, <1>11, <2>2, <2>3 DEF OutputIsExact
  <1>20. FlowKept'
    <2>1. MngrInv(mngr, OtherFrm, OtherMv, user, Shown, NotDecoded)'
      BY <1>12
    <2> QED BY <2>1, <1>16, <1>17, <1>18, <1>19 DEF FlowKept
  <1>21. DpbHasRoom'
    <2>1. Len(mngr.nodes) <= uNumRef /\ (Now.idr => mngr.nodes = <<>>)
      BY <1>1, <1>2 DEF DpbHasRoom
    <2>2. Now.idr => Len(mngr.nodes) = 0
      BY <2>1
    <2>3. Len(mngr'.nodes) <= uNumRef + 1 /\ (Now.idr => Len(mngr'.nodes) <= 1)
      BY <1>15, <2>1, <2>2, FlowAssumption
    <2>4. ~Now.ref => NumRef(mngr'.nodes) <= uNumRef \/ Now.idr
      BY <1>6, <1>15, <2>1, FlowAssumption
    <2> QED BY <1>2, <1>4, <2>3, <2>4 DEF DpbHasRoom
  <1>22. FlushLeavesNothing'
    BY <1>2, <1>4 DEF FlushLeavesNothing, Flushing
  <1> QED BY <1>20, <1>21, <1>22, PictureParts

\* AL_LaunchFrameDecoding: the hardware writes the picture.
LEMMA LaunchKeeps ==
  ASSUME FlowInv, PictureInv, LaunchFrameDecoding
  PROVE  PictureInv'
  <1> DEFINE c == [frm |-> cur.frm, mv |-> cur.mv, pic |-> next]
  <1>1. FlowKept /\ DpbHasRoom
    BY PictureParts
  <1>2. /\ dpc = "launch" /\ dpc' = "parse" /\ next' = next + 1 /\ ~hasBeenFlushed'
        /\ inflight' = Append(inflight, c) /\ content' = [content EXCEPT ![cur.frm] = next]
        /\ iNumFrmBlk1' = iNumFrmBlk1 + 1
        /\ mngr' = mngr /\ cur' = cur
        /\ stream' = stream /\ refRing' = refRing
        /\ user' = user /\ output' = output /\ cpc' = cpc /\ iNumFrmBlk2' = iNumFrmBlk2
    BY DEF LaunchFrameDecoding
  <1>3. /\ inflight \in Seq(Reference) /\ refRing \in [Ring -> Seq(Reference)]
        /\ MngrInv(mngr, OtherFrm, OtherMv, user, Shown, NotDecoded)
        /\ OtherFrm \in [Frm -> Nat] /\ OtherMv \in [Annex -> Nat]
        /\ next \in Nat /\ mngr.nodes \in Seq(Node) /\ content \in [Frm -> Nat]
    BY <1>1, FlowFacts
  <1>4. /\ Reserved /\ HoldsFrame /\ RefsLocked /\ Inserted
        /\ ~Reserved' /\ ~HoldsFrame' /\ ~RefsLocked' /\ ~Inserted'
        /\ Shown' = Shown
    BY <1>2 DEF Reserved, HoldsFrame, RefsLocked, Inserted, Shown
  <1>5. cur.frm \in Frm /\ cur.mv \in Annex
    BY <1>1, <1>4, FlowFacts
  <1>6. c \in Reference /\ c.frm = cur.frm /\ c.mv = cur.mv
    BY <1>3, <1>5 DEF Reference
  <1> HIDE DEF c
  <1>7. LockedSlots' = LockedSlots /\ LockedSlots \in SUBSET Ring
    <2>1. iNumFrmBlk1 \in Nat /\ LockedSlots \in SUBSET Ring
      BY SlotsInUse
    <2>2. (iNumFrmBlk1 + 1) - 1 = iNumFrmBlk1
      BY <2>1
    <2> QED BY <1>2, <1>4, <2>1, <2>2 DEF LockedSlots, Offset
  <1>8. /\ cur.frm \notin FramesOf(inflight) /\ DistinctFrames(inflight)
        /\ \A s \in LockedSlots : cur.frm \notin FramesOf(refRing[s])
    BY <1>1, <1>4 DEF FlowKept, CurIsFresh
  <1>9. /\ inflight' \in Seq(Reference) /\ Grown(inflight, inflight', Len(inflight) + 1)
        /\ inflight'[Len(inflight) + 1] = c
    BY <1>2, <1>3, <1>6, AppendGrown
  <1>10. FramesOf(inflight') = FramesOf(inflight) \cup {cur.frm}
    BY <1>3, <1>6, <1>9, GrownElements
  <1>11. DistinctFrames(inflight')
    <2> DEFINE s == inflight
               t == inflight'
    <2>1. /\ Len(s) \in Nat /\ Len(t) = Len(s) + 1 /\ \A j \in 1 .. Len(s) : t[j] = s[j]
          /\ DOMAIN s = 1 .. Len(s) /\ DOMAIN t = 1 .. Len(t)
      BY <1>3, <1>9, LenProperties DEF Grown
    <2>2. s \in Seq(Reference) /\ DistinctFrames(s) /\ cur.frm \notin FramesOf(s)
          /\ t[Len(s) + 1].frm = cur.frm
      BY <1>3, <1>6, <1>8, <1>9
    <2> HIDE DEF s, t
    <2>3. ASSUME NEW i \in DOMAIN t, NEW j \in DOMAIN t, t[i].frm = t[j].frm PROVE i = j
      <3>1. CASE i \in DOMAIN s /\ j \in DOMAIN s
        BY <2>1, <2>2, <2>3, <3>1 DEF DistinctFrames
      <3>2. CASE i \in DOMAIN s /\ j \notin DOMAIN s
        <4>1. j = Len(s) + 1 /\ t[i] = s[i]
          BY <2>1, <3>2
        <4> QED BY <2>2, <2>3, <3>2, <4>1 DEF FramesOf
      <3>3. CASE i \notin DOMAIN s /\ j \in DOMAIN s
        <4>1. i = Len(s) + 1 /\ t[j] = s[j]
          BY <2>1, <3>3
        <4> QED BY <2>2, <2>3, <3>3, <4>1 DEF FramesOf
      <3>4. CASE i \notin DOMAIN s /\ j \notin DOMAIN s
        BY <2>1, <3>4
      <3> QED BY <3>1, <3>2, <3>3, <3>4
    <2>4. DistinctFrames(t)
      BY <2>3 DEF DistinctFrames
    <2> QED BY <2>4 DEF t
  <1>12. OtherFrm' = OtherFrm /\ OtherMv' = OtherMv
    <2>1. /\ OtherFrm' = FrmsOf(FALSE, cur, inflight', refRing, LockedSlots)
          /\ OtherMv' = MvsOf(FALSE, cur, inflight', refRing, LockedSlots)
          /\ OtherFrm = FrmsOf(TRUE, cur, inflight, refRing, LockedSlots)
          /\ OtherMv = MvsOf(TRUE, cur, inflight, refRing, LockedSlots)
      <3>1. /\ FrmsOf(HoldsFrame', cur', inflight', refRing', LockedSlots')
                 = FrmsOf(FALSE, cur, inflight', refRing, LockedSlots)
            /\ MvsOf(Reserved', cur', inflight', refRing', LockedSlots')
                 = MvsOf(FALSE, cur, inflight', refRing, LockedSlots)
            /\ FrmsOf(HoldsFrame, cur, inflight, refRing, LockedSlots)
                 = FrmsOf(TRUE, cur, inflight, refRing, LockedSlots)
            /\ MvsOf(Reserved, cur, inflight, refRing, LockedSlots)
                 = MvsOf(TRUE, cur, inflight, refRing, LockedSlots)
        BY <1>2, <1>4, <1>7 DEF FrmsOf, MvsOf
      <3> QED BY <3>1, OtherHolders
    <2>2. ASSUME NEW f \in Frm PROVE OtherFrm'[f] = OtherFrm[f]
      <3>1. FrmRefs(inflight, f) \in Nat
        BY <1>3, RefsType
      <3>2. FrmLocked(refRing, LockedSlots, f) \in Nat
        BY <1>3, <1>7, LockedPlaces
      <3>3. FrmRefs(inflight', f) = FrmRefs(inflight, f) + (IF cur.frm = f THEN 1 ELSE 0)
        BY <1>3, <1>6, <1>9, RefsGrown
      <3>4. /\ OtherFrm'[f] = 0 + FrmRefs(inflight', f) + FrmLocked(refRing, LockedSlots, f)
            /\ OtherFrm[f] = (IF cur.frm = f THEN 1 ELSE 0) + FrmRefs(inflight, f)
                             + FrmLocked(refRing, LockedSlots, f)
        BY <2>1 DEF FrmsOf
      <3> QED BY ONLY <3>1, <3>2, <3>3, <3>4
    <2>3. ASSUME NEW a \in Annex PROVE OtherMv'[a] = OtherMv[a]
      <3>1. MvRefs(inflight, a) \in Nat
        BY <1>3, RefsType
      <3>2. MvLocked(refRing, LockedSlots, a) \in Nat
        BY <1>3, <1>7, LockedPlaces
      <3>3. MvRefs(inflight', a) = MvRefs(inflight, a) + (IF cur.mv = a THEN 1 ELSE 0)
        BY <1>3, <1>6, <1>9, RefsGrown
      <3>4. /\ OtherMv'[a] = 0 + MvRefs(inflight', a) + MvLocked(refRing, LockedSlots, a)
            /\ OtherMv[a] = (IF cur.mv = a THEN 1 ELSE 0) + MvRefs(inflight, a)
                             + MvLocked(refRing, LockedSlots, a)
        BY <2>1 DEF MvsOf
      <3> QED BY ONLY <3>1, <3>2, <3>3, <3>4
    <2>4. OtherFrm' \in [Frm -> Nat] /\ OtherMv' \in [Annex -> Nat]
      BY <1>3, <1>7, <1>9, <2>1, HoldersTyped
    <2> QED BY <1>3, <2>2, <2>3, <2>4
  <1>13. NotDecoded' = NotDecoded
    <2>1. FramesOf(Undecoded') = FramesOf(Undecoded) \cup {cur.frm}
      <3>1. CASE cpc \in {"idle", "post"}
        <4>1. Undecoded = inflight /\ Undecoded' = inflight'
          BY <1>2, <3>1 DEF Undecoded
        <4> QED BY <1>10, <4>1
      <3>2. CASE cpc \notin {"idle", "post"}
        <4>1. inflight # <<>>
          BY <3>2 DEF FlowInv
        <4>2. /\ Tail(inflight') = Append(Tail(inflight), c) /\ Tail(inflight) \in Seq(Reference)
          BY <1>2, <1>3, <1>6, <4>1, HeadTailAppend, TailGrown
        <4>3. /\ Append(Tail(inflight), c) \in Seq(Reference)
              /\ Grown(Tail(inflight), Append(Tail(inflight), c), Len(Tail(inflight)) + 1)
              /\ Append(Tail(inflight), c)[Len(Tail(inflight)) + 1] = c
          BY <1>6, <4>2, AppendGrown
        <4>4. FramesOf(Append(Tail(inflight), c)) = FramesOf(Tail(inflight)) \cup {cur.frm}
          <5> DEFINE u == Tail(inflight)
                     t == Append(Tail(inflight), c)
          <5>1. u \in Seq(Reference) /\ t \in Seq(Reference) /\ Grown(u, t, Len(u) + 1)
                /\ t[Len(u) + 1] = c
            BY <4>2, <4>3
          <5> HIDE DEF u, t
          <5>2. FramesOf(t) = FramesOf(u) \cup {t[Len(u) + 1].frm}
            BY ONLY <5>1, GrownElements
          <5> QED BY <1>6, <5>1, <5>2 DEF u, t
        <4>5. Undecoded = Tail(inflight) /\ Undecoded' = Tail(inflight')
          BY <1>2, <3>2 DEF Undecoded
        <4> QED BY <4>2, <4>4, <4>5
      <3> QED BY <3>1, <3>2
    <2> QED BY <1>4, <2>1 DEF NotDecoded
  <1>14. MngrInv(mngr', OtherFrm', OtherMv', user', Shown', NotDecoded')
    BY <1>2, <1>3, <1>4, <1>12, <1>13
  <1>15. ThreadTypes'
    <2>1. ThreadTypes
      BY <1>1 DEF FlowKept
    <2>2. next + 1 \in Nat \ {0}
      BY <1>3
    <2>3. content' \in [Frm -> Nat]
      BY <1>2, <1>3
    <2> QED BY <1>2, <1>4, <1>9, <2>1, <2>2, <2>3 DEF ThreadTypes, HoldsFrame
  <1>16. CurIsFresh'
    BY <1>4, <1>11 DEF CurIsFresh, HoldsFrame
  <1>17. PicturesKept'
    <2>1. PicturesKept
      BY <1>1 DEF FlowKept
    <2>2. ASSUME NEW e, e.frm # cur.frm, e.frm \in Frm, e.pic \in Nat, IsKept(e)
          PROVE  content'[e.frm] = e.pic /\ e.pic < next'
      BY <1>2, <1>3, <2>2 DEF IsKept
    <2>3. ASSUME NEW i \in DOMAIN mngr.nodes
          PROVE  content'[mngr.nodes[i].frm] = mngr.nodes[i].pic /\ mngr.nodes[i].pic < next'
      <3>1. mngr.nodes[i].frm \in Frm /\ mngr.nodes[i].pic \in Nat
        BY <1>3, NodesTyped
      <3>2. IF mngr.nodes[i].frm = cur.frm
            THEN mngr.nodes[i].pic = next
            ELSE IsKept(mngr.nodes[i])
        BY <1>4, <2>1 DEF PicturesKept
      <3>3. CASE mngr.nodes[i].frm = cur.frm
        BY <1>2, <1>3, <1>5, <3>2, <3>3
      <3>4. CASE mngr.nodes[i].frm # cur.frm
        BY <2>2, <3>1, <3>2, <3>4
      <3> QED BY <3>3, <3>4
    <2>4. ASSUME NEW s \in LockedSlots, NEW i \in DOMAIN refRing[s]
          PROVE  content'[refRing[s][i].frm] = refRing[s][i].pic /\ refRing[s][i].pic < next'
      <3>1. refRing[s] \in Seq(Reference)
        BY <1>3, <1>7
      <3>2. refRing[s][i].frm \in Frm /\ refRing[s][i].pic \in Nat
        BY <3>1, ReferencesTyped
      <3>3. refRing[s][i].frm # cur.frm
        BY <1>8 DEF FramesOf
      <3>4. IsKept(refRing[s][i])
        BY <2>1 DEF PicturesKept
      <3> QED BY <2>2, <3>2, <3>3, <3>4
    <2> QED BY <1>2, <1>4, <1>7, <2>3, <2>4 DEF PicturesKept, IsKept
  <1>18. OutputIsExact'
    <2>1. OutputIsExact
      BY <1>1 DEF FlowKept
    <2>2. ToOutput(mngr', Shown') = ToOutput(mngr, Shown)
      BY <1>2, <1>4
    <2>3. iNumFrmBlk1 \in Nat
      BY SlotsInUse
    <2> QED BY <1>2, <1>4, <2>1, <2>2, <2>3 DEF OutputIsExact
  <1>19. FlowKept'
    <2>1. MngrInv(mngr, OtherFrm, OtherMv, user, Shown, NotDecoded)'
      BY <1>14
    <2> QED BY <2>1, <1>15, <1>16, <1>17, <1>18 DEF FlowKept
  <1>20. DpbHasRoom'
    BY <1>1, <1>2, RoomLeft
  <1>21. FlushLeavesNothing'
    BY <1>2 DEF FlushLeavesNothing, Flushing
  <1> QED BY <1>19, <1>20, <1>21, PictureParts

---------------------------------------------------------------------------
(* The invariant *)

\* At the start every buffer is available and nothing refers to one.
LEMMA PictureInvInit == FlowInit /\ FlowInv => PictureInv
  <1> SUFFICES ASSUME FlowInit, FlowInv PROVE PictureInv
    OBVIOUS
  <1> DEFINE zeroF == [f \in Frm |-> 0]
             zeroA == [a \in Annex |-> 0]
  <1>1. /\ mngr.iAccessCnt = zeroF /\ mngr.bToBeDisplayed = [f \in Frm |-> FALSE]
        /\ mngr.avail = [i \in Frm |-> i] /\ mngr.mvAccessCnt = zeroA
        /\ mngr.mvFree = [i \in Annex |-> i]
        /\ mngr.pFrmStatus = [f \in Frm |-> "not_needed"]
        /\ mngr.nodes = <<>> /\ mngr.dispFifo = <<>> /\ mngr.deleted = <<>>
        /\ mngr = [iAccessCnt |-> mngr.iAccessCnt, bToBeDisplayed |-> mngr.bToBeDisplayed,
                   avail |-> mngr.avail, mvAccessCnt |-> mngr.mvAccessCnt,
                   mvFree |-> mngr.mvFree, pFrmStatus |-> mngr.pFrmStatus,
                   nodes |-> mngr.nodes, dispFifo |-> mngr.dispFifo, deleted |-> mngr.deleted]
    BY DEF FlowInit
  <1>2. /\ iNumFrmBlk1 = 0 /\ iNumFrmBlk2 = 0 /\ refRing = [o \in Ring |-> <<>>]
        /\ inflight = <<>> /\ dpc = "parse" /\ cur = [frm |-> 0, mv |-> 0] /\ ~hasBeenFlushed
        /\ cpc = "idle" /\ stream \in Streams /\ next = 1 /\ user = {}
        /\ content = zeroF /\ output = <<>>
    BY DEF FlowInit
  <1>3. /\ <<>> \in Seq(Node) /\ <<>> \in Seq(Entry) /\ <<>> \in Seq(Frm)
        /\ <<>> \in Seq(Reference) /\ <<>> \in Seq(Nat)
        /\ Len(<<>>) = 0 /\ DOMAIN <<>> = {} /\ FramesOf(<<>>) = {} /\ Range(<<>>) = {}
    BY EmptySeq DEF FramesOf, Range
  <1>4. /\ ~Reserved /\ ~HoldsFrame /\ ~Inserted /\ ~RefsLocked /\ ~Flushing
        /\ Shown = 0 /\ Undecoded = <<>>
    BY <1>2 DEF Reserved, HoldsFrame, Inserted, RefsLocked, Flushing, Shown, Undecoded
  <1>5. NotDecoded = {}
    BY <1>3, <1>4 DEF NotDecoded
  <1>6. LockedSlots = {}
    BY <1>2, <1>4 DEF LockedSlots
  <1>7. OtherFrm = zeroF /\ OtherMv = zeroA
    <2>1. /\ OtherFrm = FrmsOf(FALSE, cur, <<>>, refRing, {})
          /\ OtherMv = MvsOf(FALSE, cur, <<>>, refRing, {})
      <3>1. /\ FrmsOf(HoldsFrame, cur, inflight, refRing, LockedSlots)
                 = FrmsOf(FALSE, cur, <<>>, refRing, {})
            /\ MvsOf(Reserved, cur, inflight, refRing, LockedSlots)
                 = MvsOf(FALSE, cur, <<>>, refRing, {})
        BY <1>2, <1>4, <1>6 DEF FrmsOf, MvsOf
      <3> QED BY <3>1, OtherHolders
    <2>2. \A f : FrmRefs(<<>>, f) = 0 /\ MvRefs(<<>>, f) = 0
      BY <1>3, RefsType
    <2>3. \A f : FrmLocked(refRing, {}, f) = 0 /\ MvLocked(refRing, {}, f) = 0
      <3>1. \A f : {{o} \X {i \in DOMAIN refRing[o] : refRing[o][i].frm = f} : o \in {}} = {}
        OBVIOUS
      <3>2. \A f : {{o} \X {i \in DOMAIN refRing[o] : refRing[o][i].mv = f} : o \in {}} = {}
        OBVIOUS
      <3>3. UNION {} = {} /\ Cardinality({}) = 0
        BY FS_EmptySet
      <3> QED BY <3>1, <3>2, <3>3 DEF FrmLocked, MvLocked
    <2> QED BY <2>1, <2>2, <2>3 DEF FrmsOf, MvsOf
  <1>8. MngrInv(mngr, zeroF, zeroA, {}, 0, {})
    <2>1. NumFrm \in Nat /\ NumAnnex \in Nat
      BY FlowAssumption
    <2>2. /\ mngr.avail \in Seq(Frm) /\ mngr.mvFree \in Seq(Annex)
          /\ DOMAIN mngr.avail = Frm /\ DOMAIN mngr.mvFree = Annex
          /\ \A i \in Frm : mngr.avail[i] = i
          /\ \A i \in Annex : mngr.mvFree[i] = i
      BY <1>1, <2>1, FunctionIsSeq DEF Frm, Annex
    <2>3. /\ mngr.iAccessCnt \in [Frm -> Nat \cup {-1}] /\ mngr.mvAccessCnt \in [Annex -> Nat]
          /\ mngr.bToBeDisplayed \in [Frm -> BOOLEAN]
          /\ mngr.pFrmStatus \in [Frm -> {"not_ready", "ready", "not_needed"}]
      BY <1>1
    <2>4. mngr \in PictMngrs
      BY <1>1, <1>3, <2>2, <2>3 DEF PictMngrs
    <2>5. \A f : DpbFrm(mngr, f) = 0 /\ DpbMv(mngr, f) = 0
      <3>1. \A f : FrmRefs(<<>>, f) = 0 /\ MvRefs(<<>>, f) = 0 /\ FifoRefs(<<>>, f) = 0
        BY <1>3, RefsType
      <3> QED BY <1>1, <3>1 DEF DpbFrm, DpbMv
    <2>6. Counted(mngr, zeroF, zeroA)
      BY <1>1, <2>5 DEF Counted
    <2>7. AvailableIsFree(mngr)
      BY <1>1, <2>2 DEF AvailableIsFree, IsInjective
    <2>8. UserIsKnown(mngr, {})
      BY DEF UserIsKnown
    <2>9. QueuedOnce(mngr, {}, 0) /\ StatusIsKnown(mngr, {}, 0, {})
      BY <1>1, <1>3 DEF QueuedOnce, StatusIsKnown, DistinctFrames, IsInjective
    <2> QED BY <2>4, <2>6, <2>7, <2>8, <2>9 DEF MngrInv
  <1>9. ThreadTypes
    BY <1>2, <1>3, <1>4 DEF ThreadTypes
  <1>10. CurIsFresh
    BY <1>2, <1>3, <1>4 DEF CurIsFresh, HoldsFrame, DistinctFrames
  <1>11. PicturesKept
    BY <1>1, <1>3, <1>6 DEF PicturesKept
  <1>12. OutputIsExact
    <2>1. NumOutput(<<>>) = 0
      BY <1>3, RefsType
    <2>2. ToOutput(mngr, Shown) = 0
      BY <1>1, <1>3, <1>4, <2>1 DEF ToOutput
    <2> QED BY <1>2, <1>3, <1>4, <2>2 DEF OutputIsExact
  <1>13. DpbHasRoom
    BY <1>1, <1>2, <1>3, FlowAssumption DEF DpbHasRoom
  <1>14. FlushLeavesNothing
    BY <1>2, <1>4 DEF FlushLeavesNothing, Flushing
  <1>15. MngrInv(mngr, OtherFrm, OtherMv, user, Shown, NotDecoded)
    BY <1>2, <1>4, <1>5, <1>7, <1>8
  <1> QED BY <1>9, <1>10, <1>11, <1>12, <1>13, <1>14, <1>15 DEF PictureInv

\* Every step of the threads and of the application keeps the invariant.
LEMMA PictureInvStep == FlowInv /\ PictureInv /\ [FlowNext]_flowVars => PictureInv'
  <1> SUFFICES ASSUME FlowInv, PictureInv, [FlowNext]_flowVars PROVE PictureInv'
    OBVIOUS
  <1>1. CASE ReserveStart \/ BeginFrame \/ BeginFrameFails \/ GetAnnex \/ InitRefBuffers
    BY <1>1, ReserveStartKeeps, BeginFrameKeeps, BeginFrameFailsKeeps, GetAnnexKeeps,
       InitRefBuffersKeeps
  <1>2. CASE CancelFrame \/ LaunchFrameDecoding
    BY <1>2, CancelFrameKeeps, LaunchKeeps
  <1>3. CASE UpdatePictManager
    <2> DEFINE node == [frm |-> cur.frm, mv |-> cur.mv, pic |-> next,
                        iFramePOC |-> Now.poc, isRef |-> Now.ref \/ Now.idr,
                        bPicOutputFlag |-> TRUE]
    <2>1. \/ Update("flushDpb", "endParsing", Flush(mngr))
          \/ Update("endParsing", "insert", EndParsing(mngr, Now.poc))
          \/ Update("insert", "cleanup", Insert(mngr, node))
          \/ Update("cleanup", "launch",
                    AVC_Cleanup(IF Now.ref /\ ~Now.idr THEN SlidingWindowMarking(mngr) ELSE mngr))
      BY <1>3 DEF UpdatePictManager
    <2>2. Update("insert", "cleanup", Insert(mngr, node)) => PictureInv'
      BY InsertKeeps
    <2> HIDE DEF node
    <2> QED BY <2>1, <2>2, IdrFlushKeeps, EndParsingKeeps, CleanupKeeps
  <1>4. CASE StartFlush \/ Leave \/ WaitFrameSent \/ AllFramesSent \/ DecoderDisplays
             \/ Terminate \/ AnnexesTerminated
    BY <1>4, FlushBeginsKeeps, AllFramesSentKeeps, DecoderDisplaysKeeps, TerminateKeeps,
       AnnexesTerminatedKeeps
  <1>5. CASE CallbackThread
    BY <1>5, PictureDecodedKeeps, ReferencesUnlockedKeeps, CallbackDisplaysKeeps,
       PictureUnlockedKeeps, SemReleasedKeeps DEF CallbackThread
  <1>6. CASE \E b \in Frm : PutDisplayPicture(b)
    BY <1>6, PutDisplayPictureKeeps
  <1>7. CASE Destroy \/ Exited \/ UNCHANGED flowVars
    <2>1. UNCHANGED <<mngr, cntVars, refRing, inflight, decVars, cpc, stream, user, ghosts>>
      BY <1>7 DEF Destroy, Exited, flowVars
    <2> QED BY <2>1, StillStep
  <1> QED BY <1>1, <1>2, <1>3, <1>4, <1>5, <1>6, <1>7 DEF FlowNext, DecoderThread

---------------------------------------------------------------------------
(* What follows from it *)

\* The holders that the property counts are those of the invariant.
LEMMA HoldersCounted ==
  ASSUME FlowKept, LockedSlots \in SUBSET Ring
  PROVE  /\ \A f \in Frm : HoldersOfFrm(f) = OtherFrm[f] + DpbFrm(mngr, f)
         /\ \A a \in Annex : HoldersOfAnnex(a) = OtherMv[a] + DpbMv(mngr, a)
  <1>1. /\ mngr \in PictMngrs /\ mngr.nodes \in Seq(Node) /\ mngr.deleted \in Seq(Entry)
        /\ mngr.dispFifo \in Seq(Frm) /\ inflight \in Seq(Reference)
        /\ refRing \in [Ring -> Seq(Reference)]
    BY FlowFacts
  <1>2. ASSUME NEW f \in Frm PROVE HoldersOfFrm(f) = OtherFrm[f] + DpbFrm(mngr, f)
    <2>1. /\ FrmRefs(inflight, f) \in Nat /\ FrmRefs(mngr.nodes, f) \in Nat
          /\ FrmRefs(mngr.deleted, f) \in Nat /\ FifoRefs(mngr.dispFifo, f) \in Nat
      BY <1>1, RefsType
    <2>2. FrmLocked(refRing, LockedSlots, f) \in Nat
      BY <1>1, LockedPlaces
    <2>3. HoldersOfFrm(f)
            = (IF HoldsFrame /\ cur.frm = f THEN 1 ELSE 0) + FrmRefs(inflight, f)
              + FrmRefs(mngr.nodes, f) + FrmRefs(mngr.deleted, f) + FifoRefs(mngr.dispFifo, f)
              + FrmLocked(refRing, LockedSlots, f)
      BY DEF HoldersOfFrm, HoldsFrame, FrmRefs, FifoRefs, InLockedLists, FrmLocked
    <2>4. OtherFrm[f] = (IF HoldsFrame /\ cur.frm = f THEN 1 ELSE 0) + FrmRefs(inflight, f)
                        + FrmLocked(refRing, LockedSlots, f)
      BY OtherHolders DEF FrmsOf
    <2>5. DpbFrm(mngr, f) = FrmRefs(mngr.nodes, f) + FrmRefs(mngr.deleted, f)
                            + FifoRefs(mngr.dispFifo, f)
      BY DEF DpbFrm
    <2> QED BY ONLY <2>1, <2>2, <2>3, <2>4, <2>5
  <1>3. ASSUME NEW a \in Annex PROVE HoldersOfAnnex(a) = OtherMv[a] + DpbMv(mngr, a)
    <2>1. /\ MvRefs(inflight, a) \in Nat /\ MvRefs(mngr.nodes, a) \in Nat
          /\ MvRefs(mngr.deleted, a) \in Nat
      BY <1>1, RefsType
    <2>2. MvLocked(refRing, LockedSlots, a) \in Nat
      BY <1>1, LockedPlaces
    <2>3. HoldersOfAnnex(a)
            = (IF Reserved /\ cur.mv = a THEN 1 ELSE 0) + MvRefs(inflight, a)
              + MvRefs(mngr.nodes, a) + MvRefs(mngr.deleted, a)
              + MvLocked(refRing, LockedSlots, a)
      BY DEF HoldersOfAnnex, MvRefs, InLockedLists, MvLocked
    <2>4. OtherMv[a] = (IF Reserved /\ cur.mv = a THEN 1 ELSE 0) + MvRefs(inflight, a)
                       + MvLocked(refRing, LockedSlots, a)
      BY OtherHolders DEF MvsOf
    <2>5. DpbMv(mngr, a) = MvRefs(mngr.nodes, a) + MvRefs(mngr.deleted, a)
      BY DEF DpbMv
    <2> QED BY ONLY <2>1, <2>2, <2>3, <2>4, <2>5
  <1> QED BY <1>2, <1>3

\* The counts of the two pools are the references somebody holds.
LEMMA CountsFollow ==
  ASSUME FlowInv, PictureInv PROVE CountsAreExact
  <1>1. FlowKept /\ LockedSlots \in SUBSET Ring
    BY PictureParts, SlotsInUse
  <1>2. Counted(mngr, OtherFrm, OtherMv)
    BY <1>1 DEF FlowKept, MngrInv
  <1> QED BY <1>1, <1>2, HoldersCounted DEF Counted, CountsAreExact

\* The types, the depth of the DPB and the number of pictures in flight.
LEMMA TypesFollow ==
  ASSUME FlowInv, PictureInv PROVE TypeOK
  <1>1. FlowKept /\ DpbHasRoom
    BY PictureParts
  <1>2. mngr \in PictMngrs /\ user \subseteq Frm
    BY <1>1 DEF FlowKept, MngrInv, UserIsKnown
  <1>3. /\ mngr.iAccessCnt \in [Frm -> Nat \cup {-1}]
        /\ mngr.bToBeDisplayed \in [Frm -> BOOLEAN]
        /\ mngr.avail \in Seq(Frm) /\ mngr.mvFree \in Seq(Annex)
        /\ mngr.mvAccessCnt \in [Annex -> Nat]
    BY <1>2 DEF PictMngrs
  <1>4. Sem \in 0 .. iStackSize /\ taken \in 0 .. iStackSize /\ Len(inflight) <= iStackSize
    <2>1. /\ Sem \in Nat /\ taken \in Nat /\ Len(inflight) \in Nat /\ iStackSize \in Nat
      BY EmptyQueue, FlowAssumption DEF FlowInv, FlowTypes
    <2>2. Sem + taken + Len(inflight) + (IF HoldsToken THEN 1 ELSE 0)
            + (IF cpc = "post" THEN 1 ELSE 0) = iStackSize
      BY DEF FlowInv, TokensConserved
    <2> QED BY <2>1, <2>2
  <1>5. Len(mngr.nodes) <= IF dpc = "cleanup" THEN uNumRef + 1 ELSE uNumRef
    BY <1>1 DEF DpbHasRoom
  <1> QED BY <1>2, <1>3, <1>4, <1>5 DEF TypeOK

\* Nothing is written where somebody still reads.
LEMMA PicturesFollow ==
  ASSUME FlowInv, PictureInv PROVE NoOverwrite
  <1> DEFINE undecoded == IF cpc \in {"idle", "post"} THEN inflight ELSE Tail(inflight)
             last == IF dpc = "annex" \/ Reserved THEN <<cur>> ELSE <<>>
             written == undecoded \o last
  <1>1. FlowKept
    BY PictureParts
  <1>2. PicturesKept /\ CurIsFresh
    BY <1>1 DEF FlowKept
  <1>3. NotDecoded \cap user = {}
    BY <1>1 DEF FlowKept, MngrInv, StatusIsKnown
  <1>4. undecoded = Undecoded
    BY DEF Undecoded
  <1>5. /\ Undecoded \in Seq(Reference) /\ DistinctFrames(Undecoded)
        /\ FramesOf(Undecoded) \subseteq FramesOf(inflight)
        /\ FramesOf(Undecoded) \subseteq NotDecoded
    <2>1. CASE cpc \in {"idle", "post"}
      BY <1>1, <1>2, <2>1, FlowFacts DEF Undecoded, CurIsFresh, NotDecoded
    <2>2. CASE cpc \notin {"idle", "post"}
      <3>1. inflight # <<>>
        BY <2>2 DEF FlowInv
      <3> QED BY <1>1, <2>2, <3>1, FirstInFlight DEF Undecoded, NotDecoded
    <2> QED BY <2>1, <2>2
  <1>6. /\ HoldsFrame => cur.frm \notin FramesOf(Undecoded) /\ cur.frm \notin user
        /\ HoldsFrame => last = <<cur>>
        /\ ~HoldsFrame => last = <<>>
    BY <1>2, <1>3, <1>5 DEF CurIsFresh, HoldsFrame, NotDecoded, Inserted, Reserved
  <1> HIDE DEF undecoded, last
  <1>7. ASSUME NEW i \in DOMAIN written
        PROVE  \/ i \in DOMAIN Undecoded /\ written[i] = Undecoded[i]
               \/ HoldsFrame /\ i = Len(Undecoded) + 1 /\ written[i] = cur
    <2> DEFINE T == Reference \cup {cur}
    <2>1. Undecoded \in Seq(T) /\ last \in Seq(T)
      <3>1. Undecoded \in Seq(T)
        BY <1>5, SeqMonotonic
      <3>2. <<cur>> \in Seq(T) /\ <<>> \in Seq(T)
        BY EmptySeq
      <3> QED BY <1>6, <3>1, <3>2
    <2>2. /\ Len(last) = IF HoldsFrame THEN 1 ELSE 0
          /\ HoldsFrame => last[1] = cur
      BY <1>6, EmptySeq
    <2> HIDE DEF T
    <2>3. /\ Undecoded \o last \in Seq(T)
          /\ Len(Undecoded \o last) = Len(Undecoded) + Len(last)
          /\ \A k \in 1 .. Len(Undecoded) + Len(last) : (Undecoded \o last)[k] =
                IF k <= Len(Undecoded) THEN Undecoded[k] ELSE last[k - Len(Undecoded)]
      BY ONLY <2>1, ConcatProperties
    <2>4. /\ DOMAIN Undecoded = 1 .. Len(Undecoded) /\ Len(Undecoded) \in Nat
          /\ DOMAIN written = 1 .. Len(Undecoded) + Len(last)
      BY <1>4, <2>1, <2>3, LenProperties
    <2>5. /\ i \in 1 .. Len(Undecoded) + Len(last)
          /\ written[i] = IF i <= Len(Undecoded) THEN Undecoded[i] ELSE last[i - Len(Undecoded)]
      BY <1>4, <2>3, <2>4
    <2> QED BY <2>2, <2>4, <2>5
  <1> HIDE DEF written
  <1>8. ASSUME NEW i \in DOMAIN written, NEW j \in DOMAIN written,
               written[i].frm = written[j].frm
        PROVE  i = j
    <2>1. CASE i \in DOMAIN Undecoded /\ j \in DOMAIN Undecoded
               /\ written[i] = Undecoded[i] /\ written[j] = Undecoded[j]
      BY <1>5, <1>8, <2>1 DEF DistinctFrames
    <2>2. ASSUME NEW k \in DOMAIN Undecoded, HoldsFrame, Undecoded[k].frm = cur.frm
          PROVE  FALSE
      BY <1>6, <2>2 DEF FramesOf
    <2> QED BY <1>7, <1>8, <2>1, <2>2
  <1>9. \A i \in DOMAIN written : written[i].frm \notin user
    <2>1. \A k \in DOMAIN Undecoded : Undecoded[k].frm \notin user
      BY <1>3, <1>5 DEF FramesOf
    <2> QED BY <1>6, <1>7, <2>1
  <1>10. ASSUME NEW i \in DOMAIN mngr.nodes
         PROVE  \/ content[mngr.nodes[i].frm] = mngr.nodes[i].pic
                \/ Reserved /\ mngr.nodes[i].pic = next
    BY <1>2 DEF PicturesKept, IsKept, Inserted, Reserved
  <1>11. \A o \in LockedSlots : \A i \in DOMAIN refRing[o] :
            content[refRing[o][i].frm] = refRing[o][i].pic
    BY <1>2 DEF PicturesKept, IsKept
  <1> QED BY <1>8, <1>9, <1>10, <1>11 DEF NoOverwrite, written, undecoded, last

\* A flush leaves nothing of the sequence behind.
LEMMA FlushFollows ==
  ASSUME FlowInv, PictureInv PROVE FlushIsComplete
  <1> SUFFICES ASSUME dpc \in {"parse", "exited"}, hasBeenFlushed
               PROVE  /\ Len(output) = iNumFrmBlk1
                      /\ mngr.nodes = <<>> /\ mngr.dispFifo = <<>> /\ mngr.deleted = <<>>
                      /\ \A f \in Frm : mngr.iAccessCnt[f] <= 0
                      /\ \A a \in Annex : mngr.mvAccessCnt[a] = 0
    BY DEF FlushIsComplete
  <1>1. FlowKept /\ FlushLeavesNothing
    BY PictureParts
  <1>2. ~Inserted /\ ~Reserved /\ ~HoldsFrame /\ ~RefsLocked
    BY DEF Inserted, Reserved, HoldsFrame, RefsLocked
  <1>3. /\ mngr.nodes = <<>> /\ mngr.dispFifo = <<>> /\ mngr.deleted = <<>>
        /\ inflight = <<>> /\ cpc = "idle"
    BY <1>1, <1>2 DEF FlushLeavesNothing
  <1>4. /\ <<>> \in Seq(Node) /\ <<>> \in Seq(Frm)
        /\ Len(<<>>) = 0 /\ DOMAIN <<>> = {} /\ FramesOf(<<>>) = {} /\ Range(<<>>) = {}
    BY EmptySeq DEF FramesOf, Range
  <1>5. /\ iNumFrmBlk1 = iNumFrmBlk2 /\ iNumFrmBlk1 \in Nat
    <2>1. ~Finished
      BY <1>3 DEF Finished
    <2> QED BY <1>3, <1>4, <2>1, SlotsInUse DEF FlowInv, CountersAgree
  <1>6. LockedSlots = {} /\ LockedSlots \in SUBSET Ring
    <2>1. iNumFrmBlk2 .. (iNumFrmBlk1 - 1) = {}
      BY <1>5
    <2> QED BY <1>2, <2>1 DEF LockedSlots
  <1>7. /\ \A f : FrmRefs(<<>>, f) = 0 /\ MvRefs(<<>>, f) = 0 /\ FifoRefs(<<>>, f) = 0
        /\ NumOutput(<<>>) = 0
    <2>1. \A f : FrmRefs(<<>>, f) = 0 /\ MvRefs(<<>>, f) = 0 /\ FifoRefs(<<>>, f) = 0
      BY ONLY <1>4, RefsType
    <2>2. NumOutput(<<>>) = 0
      BY ONLY <1>4, RefsType
    <2> QED BY <2>1, <2>2
  <1>8. /\ \A f : FrmLocked(refRing, {}, f) = 0
        /\ \A a : MvLocked(refRing, {}, a) = 0
    <2>1. \A f : {{o} \X {i \in DOMAIN refRing[o] : refRing[o][i].frm = f} : o \in {}} = {}
      OBVIOUS
    <2>2. \A f : {{o} \X {i \in DOMAIN refRing[o] : refRing[o][i].mv = f} : o \in {}} = {}
      OBVIOUS
    <2>3. UNION {} = {} /\ Cardinality({}) = 0
      BY FS_EmptySet
    <2> QED BY <2>1, <2>2, <2>3 DEF FrmLocked, MvLocked
  <1>9. /\ \A f \in Frm : OtherFrm[f] = 0
        /\ \A a \in Annex : OtherMv[a] = 0
    BY <1>2, <1>3, <1>6, <1>7, <1>8, OtherHolders DEF FrmsOf, MvsOf
  <1>10. \A f : DpbFrm(mngr, f) = 0 /\ DpbMv(mngr, f) = 0
    BY <1>3, <1>7 DEF DpbFrm, DpbMv
  <1>11. Counted(mngr, OtherFrm, OtherMv)
    BY <1>1 DEF FlowKept, MngrInv
  <1>12. /\ \A f \in Frm : mngr.iAccessCnt[f] <= 0
         /\ \A a \in Annex : mngr.mvAccessCnt[a] = 0
    BY <1>9, <1>10, <1>11 DEF Counted
  <1>13. Len(output) = iNumFrmBlk1
    <2>1. Shown = 0
      BY <1>3 DEF Shown
    <2>2. ToOutput(mngr, Shown) = 0
      BY <1>3, <1>4, <1>7, <2>1 DEF ToOutput
    <2>3. Len(output) \in Nat
      BY <1>1, FlowFacts, LenProperties
    <2> QED BY <1>1, <1>2, <1>5, <2>2, <2>3 DEF FlowKept, OutputIsExact
  <1> QED BY <1>3, <1>12, <1>13

---------------------------------------------------------------------------
(* The theorems *)

\* The counts, the buffers, the pictures, the room of the DPB and the number
\* of pictures displayed agree in every state of every stream.
THEOREM PictureInvariant == FlowSpec => []PictureInv
  <1>1. FlowInit => FlowInv /\ PictureInv
    BY FlowInvInit, PictureInvInit
  <1>2. FlowInv /\ PictureInv /\ [FlowNext]_flowVars => (FlowInv /\ PictureInv)'
    BY FlowInvStep, PictureInvStep
  <1> QED BY <1>1, <1>2, PTL DEF FlowSpec

\* The counts of the two pools are exactly the references somebody holds
\* (AL_PictMngr_LockRefID, AL_PictMngr_UnlockRefID, AL_PictMngr_UnlockID).
THEOREM CountsStayExact == FlowSpec => []CountsAreExact
  <1>1. FlowInv /\ PictureInv => CountsAreExact
    BY CountsFollow
  <1> QED BY <1>1, TokenInvariant, PictureInvariant, PTL

\* The types; the DPB never has more than one node above uNumRef, and never
\* more pictures are in flight than the stack has places.
THEOREM FlowTypesAreKept == FlowSpec => []TypeOK
  <1>1. FlowInv /\ PictureInv => TypeOK
    BY TypesFollow
  <1> QED BY <1>1, TokenInvariant, PictureInvariant, PTL

\* Nothing is written where somebody still reads: not the application, not a
\* picture in flight, not the DPB.
THEOREM NothingIsOverwritten == FlowSpec => []NoOverwrite
  <1>1. FlowInv /\ PictureInv => NoOverwrite
    BY PicturesFollow
  <1> QED BY <1>1, TokenInvariant, PictureInvariant, PTL

\* After AL_Default_Decoder_InternalFlush every picture sent was displayed and
\* nothing of the sequence is left.
THEOREM FlushesAreComplete == FlowSpec => []FlushIsComplete
  <1>1. FlowInv /\ PictureInv => FlushIsComplete
    BY FlushFollows
  <1> QED BY <1>1, TokenInvariant, PictureInvariant, PTL
=============================================================================
