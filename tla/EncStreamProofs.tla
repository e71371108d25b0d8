-------------------------- MODULE EncStreamProofs --------------------------
(***************************************************************************)
(* The stream of EncFlow: the driver gives the stream buffers back in the  *)
(* order it was given them, and the encoder references each one as long as *)
(* it has it (EncInvariant: EncStreams); a decoder of what is in them has  *)
(* the headers of every frame (EncInvariant: EncDecoder).                  *)
(***************************************************************************)
EXTENDS EncIdProofs

---------------------------------------------------------------------------
(* The end of the stream *)

\* While the application still has a stream buffer to put for the first time
\* no frame has been pushed.
LEMMA PutsBeforeFrames ==
  ASSUME EncTypes, FramesAgree,
         NEW i \in DOMAIN program, program[i].op = "put", i >= next
  PROVE  /\ ~Busy
         /\ apc # "destroyed" => \A j \in DOMAIN hw.status : hw.status[j] = EndOfStreamStatus
  <1>1. PutsFirst(program) /\ program \in Seq(Calls) /\ DOMAIN program \subseteq Nat
        /\ next \in Nat
    BY StreamAssumption, EncAssumption, LenProperties DEF EncTypes, ThreadsAgree
  <1>2. \A n \in DOMAIN program : program[n].op = "frame" => n > i
    BY <1>1 DEF PutsFirst
  <1>3. ~Busy
    BY <1>1, <1>2 DEF FramesAgree, GivingAgrees
  <1>4. ASSUME NEW p, HasSlot(p) PROVE FALSE
    <2>1. PICK s \in Sent : SourceSent[s] = <<p.frame, p.info>> /\ p.frame < next
      BY <1>4 DEF HasSlot, HeldBy
    <2>2. FrameOf(s) = p.frame /\ FrameOf(s) \in DOMAIN program
          /\ program[FrameOf(s)].op = "frame"
      BY <2>1 DEF FrameOf, FramesAgree, SlotsAgree
    <2> QED BY <1>1, <1>2, <2>1, <2>2
  <1> QED BY <1>3, <1>4 DEF FramesAgree, PartsHeld

\* The statuses of q that are parts, if the end of the stream is last.
Waiting(q) == IF q # <<>> /\ Last(q) = EndOfStreamStatus THEN Len(q) - 1 ELSE Len(q)
IsEos(q, i) == q[i] = EndOfStreamStatus
LEMMA WaitingIs ==
  ASSUME NEW S, NEW q \in Seq(S), \A i \in DOMAIN q : IsEos(q, i) => i = Len(q)
  PROVE  /\ Waiting(q) \in Nat
         /\ (\A i \in DOMAIN q : ~IsEos(q, i)) => Waiting(q) = Len(q)
         /\ (\E i \in DOMAIN q : IsEos(q, i)) => Waiting(q) = Len(q) - 1
         /\ \A k \in 1 .. Waiting(q) : k \in DOMAIN q /\ ~IsEos(q, k)
  <1>1. DOMAIN q = 1 .. Len(q) /\ Len(q) \in Nat /\ (q = <<>> <=> Len(q) = 0)
    BY LenProperties, EmptySeq
  <1>2. Last(q) = q[Len(q)]
    BY DEF Last
  <1>3. CASE \A i \in DOMAIN q : ~IsEos(q, i)
    <2>1. q # <<>> => Last(q) # EndOfStreamStatus
      BY <1>1, <1>2, <1>3 DEF IsEos
    <2>2. Waiting(q) = Len(q)
      BY <2>1 DEF Waiting
    <2> QED BY <1>1, <1>3, <2>2
  <1>4. CASE \E i \in DOMAIN q : IsEos(q, i)
    <2>1. q # <<>> /\ IsEos(q, Len(q)) /\ Len(q) > 0
      BY <1>1, <1>4
    <2>2. Last(q) = EndOfStreamStatus
      BY <1>2, <2>1 DEF IsEos
    <2>3. Waiting(q) = Len(q) - 1
      BY <2>1, <2>2 DEF Waiting
    <2>4. \A k \in 1 .. Len(q) - 1 : k \in DOMAIN q /\ ~IsEos(q, k)
      BY <1>1
    <2>5. Waiting(q) \in Nat /\ ~(\A i \in DOMAIN q : ~IsEos(q, i))
      BY <1>1, <1>4, <2>1, <2>3
    <2>6. \A k \in 1 .. Waiting(q) : k \in DOMAIN q /\ ~IsEos(q, k)
      BY <2>3, <2>4
    <2> QED BY <2>3, <2>5, <2>6
  <1> QED BY <1>3, <1>4

\* The firmware encodes a part of a frame it has.
LEMMA HasWork ==
  ASSUME EncodePart PROVE hw.jobs # <<>> \/ hw.busy # <<>>
  <1>1. hw.busy # <<>> \/ \E i \in DOMAIN hw.jobs : TRUE
    BY DEF EncodePart
  <1> QED BY <1>1

LEMMA PartIsNotEos == \A p \in PartSet : p # EndOfStreamStatus
  <1>1. EndOfStreamStatus.info \notin InfoID
    BY Ranges DEF EndOfStreamStatus
  <1> QED BY <1>1 DEF PartSet

LEMMA EosStep ==
  ASSUME EncTypes, EosOnce, [EncNext]_encVars
  PROVE  EosOnce'
  <1> DEFINE E == EndOfStreamStatus
  <1>1. /\ hw.status \in Seq(PartSet \cup {E}) /\ hw \in HwSet
        /\ EosIsLast
    BY DEF EncTypes, EncVarTypes, HwSet, EosOnce
  <1>2. CASE EncodePart
    <2>1. /\ hw'.eos = hw.eos /\ chan' = chan /\ apc' = apc
          /\ hw.jobs # <<>> \/ hw.busy # <<>>
          /\ \E p \in PartSet : hw'.status = Append(hw.status, p)
      <3>1. PICK job \in JobSet, first \in BOOLEAN, e \in BOOLEAN :
                /\ hw'.status = Append(hw.status, Status(job, first, e)) /\ hw'.eos = hw.eos
                /\ Status(job, first, e) \in PartSet
        BY <1>2, PartEncoded
      <3>2. hw.jobs # <<>> \/ hw.busy # <<>>
        BY <1>2, HasWork
      <3> QED BY <1>2, <3>1, <3>2 DEF EncodePart, appVars
    <2>2. \A i \in DOMAIN hw.status : hw.status[i] # E
      BY <1>1, <2>1 DEF EosIsLast
    <2>3. \A i \in DOMAIN hw'.status : hw'.status[i] # E
      BY <1>1, <2>1, <2>2, AppendPlaces, PartIsNotEos
    <2> QED BY <2>1, <2>3 DEF EosOnce, EosIsLast
  <1>3. CASE ReportEos
    <2>1. /\ hw.eos = TRUE /\ hw'.eos = FALSE /\ hw'.status = Append(hw.status, E) /\ chan' = chan
          /\ hw'.jobs = <<>> /\ hw'.busy = <<>> /\ apc' = apc
      BY <1>1, <1>3 DEF ReportEos, HwSet, appVars
    <2>2. \A i \in DOMAIN hw.status : hw.status[i] # E
      BY <1>1, <2>1 DEF EosIsLast
    <2>3. \A i \in DOMAIN hw'.status : hw'.status[i] = E => i = Len(hw'.status)
      BY <1>1, <2>1, <2>2, AppendPlaces
    <2>4. chan.bEndOfStreamReceived
      BY <2>1 DEF EosOnce
    <2> QED BY <2>1, <2>3, <2>4 DEF EosOnce, EosIsLast
  <1>4. CASE EndEncodingEos \/ EndEncodingBegins
    <2>1. /\ hw.status # <<>> /\ hw'.status = Tail(hw.status) /\ hw'.eos = hw.eos
          /\ hw'.jobs = hw.jobs /\ hw'.busy = hw.busy /\ chan' = chan /\ apc' = apc
      BY <1>1, <1>4 DEF EndEncodingEos, EndEncodingBegins, HwSet, appVars
    <2>2. \A i \in DOMAIN hw'.status : /\ i + 1 \in DOMAIN hw.status
                                       /\ hw'.status[i] = hw.status[i + 1]
                                       /\ i + 1 = Len(hw.status) => i = Len(hw'.status)
      <3> DEFINE q == hw.status
                 r == hw'.status
      <3>1. q \in Seq(PartSet \cup {E}) /\ q # <<>> /\ r = Tail(q)
        BY <1>1, <2>1
      <3> HIDE DEF q, r
      <3>2. \A i \in DOMAIN r : i + 1 \in DOMAIN q /\ r[i] = q[i + 1]
                                 /\ (i + 1 = Len(q) => i = Len(r))
        BY <3>1, TailPlaces
      <3> QED BY <3>2 DEF q, r
    <2> QED BY <2>1, <2>2 DEF EosOnce, EosIsLast
  <1>5. CASE FrameSent
    <2>1. ~chan.bEndOfStreamReceived /\ apc' = "idle"
      BY <1>5 DEF EosOnce, FrameSent, Framing, Returns
    <2>2. /\ hw'.status = hw.status /\ hw'.eos = hw.eos
          /\ chan'.bEndOfStreamReceived = chan.bEndOfStreamReceived
      BY <1>1, <1>5 DEF FrameSent, HwSet, EncTypes, EncVarTypes, ChanSet
    <2> QED BY <2>1, <2>2 DEF EosOnce, EosIsLast
  <1>6. CASE ProcessEos
    <2>1. /\ ~chan.bEndOfStreamReceived /\ chan'.bEndOfStreamReceived
          /\ hw'.status = hw.status /\ apc' = "idle"
      BY <1>1, <1>6 DEF ProcessEos, HwSet, EncTypes, EncVarTypes, ChanSet, Returns
    <2> QED BY <2>1 DEF EosOnce, EosIsLast, Framing
  <1>7. CASE DestroyChannel
    <2>1. /\ hw'.status = hw.status /\ hw'.jobs = <<>> /\ hw'.busy = <<>> /\ hw'.eos = FALSE
          /\ chan' = chan /\ apc' = "join"
      BY <1>1, <1>7 DEF DestroyChannel, HwSet, Goes
    <2> QED BY <2>1 DEF EosOnce, EosIsLast, Framing
  <1>8. CASE /\ ~EncodePart /\ ~ReportEos /\ ~EndEncodingEos /\ ~EndEncodingBegins
             /\ ~FrameSent /\ ~ProcessEos /\ ~DestroyChannel
    <2>1. /\ hw'.status = hw.status /\ hw'.jobs = hw.jobs /\ hw'.busy = hw.busy
          /\ hw'.eos = hw.eos
      BY <1>1, <1>8, Writers
         DEF PutHandsOver, CallbackHandsOver, HandOver, HwSet
    <2>2. chan'.bEndOfStreamReceived = chan.bEndOfStreamReceived
      BY <1>8, Writers DEF SetParameters, FrameRefused, EncTypes, EncVarTypes, ChanSet
    <2>3. apc' \in Framing => apc \in Framing \/ ~chan.bEndOfStreamReceived
      BY AppMoves DEF Framing, ProcessEnters
    <2> QED BY <2>1, <2>2, <2>3 DEF EosOnce, EosIsLast
  <1> QED BY <1>2, <1>3, <1>4, <1>5, <1>6, <1>7, <1>8

\* How the parts that wait change.
LEMMA WaitingStep ==
  ASSUME EncTypes, EosOnce, [EncNext]_encVars
  PROVE  /\ WaitingParts \in Nat
         /\ \A k \in 1 .. WaitingParts : k \in DOMAIN hw.status
                                         /\ hw.status[k] # EndOfStreamStatus
         /\ EncodePart =>
               /\ WaitingParts' = WaitingParts + 1
               /\ \A k \in 1 .. WaitingParts : hw'.status[k] = hw.status[k]
               /\ hw.bufs # <<>>
               /\ hw'.status[WaitingParts'].buf = Head(hw.bufs)[1]
               /\ hw'.status[WaitingParts'].streamId = Head(hw.bufs)[2]
               /\ hw'.bufs = Tail(hw.bufs) /\ hw'.alive = hw.alive
         /\ EndEncodingBegins =>
               /\ WaitingParts' = WaitingParts - 1 /\ WaitingParts >= 1
               /\ \A k \in 1 .. WaitingParts' : hw'.status[k] = hw.status[k + 1]
         /\ ~EncodePart /\ ~EndEncodingBegins =>
               /\ WaitingParts' = WaitingParts
               /\ \A k \in 1 .. WaitingParts : hw'.status[k] = hw.status[k]
  <1> DEFINE E == EndOfStreamStatus
             q == hw.status
             r == hw'.status
  <1>1. /\ q \in Seq(PartSet \cup {E}) /\ hw \in HwSet /\ EosIsLast
        /\ hw' \in HwSet /\ r \in Seq(PartSet \cup {E}) /\ EosIsLast'
    <2>1. EncTypes' /\ EosOnce'
      BY EncTypesStep, EosStep
    <2> QED BY <2>1 DEF EncTypes, EncVarTypes, HwSet, EosOnce
  <1>2. WaitingParts = Waiting(q) /\ WaitingParts' = Waiting(r)
    BY DEF WaitingParts, Waiting
  <1>3. /\ \A i \in DOMAIN q : IsEos(q, i) => i = Len(q)
        /\ \A i \in DOMAIN r : IsEos(r, i) => i = Len(r)
    BY <1>1 DEF EosIsLast, IsEos
  <1>4. /\ Waiting(q) \in Nat /\ Waiting(r) \in Nat
        /\ (\A i \in DOMAIN q : ~IsEos(q, i)) => Waiting(q) = Len(q)
        /\ (\E i \in DOMAIN q : IsEos(q, i)) => Waiting(q) = Len(q) - 1
        /\ \A k \in 1 .. Waiting(q) : k \in DOMAIN q /\ ~IsEos(q, k)
        /\ (\A i \in DOMAIN r : ~IsEos(r, i)) => Waiting(r) = Len(r)
        /\ (\E i \in DOMAIN r : IsEos(r, i)) => Waiting(r) = Len(r) - 1
        /\ Len(q) \in Nat /\ DOMAIN q = 1 .. Len(q) /\ DOMAIN r = 1 .. Len(r)
    BY <1>1, <1>3, WaitingIs, LenProperties
  <1>5. ASSUME EncodePart
        PROVE  /\ Waiting(r) = Waiting(q) + 1
               /\ \A k \in 1 .. Waiting(q) : r[k] = q[k]
               /\ hw.bufs # <<>>
               /\ r[Waiting(r)].buf = Head(hw.bufs)[1]
               /\ r[Waiting(r)].streamId = Head(hw.bufs)[2]
               /\ hw'.bufs = Tail(hw.bufs) /\ hw'.alive = hw.alive
    <2>1. PICK job \in JobSet, first \in BOOLEAN, e \in BOOLEAN :
              /\ r = Append(q, Status(job, first, e)) /\ hw.bufs # <<>>
              /\ hw'.bufs = Tail(hw.bufs)
              /\ Status(job, first, e) \in PartSet
      BY <1>5, PartEncoded
    <2> DEFINE p == Status(job, first, e)
    <2>2. p.buf = Head(hw.bufs)[1] /\ p.streamId = Head(hw.bufs)[2]
      BY DEF Status
    <2>3. hw.jobs # <<>> \/ hw.busy # <<>>
      BY <1>5, HasWork
    <2>4. \A i \in DOMAIN q : ~IsEos(q, i)
      BY <1>1, <2>3 DEF EosIsLast, IsEos
    <2> HIDE DEF p
    <2>5. r = Append(q, p) /\ p \in PartSet /\ p # E
      BY <2>1, PartIsNotEos DEF p
    <2> HIDE DEF q, r
    <2>6. /\ Len(r) = Len(q) + 1 /\ r[Len(q) + 1] = p
          /\ \A i \in 1 .. Len(q) : r[i] = q[i]
          /\ DOMAIN q = 1 .. Len(q) /\ DOMAIN r = 1 .. Len(q) + 1 /\ Len(q) \in Nat
      BY <1>1, <2>5, AppendPlaces
    <2>7. \A i \in DOMAIN r : ~IsEos(r, i)
      BY <2>4, <2>5, <2>6 DEF IsEos
    <2>8. hw'.alive = hw.alive
      BY <1>5, DriverMoves DEF EncodePart, DestroyChannel, appVars, Goes
    <2> QED BY <1>4, <2>1, <2>2, <2>4, <2>6, <2>7, <2>8
  <1>6. ASSUME EndEncodingBegins
        PROVE  /\ Waiting(r) = Waiting(q) - 1 /\ Waiting(q) >= 1
               /\ \A k \in 1 .. Waiting(r) : r[k] = q[k + 1]
    <2>1. q # <<>> /\ r = Tail(q) /\ q[1] # E
      BY <1>1, <1>6, HeadTailProperties DEF EndEncodingBegins, HwSet
    <2> HIDE DEF q, r
    <2>2. /\ Len(q) \in Nat \ {0} /\ Len(r) = Len(q) - 1 /\ DOMAIN r = 1 .. Len(q) - 1
          /\ \A i \in 1 .. Len(q) - 1 : r[i] = q[i + 1]
      BY <1>1, <2>1, TailPlaces
    <2>3. CASE \A i \in DOMAIN q : ~IsEos(q, i)
      <3>1. \A i \in DOMAIN r : ~IsEos(r, i)
        BY <1>4, <2>2, <2>3 DEF IsEos
      <3> QED BY <1>4, <2>2, <2>3, <3>1
    <2>4. CASE \E i \in DOMAIN q : IsEos(q, i)
      <3>1. IsEos(q, Len(q)) /\ Len(q) # 1
        BY <1>3, <2>1, <2>4 DEF IsEos
      <3>2. IsEos(r, Len(r)) /\ Len(r) \in DOMAIN r
        BY <2>2, <3>1 DEF IsEos
      <3> QED BY <1>4, <2>2, <2>4, <3>2
    <2> QED BY <2>3, <2>4
  <1>7. ASSUME ~EncodePart, ~EndEncodingBegins
        PROVE  /\ Waiting(r) = Waiting(q)
               /\ \A k \in 1 .. Waiting(q) : r[k] = q[k]
    <2>1. CASE ReportEos
      <3>1. r = Append(q, E) /\ hw.eos
        BY <1>1, <2>1 DEF ReportEos, HwSet
      <3>2. \A i \in DOMAIN q : ~IsEos(q, i)
        BY <1>1, <3>1 DEF EosIsLast, IsEos
      <3> HIDE DEF q, r
      <3>3. /\ Len(r) = Len(q) + 1 /\ r[Len(q) + 1] = E
            /\ \A i \in 1 .. Len(q) : r[i] = q[i]
            /\ DOMAIN r = 1 .. Len(q) + 1 /\ Len(q) \in Nat
        BY <1>1, <3>1, AppendPlaces
      <3>4. \E i \in DOMAIN r : IsEos(r, i)
        BY <3>3 DEF IsEos
      <3> QED BY <1>4, <3>2, <3>3, <3>4
    <2>2. CASE EndEncodingEos
      <3>1. q # <<>> /\ r = Tail(q) /\ q[1] = E
        BY <1>1, <2>2, HeadTailProperties DEF EndEncodingEos, HwSet
      <3> HIDE DEF q, r
      <3>2. /\ Len(q) \in Nat \ {0} /\ Len(r) = Len(q) - 1
        BY <1>1, <3>1, TailPlaces
      <3>3. 1 \in DOMAIN q /\ IsEos(q, 1)
        BY <1>4, <3>1, <3>2 DEF IsEos
      <3>4. Len(q) = 1 /\ DOMAIN r = {}
        BY <1>3, <1>4, <3>2, <3>3
      <3> QED BY <1>4, <3>2, <3>3, <3>4
    <2>3. CASE ~ReportEos /\ ~EndEncodingEos
      <3>1. r = q
        BY <1>7, <2>3, QueueMoves
      <3> QED BY <3>1
    <2> QED BY <2>1, <2>2, <2>3
  <1>8. \A k \in 1 .. Waiting(q) : k \in DOMAIN q /\ q[k] # E
    BY <1>4 DEF IsEos
  <1> HIDE DEF E, q, r
  <1>9. WaitingParts = Waiting(q) /\ WaitingParts' = Waiting(r)
    BY <1>2
  <1> QED BY <1>4, <1>5, <1>6, <1>7, <1>8, <1>9 DEF E, q, r

---------------------------------------------------------------------------
(* The ring of stream buffers *)

N == AL_MAX_STREAM_BUFFER
LEMMA RingSize == N \in Nat /\ N > 0 /\ Slot = 0 .. N - 1 /\ NumStream \in Nat /\ NumStream < N
  BY EncAssumption DEF N, Slot

LEMMA RingNow ==
  ASSUME EncTypes
  PROVE  /\ Used \in Slot
         /\ \A k \in Slot : At(k) \in Slot
         /\ \A j, k \in Slot : At(j) = At(k) => j = k
         /\ At(0) = ring.Recv /\ At(Used) = ring.Sent
         /\ Window = {At(k) : k \in 0 .. Used - 1}
         /\ ring.Sent \in Slot /\ ring.Recv \in Slot /\ ring.StreamSent \in [Slot -> 0 .. NumStream]
  <1>1. /\ ring.Sent \in Slot /\ ring.Recv \in Slot
        /\ ring.StreamSent \in [Slot -> 0 .. NumStream]
    BY DEF EncTypes, EncVarTypes, RingSet
  <1>2. Used = Between(N, ring.Recv, ring.Sent) /\ \A k : At(k) = Place(N, ring.Recv, k)
    BY DEF Used, At, Between, Place, N
  <1>3. Window = {At(k) : k \in 0 .. Used - 1}
    BY DEF Window, At, Used
  <1> DEFINE r == ring.Recv
             s == ring.Sent
  <1>4. r \in 0 .. N - 1 /\ s \in 0 .. N - 1
    BY <1>1, RingSize
  <1> HIDE DEF r, s
  <1>5. /\ Between(N, r, s) \in 0 .. N - 1
        /\ \A k \in 0 .. N - 1 : Place(N, r, k) \in 0 .. N - 1
        /\ \A j, k \in 0 .. N - 1 : Place(N, r, j) = Place(N, r, k) => j = k
        /\ Place(N, r, 0) = r /\ Place(N, r, Between(N, r, s)) = s
    <2>1. Between(N, r, s) \in 0 .. N - 1
      BY <1>4, RingSize, RingMoves
    <2>2. \A k \in 0 .. N - 1 : Place(N, r, k) \in 0 .. N - 1
      BY <1>4, RingSize, RingMoves
    <2>3. \A j, k \in 0 .. N - 1 : Place(N, r, j) = Place(N, r, k) => j = k
      BY <1>4, RingSize, RingMoves
    <2>4. Place(N, r, 0) = r /\ Place(N, r, Between(N, r, s)) = s
      BY <1>4, RingSize, RingMoves
    <2> QED BY <2>1, <2>2, <2>3, <2>4
  <1>6. Used = Between(N, r, s) /\ \A k : At(k) = Place(N, r, k)
    BY <1>2 DEF r, s
  <1>7. /\ Used \in 0 .. N - 1
        /\ \A k \in 0 .. N - 1 : At(k) \in 0 .. N - 1
        /\ \A j, k \in 0 .. N - 1 : At(j) = At(k) => j = k
        /\ At(0) = r /\ At(Used) = s
    BY <1>5, <1>6
  <1> QED BY <1>1, <1>3, <1>7, RingSize DEF r, s

\* A slot of the ring is filled, or given back; or the ring stays.
Buf(k) == ring.StreamSent[At(k)]
RingTakes(b) ==
    /\ Used' = Used + 1
    /\ \A k \in Slot : At(k)' = At(k)
    /\ \A k \in 0 .. Used : Buf(k)' = IF k < Used THEN Buf(k) ELSE b
RingGives ==
    /\ Used' = Used - 1
    /\ \A k \in 0 .. N - 2 : At(k)' = At(k + 1) /\ Buf(k)' = Buf(k + 1)
RingStays == Used' = Used /\ \A k : At(k)' = At(k) /\ Buf(k)' = Buf(k)

LEMMA RingTaken ==
  ASSUME EncTypes, EncTypes', NEW b, NEW t \in {"app", "cb"}, TakeSlot(t, b), Used + 1 < N
  PROVE  /\ RingTakes(b)
         /\ curStreamSent' = [curStreamSent EXCEPT ![t] = At(Used)]
         /\ curStreamSent'[t] = At(Used)
  <1>1. /\ ring \in RingSet /\ curStreamSent \in [app : Slot, cb : Slot]
        /\ ring' = [ring EXCEPT !.Sent = (@ + 1) % N, !.StreamSent[ring.Sent] = b]
        /\ curStreamSent' = [curStreamSent EXCEPT ![t] = ring.Sent]
    BY DEF EncTypes, EncVarTypes, TakeSlot, N
  <1>2. /\ ring'.Recv = ring.Recv /\ ring'.Sent = Place(N, ring.Sent, 1)
        /\ ring'.StreamSent = [ring.StreamSent EXCEPT ![ring.Sent] = b]
    BY <1>1 DEF RingSet, Place
  <1>3. /\ Used = Between(N, ring.Recv, ring.Sent)
        /\ Used' = Between(N, ring.Recv, Place(N, ring.Sent, 1))
        /\ \A k : At(k)' = At(k)
    BY <1>2 DEF Used, At, Between, N
  <1>4. Used' = Used + 1
    <2> DEFINE r == ring.Recv
               s == ring.Sent
    <2>1. r \in 0 .. N - 1 /\ s \in 0 .. N - 1
      BY RingNow, RingSize
    <2>2. Used = Between(N, r, s) /\ Used' = Between(N, r, Place(N, s, 1))
      BY <1>3
    <2> HIDE DEF r, s
    <2>3. Between(N, r, s) + 1 < N => Between(N, r, Place(N, s, 1)) = Between(N, r, s) + 1
      BY <2>1, RingSize, RingMoves
    <2> QED BY <2>2, <2>3
  <1>5. \A k \in 0 .. Used - 1 : At(k) \in Slot /\ At(k) # ring.Sent
    <2>1. \A k \in 0 .. Used - 1 : k \in Slot /\ k # Used
      BY RingNow, RingSize
    <2> QED BY <2>1, RingNow
  <1>6. \A k \in 0 .. Used : Buf(k)' = IF k < Used THEN Buf(k) ELSE b
    <2>1. \A k : Buf(k)' = ring'.StreamSent[At(k)]
      BY <1>3 DEF Buf
    <2>2. \A k \in 0 .. Used : k < Used => k \in 0 .. Used - 1
      BY RingNow, RingSize
    <2>3. \A k \in 0 .. Used : k < Used => Buf(k)' = Buf(k)
      BY <1>2, <1>5, <2>1, <2>2, RingNow DEF Buf
    <2>4. \A k \in 0 .. Used : ~(k < Used) => Buf(k)' = b
      <3>1. \A k \in 0 .. Used : ~(k < Used) => k = Used
        BY RingNow, RingSize
      <3> QED BY <1>2, <2>1, <3>1, RingNow
    <2> QED BY <2>3, <2>4
  <1>7. /\ curStreamSent' = [curStreamSent EXCEPT ![t] = At(Used)]
        /\ curStreamSent'[t] = At(Used)
    BY <1>1, RingNow
  <1> QED BY <1>3, <1>4, <1>6, <1>7 DEF RingTakes

LEMMA RingGiven ==
  ASSUME EncTypes, EndEncodingBegins, Used > 0
  PROVE  RingGives /\ At(0) = ring.Recv
  <1>1. /\ ring'.Recv = Place(N, ring.Recv, 1) /\ ring'.Sent = ring.Sent
        /\ ring'.StreamSent = ring.StreamSent
    BY DEF EndEncodingBegins, EncTypes, EncVarTypes, RingSet, Place, N
  <1>2. /\ Used = Between(N, ring.Recv, ring.Sent)
        /\ Used' = Between(N, Place(N, ring.Recv, 1), ring.Sent)
        /\ \A k : /\ At(k) = Place(N, ring.Recv, k)
                  /\ At(k)' = Place(N, Place(N, ring.Recv, 1), k)
    BY <1>1 DEF Used, At, Between, Place, N
  <1> DEFINE r == ring.Recv
             s == ring.Sent
  <1>3. r \in 0 .. N - 1 /\ s \in 0 .. N - 1
    BY RingNow, RingSize
  <1>4. /\ Used = Between(N, r, s) /\ Used' = Between(N, Place(N, r, 1), s)
        /\ \A k : At(k) = Place(N, r, k) /\ At(k)' = Place(N, Place(N, r, 1), k)
    BY <1>2
  <1> HIDE DEF r, s
  <1>5. Between(N, r, s) > 0 =>
            /\ Between(N, Place(N, r, 1), s) = Between(N, r, s) - 1
            /\ \A k \in 0 .. N - 2 : Place(N, Place(N, r, 1), k) = Place(N, r, k + 1)
    BY <1>3, RingSize, RingMoves
  <1>6. Used' = Used - 1 /\ \A k \in 0 .. N - 2 : At(k)' = At(k + 1)
    BY <1>4, <1>5
  <1>7. \A k : Buf(k)' = ring.StreamSent[At(k)']
    BY <1>1 DEF Buf
  <1>8. \A k \in 0 .. N - 2 : Buf(k)' = Buf(k + 1)
    BY <1>6, <1>7 DEF Buf
  <1> QED BY <1>6, <1>8, RingNow DEF RingGives

LEMMA RingElse ==
  ASSUME [EncNext]_encVars, ~PutTakesSlot, ~CallbackTakesSlot, ~EndEncodingBegins
  PROVE  RingStays /\ curStreamSent' = curStreamSent
  <1>1. ring' = ring /\ curStreamSent' = curStreamSent
    BY Writers
  <1> QED BY <1>1 DEF RingStays, Used, At, Buf

\* The buffers of the ring differ, so that one that is not there has room.
LEMMA RingHasRoom ==
  ASSUME EncTypes, RingBuffers, NEW b \in StreamBuf,
         \A k \in 0 .. Used - 1 : ring.StreamSent[At(k)] # b
  PROVE  Used + 1 < N
  <1> DEFINE f == [k \in 0 .. Used |-> IF k < Used THEN ring.StreamSent[At(k)] ELSE b]
  <1>1. Used \in Nat /\ NumStream \in Nat /\ NumStream < N /\ N \in Nat
    BY RingNow, RingSize
  <1>2. /\ \A k \in 0 .. Used - 1 : ring.StreamSent[At(k)] \in StreamBuf
        /\ \A j, k \in 0 .. Used - 1 : ring.StreamSent[At(j)] = ring.StreamSent[At(k)] => j = k
    BY DEF RingBuffers
  <1>3. f \in [0 .. Used -> StreamBuf]
    BY <1>1, <1>2
  <1>4. ASSUME NEW j \in 0 .. Used, NEW k \in 0 .. Used, f[j] = f[k] PROVE j = k
    <2>1. CASE j < Used /\ k < Used
      BY <1>1, <1>2, <1>4, <2>1
    <2>2. CASE j = Used \/ k = Used
      BY <1>1, <1>4, <2>2
    <2> QED BY <1>1, <2>1, <2>2
  <1>5. f \in Injection(0 .. Used, StreamBuf)
    BY <1>3, <1>4 DEF Injection, IsInjective
  <1>6. /\ Cardinality(0 .. Used) = Used + 1 /\ Cardinality(StreamBuf) = NumStream
        /\ IsFiniteSet(StreamBuf)
    BY <1>1, FS_Interval DEF StreamBuf
  <1>7. Cardinality(0 .. Used) <= Cardinality(StreamBuf)
    <2> HIDE DEF f
    <2> QED BY <1>5, <1>6, FS_Injection
  <1> QED BY <1>1, <1>6, <1>7

\* The callback has no buffer while the application puts its own.
LEMMA PutsAlone ==
  ASSUME EncTypes, FramesAgree
  PROVE  /\ apc = "put" \/ Call("put") => ~Busy /\ cpc \in {"wait", "ended"}
         /\ Busy => ToPut = {}
         /\ EndEncodingBegins => apc # "put" /\ ToPut = {}
         /\ Passing \in {0, 1}
         /\ ToPut \subseteq DOMAIN program
         /\ \A i \in ToPut : program[i].op = "put" /\ i >= next
  <1>1. /\ program \in Seq(Calls) /\ DOMAIN program = 1 .. Len(program) /\ next \in Nat \ {0}
        /\ Len(program) \in Nat
    BY EncAssumption, LenProperties DEF EncTypes, ThreadsAgree
  <1>2. apc = "put" \/ Call("put") => next \in DOMAIN program /\ program[next].op = "put"
    BY <1>1 DEF EncTypes, ThreadsAgree, Now, Call
  <1>3. apc = "put" \/ Call("put") => ~Busy
    BY <1>1, <1>2, PutsBeforeFrames
  <1>4. cpc \in {"wait", "ended"} \/ Busy
    BY DEF Busy
  <1>5. \A i \in ToPut : i \in DOMAIN program /\ program[i].op = "put" /\ i >= next
    BY <1>1 DEF ToPut
  <1>6. Busy => ToPut = {}
    BY <1>5, PutsBeforeFrames
  <1>7. ASSUME EndEncodingBegins PROVE apc # "put" /\ ToPut = {}
    <2>1. 1 \in DOMAIN hw.status /\ hw.status[1] # EndOfStreamStatus /\ cpc = "wait"
      <3>1. hw.status # <<>> /\ hw.status \in Seq(PartSet \cup {EndOfStreamStatus})
            /\ Head(hw.status) # EndOfStreamStatus /\ cpc = "wait"
        BY <1>7 DEF EndEncodingBegins, EncTypes, EncVarTypes, HwSet
      <3> QED BY <3>1, HeadTailProperties, LenProperties, EmptySeq
    <2>2. apc # "destroyed"
      BY <2>1 DEF EncTypes, ThreadsAgree
    <2> QED BY <1>1, <1>2, <1>5, <2>1, <2>2, PutsBeforeFrames
  <1>8. Passing \in {0, 1}
    BY <1>3, <1>4 DEF Passing, Busy
  <1> QED BY <1>3, <1>4, <1>5, <1>6, <1>7, <1>8

LEMMA ToPutMoves ==
  ASSUME EncTypes, [EncNext]_encVars
  PROVE  ToPut' \subseteq ToPut /\ (PutTakesSlot => next \notin ToPut')
  <1>1. /\ program' = program /\ next \in Nat
        /\ DOMAIN program \subseteq Nat
    BY Writers, EncAssumption, LenProperties DEF EncTypes, ThreadsAgree
  <1>2. ToPut' = {i \in DOMAIN program : /\ program[i].op = "put"
                                         /\ IF apc' = "put" THEN i > next' ELSE i >= next'}
    BY <1>1 DEF ToPut
  <1>3. \/ next' = next + 1 /\ apc' = "idle"
        \/ next' = next /\ (apc = "put" => apc' = "put")
    BY AppMoves DEF PutTakesSlot, TakeHdrID, ProcessEnters, DestroyChannel, ReleaseAll, Call
  <1>4. PutTakesSlot => apc' = "put" /\ next' = next
    BY DEF PutTakesSlot, Goes
  <1> QED BY <1>1, <1>2, <1>3, <1>4 DEF ToPut

\* A buffer that is not in the ring is put there.
LEMMA BuffersTaken ==
  ASSUME EncTypes, RingBuffers, NEW b \in StreamBuf, RingTakes(b),
         \A k \in 0 .. Used - 1 : Buf(k) # b
  PROVE  /\ \A k \in 0 .. Used' - 1 : Buf(k)' \in StreamBuf
         /\ \A j, k \in 0 .. Used' - 1 : Buf(j)' = Buf(k)' => j = k
         /\ \A y : y # b /\ (\A k \in 0 .. Used - 1 : Buf(k) # y)
                => \A k \in 0 .. Used' - 1 : Buf(k)' # y
  <1>1. Used \in Nat /\ Used' = Used + 1
    BY RingNow, RingSize DEF RingTakes
  <1>2. \A k \in 0 .. Used' - 1 : Buf(k)' = IF k < Used THEN Buf(k) ELSE b
    BY <1>1 DEF RingTakes
  <1>3. /\ \A k \in 0 .. Used - 1 : Buf(k) \in StreamBuf
        /\ \A j, k \in 0 .. Used - 1 : Buf(j) = Buf(k) => j = k
    BY DEF RingBuffers, Buf
  <1>4. \A k \in 0 .. Used' - 1 : Buf(k)' \in StreamBuf
    BY <1>1, <1>2, <1>3
  <1>5. \A j, k \in 0 .. Used' - 1 : Buf(j)' = Buf(k)' => j = k
    BY <1>1, <1>2, <1>3
  <1>6. \A y : y # b /\ (\A k \in 0 .. Used - 1 : Buf(k) # y)
                => \A k \in 0 .. Used' - 1 : Buf(k)' # y
    BY <1>1, <1>2
  <1> QED BY <1>4, <1>5, <1>6

\* What the two threads put into the ring.
LEMMA BufferTaken ==
  ASSUME EncTypes, FramesAgree, RingBuffers, [EncNext]_encVars
  PROVE  /\ PutTakesSlot =>
               /\ Now.buf \in StreamBuf /\ RingTakes(Now.buf) /\ Used + 1 < N
               /\ \A k \in 0 .. Used - 1 : Buf(k) # Now.buf
               /\ curStreamSent'.app = At(Used) /\ next \in ToPut /\ ~Busy
         /\ CallbackTakesSlot =>
               /\ st.buf \in StreamBuf /\ RingTakes(st.buf) /\ Used + 1 < N
               /\ \A k \in 0 .. Used - 1 : Buf(k) # st.buf
               /\ curStreamSent'.cb = At(Used) /\ Busy
  <1>1. EncTypes'
    BY EncTypesStep
  <1>2. ASSUME PutTakesSlot
        PROVE  /\ Now.buf \in StreamBuf /\ RingTakes(Now.buf) /\ Used + 1 < N
               /\ \A k \in 0 .. Used - 1 : Buf(k) # Now.buf
               /\ curStreamSent'.app = At(Used) /\ next \in ToPut /\ ~Busy
    <2>1. Call("put") /\ TakeSlot("app", Now.buf)
      BY <1>2 DEF PutTakesSlot
    <2>2. next \in DOMAIN program /\ program \in Programs /\ Now = program[next]
          /\ program[next].op = "put" /\ apc = "idle"
      <3>1. next \in Nat \ {0} /\ next <= Len(program) /\ program \in Seq(Calls)
            /\ program \in Programs
        BY <2>1, EncAssumption DEF Call, EncTypes, ThreadsAgree
      <3> QED BY <2>1, <3>1, LenProperties DEF Call, Now
    <2>3. Now.buf \in StreamBuf
      BY <2>2, CallTypes
    <2>4. next \in ToPut
      BY <2>2 DEF ToPut, EncTypes, ThreadsAgree
    <2>5. \A k \in 0 .. Used - 1 : Buf(k) # Now.buf
      BY <2>2, <2>4 DEF RingBuffers, Buf
    <2>6. Used + 1 < N
      BY <2>3, <2>5, RingHasRoom DEF Buf
    <2>7. RingTakes(Now.buf) /\ curStreamSent'["app"] = At(Used)
      BY <1>1, <2>1, <2>6, RingTaken
    <2> QED BY <2>1, <2>3, <2>4, <2>5, <2>6, <2>7, PutsAlone
  <1>3. ASSUME CallbackTakesSlot
        PROVE  /\ st.buf \in StreamBuf /\ RingTakes(st.buf) /\ Used + 1 < N
               /\ \A k \in 0 .. Used - 1 : Buf(k) # st.buf
               /\ curStreamSent'.cb = At(Used) /\ Busy
    <2>1. TakeSlot("cb", st.buf) /\ cpc = "user"
      BY <1>3 DEF CallbackTakesSlot
    <2>2. st.buf \in StreamBuf /\ \A k \in 0 .. Used - 1 : Buf(k) # st.buf
      BY <2>1 DEF RingBuffers, Buf
    <2>3. Used + 1 < N
      BY <2>2, RingHasRoom DEF Buf
    <2>4. RingTakes(st.buf) /\ curStreamSent'["cb"] = At(Used)
      BY <1>1, <2>1, <2>3, RingTaken
    <2> QED BY <2>1, <2>2, <2>3, <2>4 DEF Busy
  <1> QED BY <1>2, <1>3

\* The part the callback takes is in the first buffer of the ring.
LEMMA BufferGiven ==
  ASSUME EncTypes, FramesAgree, EosOnce, RingOrder, RingLength, EndEncodingBegins,
         [EncNext]_encVars
  PROVE  /\ RingGives /\ Used > 0 /\ WaitingParts >= 1
         /\ st'.buf = Buf(0) /\ curStreamSent' = curStreamSent
         /\ cpc = "wait" /\ cpc' \in {"sections", "user"} /\ apc' = apc /\ apc # "put"
         /\ ToPut = {} /\ hw'.bufs = hw.bufs /\ hw'.alive = hw.alive /\ refs' = refs
  <1>1. WaitingParts >= 1 /\ WaitingParts \in Nat
    BY WaitingStep
  <1>2. Len(hw.bufs) \in Nat /\ Passing \in {0, 1} /\ Used \in Nat
    BY PutsAlone, RingNow, RingSize, LenProperties DEF EncTypes, EncVarTypes, HwSet
  <1>3. Used > 0
    BY <1>1, <1>2 DEF RingLength, InDriver
  <1>4. hw.status[1].streamId = At(0)
    BY <1>1, <1>2 DEF RingOrder
  <1>5. st'.buf = ring.StreamSent[hw.status[1].streamId]
    <2>1. hw.status # <<>> /\ hw.status \in Seq(PartSet \cup {EndOfStreamStatus})
          /\ Head(hw.status) # EndOfStreamStatus
      BY DEF EndEncodingBegins, EncTypes, EncVarTypes, HwSet
    <2>2. Head(hw.status) = hw.status[1] /\ Head(hw.status) \in PartSet
      BY <2>1, HeadTailProperties
    <2>3. st' = [Head(hw.status) EXCEPT !.buf = ring.StreamSent[Head(hw.status).streamId]]
      BY DEF EndEncodingBegins
    <2> QED BY <2>2, <2>3 DEF PartSet
  <1>6. /\ hw'.bufs = hw.bufs /\ hw'.alive = hw.alive
    BY DEF EndEncodingBegins, EncTypes, EncVarTypes, HwSet
  <1>7. /\ cpc = "wait" /\ cpc' \in {"sections", "user"} /\ apc' = apc /\ refs' = refs
        /\ curStreamSent' = curStreamSent
    BY DEF EndEncodingBegins, appVars
  <1> QED BY <1>1, <1>3, <1>4, <1>5, <1>6, <1>7, RingGiven, PutsAlone DEF Buf

LEMMA RingBuffersStep ==
  ASSUME EncTypes, FramesAgree, EosOnce, RingOrder, RingLength, RingBuffers, [EncNext]_encVars
  PROVE  RingBuffers'
  <1>1. /\ \A k \in 0 .. Used - 1 : Buf(k) \in StreamBuf
        /\ \A j, k \in 0 .. Used - 1 : Buf(j) = Buf(k) => j = k
        /\ cpc \in {"sections", "user"} =>
              st.buf \in StreamBuf /\ \A k \in 0 .. Used - 1 : Buf(k) # st.buf
        /\ \A i \in ToPut, k \in 0 .. Used - 1 : Buf(k) # program[i].buf
    BY DEF RingBuffers, Buf
  <1>2. SUFFICES
        /\ \A k \in 0 .. Used' - 1 : Buf(k)' \in StreamBuf
        /\ \A j, k \in 0 .. Used' - 1 : Buf(j)' = Buf(k)' => j = k
        /\ cpc' \in {"sections", "user"} =>
              st'.buf \in StreamBuf /\ \A k \in 0 .. Used' - 1 : Buf(k)' # st'.buf
        /\ \A i \in ToPut', k \in 0 .. Used' - 1 : Buf(k)' # program[i].buf
    <2>1. program' = program
      BY Writers
    <2> QED BY <2>1 DEF RingBuffers, Buf
  <1>3. ToPut' \subseteq ToPut
    BY ToPutMoves
  <1>4. CASE PutTakesSlot
    <2>1. /\ cpc' = cpc /\ cpc \notin {"sections", "user"}
      BY <1>4, BufferTaken DEF PutTakesSlot, cbVars, Busy
    <2>2. \A i \in ToPut' : program[i].buf # Now.buf
      <3>1. PutsFirst(program) /\ next \in DOMAIN program /\ next \notin ToPut'
            /\ program[next].op = "put"
        BY <1>4, BufferTaken, ToPutMoves, PutsAlone, StreamAssumption DEF EncTypes, ThreadsAgree
      <3>2. \A i \in ToPut' : i \in DOMAIN program /\ program[i].op = "put" /\ i # next
        BY <1>3, <3>1, PutsAlone
      <3> QED BY <3>1, <3>2 DEF PutsFirst, Now
    <2>3. \A i \in ToPut', k \in 0 .. Used' - 1 : Buf(k)' # program[i].buf
      BY <1>1, <1>3, <1>4, <2>2, BufferTaken, BuffersTaken
    <2> QED BY <1>4, <2>1, <2>3, BufferTaken, BuffersTaken
  <1>5. CASE CallbackTakesSlot
    <2>1. cpc' = "put" /\ ToPut' = {}
      BY <1>3, <1>5, BufferTaken, PutsAlone DEF CallbackTakesSlot, CallbackGoes
    <2> QED BY <1>5, <2>1, BufferTaken, BuffersTaken
  <1>6. CASE EndEncodingBegins
    <2>1. /\ Used' = Used - 1 /\ \A k \in 0 .. Used' - 1 : Buf(k)' = Buf(k + 1)
          /\ st'.buf = Buf(0) /\ ToPut' = {} /\ Used \in Nat /\ Used > 0
      <3>1. Used \in 0 .. N - 1 /\ N \in Nat
        BY RingNow, RingSize
      <3> QED BY <1>3, <1>6, <3>1, BufferGiven DEF RingGives
    <2>2. \A k \in 0 .. Used' - 1 : k + 1 \in 0 .. Used - 1 /\ k + 1 # 0
      BY <2>1
    <2>3. 0 \in 0 .. Used - 1
      BY <2>1
    <2>4. \A k \in 0 .. Used' - 1 : Buf(k)' \in StreamBuf /\ Buf(k)' # st'.buf
      BY <1>1, <2>1, <2>2, <2>3
    <2>5. \A j, k \in 0 .. Used' - 1 : Buf(j)' = Buf(k)' => j = k
      <3>1. \A j, k \in 0 .. Used' - 1 : Buf(j)' = Buf(k)' => j + 1 = k + 1
        BY <1>1, <2>1, <2>2
      <3> QED BY <2>1, <3>1
    <2> QED BY <1>1, <2>1, <2>3, <2>4, <2>5
  <1>7. CASE ~PutTakesSlot /\ ~CallbackTakesSlot /\ ~EndEncodingBegins
    <2>1. Used' = Used /\ \A k : Buf(k)' = Buf(k)
      BY <1>7, RingElse DEF RingStays
    <2>2. st' = st /\ (cpc' \in {"sections", "user"} => cpc \in {"sections", "user"})
      BY <1>7, Writers, CallbackMoves
    <2> QED BY <1>1, <1>3, <2>1, <2>2
  <1> QED BY <1>4, <1>5, <1>6, <1>7

\* Who moves the buffers of the driver.
LEMMA BufsMoves ==
  ASSUME EncTypes, [EncNext]_encVars
  PROVE  /\ hw.bufs \in Seq((0 .. NumStream) \X Slot) /\ Len(hw.bufs) \in Nat
         /\ DOMAIN hw.bufs = 1 .. Len(hw.bufs)
         /\ PutHandsOver => /\ hw'.bufs = Append(hw.bufs, <<Now.buf, curStreamSent.app>>)
                            /\ hw.alive
         /\ CallbackHandsOver =>
               hw'.bufs = IF hw.alive THEN Append(hw.bufs, <<st.buf, curStreamSent.cb>>)
                          ELSE hw.bufs
         /\ DestroyChannel => hw'.bufs = <<>> /\ ~hw'.alive
         /\ ~PutHandsOver /\ ~CallbackHandsOver /\ ~EncodePart /\ ~DestroyChannel =>
               hw'.bufs = hw.bufs
         /\ ~DestroyChannel => hw'.alive = hw.alive
  <1>1. /\ hw \in HwSet /\ hw.bufs \in Seq((0 .. NumStream) \X Slot)
    BY DEF EncTypes, EncVarTypes, HwSet
  <1>2. ASSUME PutHandsOver
        PROVE  hw'.bufs = Append(hw.bufs, <<Now.buf, curStreamSent.app>>) /\ hw.alive
    <2>1. hw.alive
      BY <1>2 DEF PutHandsOver, EncTypes, ThreadsAgree
    <2>2. hw' = [hw EXCEPT !.bufs = Append(@, <<Now.buf, curStreamSent["app"]>>)]
      BY <1>2, <2>1 DEF PutHandsOver, HandOver
    <2> QED BY <1>1, <2>1, <2>2 DEF HwSet
  <1>3. ASSUME CallbackHandsOver
        PROVE  hw'.bufs = IF hw.alive THEN Append(hw.bufs, <<st.buf, curStreamSent.cb>>)
                          ELSE hw.bufs
    <2>1. hw' = IF hw.alive THEN [hw EXCEPT !.bufs = Append(@, <<st.buf, curStreamSent["cb"]>>)]
                ELSE hw
      BY <1>3 DEF CallbackHandsOver, HandOver
    <2> QED BY <1>1, <2>1 DEF HwSet
  <1>4. ASSUME ~PutHandsOver, ~CallbackHandsOver, ~EncodePart, ~DestroyChannel
        PROVE  hw'.bufs = hw.bufs
    BY <1>1, <1>4, Writers
       DEF ProcessEos, FrameSent, ReportEos, EndEncodingEos, EndEncodingBegins, HwSet
  <1>5. DestroyChannel => hw'.bufs = <<>> /\ ~hw'.alive
    BY <1>1 DEF DestroyChannel, HwSet
  <1>6. ~DestroyChannel => hw'.alive = hw.alive
    BY DriverMoves
  <1> QED BY <1>1, <1>2, <1>3, <1>4, <1>5, <1>6, LenProperties

\* Who passes a buffer from the ring to the driver.
LEMMA PassMoves ==
  ASSUME EncTypes, [EncNext]_encVars
  PROVE  /\ ~PutTakesSlot /\ ~PutHandsOver => (apc' = "put" <=> apc = "put")
         /\ apc' = "put" => program' = program /\ next' = next /\ Now' = Now
         /\ ~CallbackTakesSlot /\ ~CallbackHandsOver => (cpc' = "put" <=> cpc = "put")
         /\ cpc' = "put" => st' = st
         /\ PutTakesSlot => /\ apc = "idle" /\ apc' = "put" /\ cpc' = cpc
                            /\ ~PutHandsOver /\ ~CallbackTakesSlot /\ ~CallbackHandsOver
         /\ PutHandsOver => /\ apc = "put" /\ apc' = "idle" /\ cpc' = cpc
                            /\ ~CallbackTakesSlot /\ ~CallbackHandsOver
         /\ CallbackTakesSlot => /\ cpc = "user" /\ cpc' = "put" /\ apc' = apc
                                 /\ ~CallbackHandsOver
         /\ CallbackHandsOver => /\ cpc = "put" /\ cpc' \in {"source", "unref"} /\ apc' = apc
         /\ EncodePart \/ DestroyChannel =>
               /\ ~PutTakesSlot /\ ~PutHandsOver /\ ~CallbackTakesSlot /\ ~CallbackHandsOver
         /\ DestroyChannel => apc = "idle" /\ apc' = "join" /\ ~EncodePart
         /\ PutTakesSlot \/ CallbackTakesSlot => ~EncodePart /\ ~EndEncodingBegins /\ hw' = hw
  <1>1. ASSUME ~PutTakesSlot, ~PutHandsOver PROVE apc' = "put" <=> apc = "put"
    <2>1. CASE Application
      <3>1. CASE TakeHdrID \/ ReleaseAll \/ CopyHdr \/ SetParameters
        BY <3>1 DEF TakeHdrID, ReleaseAll, CopyHdr, SetParameters, Goes, Returns, Call
      <3>2. CASE ProcessRejects \/ ProcessEos \/ ProcessEnters \/ WaitReadiness \/ GetFrameInfo
        BY <3>2 DEF ProcessRejects, ProcessEos, ProcessEnters, WaitReadiness, GetFrameInfo,
                    Goes, Returns, Call
      <3>3. CASE AddSourceSent \/ UpdateEncoderInfos \/ SetHLSInfos \/ FrameSent \/ FrameRefused
        BY <3>3 DEF AddSourceSent, UpdateEncoderInfos, SetHLSInfos, FrameSent, FrameRefused,
                    Goes, Returns
      <3> QED BY <1>1, <2>1, <3>1, <3>2, <3>3 DEF Application, Process
    <2>2. CASE DestroyChannel
      BY <2>2 DEF DestroyChannel, Goes
    <2>3. CASE ~Application /\ ~DestroyChannel
      BY <2>3, Writers
    <2> QED BY <2>1, <2>2, <2>3
  <1>2. apc' = "put" => program' = program /\ next' = next /\ Now' = Now
    <2>1. apc' = "put" => program' = program /\ next' = next
      BY AppMoves
    <2> QED BY <2>1 DEF Now
  <1>3. ASSUME ~CallbackTakesSlot, ~CallbackHandsOver PROVE cpc' = "put" <=> cpc = "put"
    BY <1>3, CallbackMoves
  <1>4. cpc' = "put" => st' = st
    BY Writers DEF EndEncodingBegins
  <1>5. /\ PutTakesSlot => apc = "idle" /\ apc' = "put" /\ cpc' = cpc /\ hw' = hw
        /\ PutHandsOver => apc = "put" /\ apc' = "idle" /\ cpc' = cpc
        /\ CallbackTakesSlot => cpc = "user" /\ cpc' = "put" /\ apc' = apc
        /\ CallbackHandsOver => cpc = "put" /\ cpc' \in {"source", "unref"} /\ apc' = apc
        /\ DestroyChannel => apc = "idle" /\ apc' = "join" /\ cpc' = cpc
        /\ EncodePart => apc' = apc /\ cpc' = cpc
    BY DEF PutTakesSlot, PutHandsOver, CallbackTakesSlot, CallbackHandsOver, DestroyChannel,
           EncodePart, Goes, Returns, CallbackGoes, Call, appVars, cbVars
  <1>6. /\ EndEncodingBegins => apc' = apc /\ cpc = "wait" /\ cpc' \in {"sections", "user"}
        /\ PutTakesSlot \/ CallbackTakesSlot => hw' = hw
    BY DEF EndEncodingBegins, appVars, PutTakesSlot, CallbackTakesSlot
  <1> QED BY <1>1, <1>2, <1>3, <1>4, <1>5, <1>6

\* The sizes the order of the ring is about.
LEMMA RingNumbers ==
  ASSUME EncTypes, FramesAgree, EosOnce, RingLength
  PROVE  /\ WaitingParts \in Nat /\ Len(hw.bufs) \in Nat /\ Passing \in {0, 1}
         /\ Used \in 0 .. N - 1 /\ N \in Nat /\ Slot = 0 .. N - 1
         /\ WaitingParts + Len(hw.bufs) + Passing <= Used
         /\ hw.alive => WaitingParts + Len(hw.bufs) + Passing = Used
         /\ DOMAIN hw.bufs = 1 .. Len(hw.bufs)
  <1>1. /\ hw.bufs \in Seq((0 .. NumStream) \X Slot) /\ Len(hw.bufs) \in Nat
        /\ DOMAIN hw.bufs = 1 .. Len(hw.bufs)
    BY LenProperties DEF EncTypes, EncVarTypes, HwSet
  <1>2. WaitingParts \in Nat
    <2> DEFINE q == hw.status
    <2>1. q \in Seq(PartSet \cup {EndOfStreamStatus})
          /\ \A i \in DOMAIN q : IsEos(q, i) => i = Len(q)
      BY DEF EncTypes, EncVarTypes, HwSet, EosOnce, EosIsLast, IsEos
    <2>2. WaitingParts = Waiting(q)
      BY DEF WaitingParts, Waiting
    <2> HIDE DEF q
    <2> QED BY <2>1, <2>2, WaitingIs
  <1>3. Used \in Slot /\ Passing \in {0, 1}
    BY RingNow, PutsAlone
  <1> QED BY <1>1, <1>2, <1>3, RingSize DEF RingLength, InDriver

\* The buffers of the driver and the parts that wait stay those of the ring,
\* in order.
LEMMA RingOrderStep ==
  ASSUME EncTypes, FramesAgree, EosOnce, RingOrder, RingLength, RingBuffers, [EncNext]_encVars
  PROVE  RingOrder'
  <1> DEFINE W == WaitingParts
             L == Len(hw.bufs)
  <1>1. /\ W \in Nat /\ L \in Nat /\ Passing \in {0, 1} /\ Used \in 0 .. N - 1 /\ N \in Nat
        /\ Slot = 0 .. N - 1 /\ W + L + Passing <= Used /\ DOMAIN hw.bufs = 1 .. L
        /\ hw.alive => W + L + Passing = Used
    BY RingNumbers
  <1>2. /\ \A k \in 1 .. W : hw.status[k].streamId = At(k - 1) /\ hw.status[k].buf = Buf(k - 1)
        /\ \A k \in 1 .. L : hw.bufs[k] = <<Buf(W + k - 1), At(W + k - 1)>>
    BY <1>1 DEF RingOrder, Buf
  <1>3. SUFFICES
        /\ \A k \in 1 .. WaitingParts' :
              hw'.status[k].streamId = At(k - 1)' /\ hw'.status[k].buf = Buf(k - 1)'
        /\ \A i : \A k \in DOMAIN hw'.bufs : i = WaitingParts' + k - 1 =>
              hw'.bufs[k] = <<Buf(i)', At(i)'>>
    BY DEF RingOrder, Buf
  <1> HIDE DEF W, L
  <1>4. CASE PutTakesSlot \/ CallbackTakesSlot
    <2>1. PICK b : RingTakes(b)
      BY <1>4, BufferTaken
    <2>2. /\ WaitingParts' = W /\ \A k \in 1 .. W : hw'.status[k] = hw.status[k]
          /\ hw' = hw
      BY <1>4, WaitingStep, PassMoves DEF W
    <2>3. \A k \in 0 .. W + L - 1 : At(k)' = At(k) /\ Buf(k)' = Buf(k)
      BY <1>1, <2>1 DEF RingTakes
    <2>4. \A k \in 1 .. W : k - 1 \in 0 .. W + L - 1
      BY <1>1
    <2>5. \A k \in 1 .. L : W + k - 1 \in 0 .. W + L - 1
      BY <1>1
    <2> QED BY <1>1, <1>2, <2>2, <2>3, <2>4, <2>5
  <1>5. CASE EndEncodingBegins
    <2>1. /\ RingGives /\ hw'.bufs = hw.bufs /\ W >= 1 /\ WaitingParts' = W - 1
          /\ \A k \in 1 .. W - 1 : hw'.status[k] = hw.status[k + 1]
      BY <1>5, BufferGiven, WaitingStep DEF W
    <2>2. \A k \in 0 .. W + L - 2 : At(k)' = At(k + 1) /\ Buf(k)' = Buf(k + 1)
      BY <1>1, <2>1 DEF RingGives
    <2>3. \A k \in 1 .. W - 1 : /\ k - 1 \in 0 .. W + L - 2 /\ k + 1 \in 1 .. W
                                /\ k - 1 + 1 = k + 1 - 1
      BY <1>1, <2>1
    <2>4. \A k \in 1 .. L : W - 1 + k - 1 \in 0 .. W + L - 2 /\ W - 1 + k - 1 + 1 = W + k - 1
      BY <1>1, <2>1
    <2>5. \A k \in 1 .. W - 1 :
             hw'.status[k].streamId = At(k - 1)' /\ hw'.status[k].buf = Buf(k - 1)'
      BY <1>2, <2>1, <2>2, <2>3
    <2>6. \A i : \A k \in 1 .. L : i = W - 1 + k - 1 => hw'.bufs[k] = <<Buf(i)', At(i)'>>
      BY <1>2, <2>1, <2>2, <2>4
    <2> QED BY <1>1, <2>1, <2>5, <2>6
  <1>6. CASE ~PutTakesSlot /\ ~CallbackTakesSlot /\ ~EndEncodingBegins
    <2>1. Used' = Used /\ \A k : At(k)' = At(k) /\ Buf(k)' = Buf(k)
      BY <1>6, RingElse DEF RingStays
    <2>2. CASE EncodePart
      <3>1. /\ WaitingParts' = W + 1 /\ \A k \in 1 .. W : hw'.status[k] = hw.status[k]
            /\ hw.bufs # <<>> /\ hw'.bufs = Tail(hw.bufs)
            /\ hw'.status[W + 1].buf = Head(hw.bufs)[1]
            /\ hw'.status[W + 1].streamId = Head(hw.bufs)[2]
        BY <2>2, WaitingStep DEF W
      <3>2. /\ L >= 1 /\ Head(hw.bufs) = hw.bufs[1] /\ DOMAIN hw'.bufs = 1 .. L - 1
            /\ \A k \in 1 .. L - 1 : hw'.bufs[k] = hw.bufs[k + 1]
        <4> DEFINE q == hw.bufs
                   r == hw'.bufs
        <4>1. q \in Seq((0 .. NumStream) \X Slot) /\ q # <<>> /\ r = Tail(q)
          BY <3>1 DEF EncTypes, EncVarTypes, HwSet
        <4> HIDE DEF q, r
        <4>2. /\ Len(q) >= 1 /\ Head(q) = q[1] /\ DOMAIN r = 1 .. Len(q) - 1
              /\ \A k \in 1 .. Len(q) - 1 : r[k] = q[k + 1]
          BY <4>1, TailPlaces, HeadTailProperties
        <4> QED BY <4>2 DEF q, r, L
      <3>3. hw.bufs[1] = <<Buf(W), At(W)>>
        <4>1. 1 \in 1 .. L /\ W + 1 - 1 = W
          BY <1>1, <3>2
        <4> QED BY <1>2, <4>1
      <3>4. \A k \in 1 .. W + 1 : k \in 1 .. W \/ (k = W + 1 /\ k - 1 = W)
        BY <1>1
      <3>5. \A k \in 1 .. W + 1 :
               hw'.status[k].streamId = At(k - 1)' /\ hw'.status[k].buf = Buf(k - 1)'
        BY <1>2, <2>1, <3>1, <3>2, <3>3, <3>4
      <3>6. \A k \in 1 .. L - 1 : k + 1 \in 1 .. L /\ W + 1 + k - 1 = W + (k + 1) - 1
        BY <1>1
      <3>7. \A i : \A k \in 1 .. L - 1 : i = W + 1 + k - 1 => hw'.bufs[k] = <<Buf(i)', At(i)'>>
        BY <1>2, <2>1, <3>2, <3>6
      <3> QED BY <3>1, <3>2, <3>5, <3>7
    <2>3. ASSUME ~EncodePart
          PROVE  /\ WaitingParts' = W
                 /\ \A k \in 1 .. W :
                       hw'.status[k].streamId = At(k - 1)' /\ hw'.status[k].buf = Buf(k - 1)'
      BY <1>2, <1>6, <2>1, <2>3, WaitingStep DEF W
    <2>4. ASSUME NEW b, NEW s, hw'.bufs = Append(hw.bufs, <<b, s>>), s = At(W + L), b = Buf(W + L)
          PROVE  \A i : \A k \in DOMAIN hw'.bufs : i = W + k - 1 => hw'.bufs[k] = <<Buf(i)', At(i)'>>
      <3>1. /\ DOMAIN hw'.bufs = 1 .. L + 1 /\ hw'.bufs[L + 1] = <<b, s>>
            /\ \A k \in 1 .. L : hw'.bufs[k] = hw.bufs[k]
        <4> DEFINE q == hw.bufs
                   r == hw'.bufs
                   x == <<b, s>>
        <4>1. q \in Seq((0 .. NumStream) \X Slot) /\ r = Append(q, x)
          BY <2>4 DEF EncTypes, EncVarTypes, HwSet
        <4> HIDE DEF q, r, x
        <4>2. q \in Seq(((0 .. NumStream) \X Slot) \cup {x})
          BY <4>1, SeqDef
        <4>3. /\ DOMAIN r = 1 .. Len(q) + 1 /\ r[Len(q) + 1] = x
              /\ \A k \in 1 .. Len(q) : r[k] = q[k]
          BY <4>1, <4>2, AppendPlaces
        <4> QED BY <4>3 DEF q, r, x, L
      <3>2. \A k \in 1 .. L + 1 : k \in 1 .. L \/ (k = L + 1 /\ W + k - 1 = W + L)
        BY <1>1
      <3>3. \A k \in 1 .. L : hw'.bufs[k] = <<Buf(W + k - 1), At(W + k - 1)>>
        BY <1>2, <3>1
      <3>4. \A i : \A k \in 1 .. L + 1 : i = W + k - 1 => hw'.bufs[k] = <<Buf(i)', At(i)'>>
        BY <2>1, <2>4, <3>1, <3>2, <3>3
      <3> QED BY <3>1, <3>4
    <2>5. CASE PutHandsOver
      <3>1. /\ hw'.bufs = Append(hw.bufs, <<Now.buf, curStreamSent.app>>) /\ hw.alive
            /\ apc = "put" /\ ~EncodePart
        BY <2>5, BufsMoves, PassMoves
      <3>2. W + L = Used - 1
        <4>1. cpc # "put"
          BY <3>1 DEF RingLength
        <4>2. Passing = 1
          BY <3>1, <4>1 DEF Passing
        <4> QED BY <1>1, <3>1, <4>2
      <3>3. curStreamSent.app = At(W + L) /\ Now.buf = Buf(W + L)
        BY <3>1, <3>2 DEF RingLength, Buf
      <3> QED BY <2>3, <2>4, <3>1, <3>3
    <2>6. CASE CallbackHandsOver /\ hw.alive
      <3>1. /\ hw'.bufs = Append(hw.bufs, <<st.buf, curStreamSent.cb>>)
            /\ cpc = "put" /\ ~EncodePart
        BY <2>6, BufsMoves, PassMoves
      <3>2. W + L = Used - 1
        <4>1. apc # "put"
          BY <3>1, PutsAlone DEF Busy
        <4>2. Passing = 1
          BY <3>1, <4>1 DEF Passing
        <4> QED BY <1>1, <2>6, <4>2
      <3>3. curStreamSent.cb = At(W + L) /\ st.buf = Buf(W + L)
        BY <3>1, <3>2 DEF RingLength, Buf
      <3> QED BY <2>3, <2>4, <3>1, <3>3
    <2>7. CASE DestroyChannel
      <3>1. hw'.bufs = <<>> /\ ~EncodePart
        BY <2>7, BufsMoves, PassMoves
      <3> QED BY <2>3, <3>1
    <2>8. CASE /\ ~EncodePart /\ ~PutHandsOver /\ ~DestroyChannel
               /\ ~(CallbackHandsOver /\ hw.alive)
      <3>1. hw'.bufs = hw.bufs
        BY <2>8, BufsMoves
      <3> QED BY <1>1, <1>2, <2>1, <2>3, <2>8, <3>1
    <2> QED BY <2>2, <2>5, <2>6, <2>7, <2>8
  <1> QED BY <1>4, <1>5, <1>6

\* Every buffer of the ring is with the driver, waits with its part, or is
\* being passed by one of the threads, which has the last.
LEMMA RingLengthStep ==
  ASSUME EncTypes, FramesAgree, EosOnce, RingOrder, RingLength, RingBuffers, [EncNext]_encVars
  PROVE  RingLength'
  <1> DEFINE W == WaitingParts
             L == Len(hw.bufs)
             P == Passing
             pa == IF apc = "put" THEN 1 ELSE 0
             pc == IF cpc = "put" THEN 1 ELSE 0
  <1>1. /\ W \in Nat /\ L \in Nat /\ P \in {0, 1} /\ Used \in 0 .. N - 1 /\ N \in Nat
        /\ Slot = 0 .. N - 1 /\ W + L + P <= Used
        /\ hw.alive => W + L + P = Used
    BY RingNumbers
  <1>2. P = pa + pc /\ Passing' = (IF apc' = "put" THEN 1 ELSE 0) + (IF cpc' = "put" THEN 1 ELSE 0)
    BY DEF Passing
  <1>3. /\ apc = "put" => /\ cpc \in {"wait", "ended"}
                          /\ curStreamSent.app = At(Used - 1) /\ Buf(Used - 1) = Now.buf
        /\ cpc = "put" => curStreamSent.cb = At(Used - 1) /\ Buf(Used - 1) = st.buf
    <2>1. /\ apc = "put" => Buf(Used - 1) = Now.buf
          /\ cpc = "put" => Buf(Used - 1) = st.buf
      BY DEF RingLength, Buf
    <2> QED BY <2>1 DEF RingLength
  <1>4. SUFFICES
        /\ WaitingParts' + Len(hw'.bufs) + Passing' <= Used'
        /\ hw'.alive => WaitingParts' + Len(hw'.bufs) + Passing' = Used'
        /\ apc' = "put" => cpc' \in {"wait", "ended"}
        /\ \A k : k = Used' - 1 =>
              /\ apc' = "put" => curStreamSent'.app = At(k)' /\ Buf(k)' = Now'.buf
              /\ cpc' = "put" => curStreamSent'.cb = At(k)' /\ Buf(k)' = st'.buf
    <2>1. /\ apc' = "put" => curStreamSent'.app = At(Used - 1)' /\ Buf(Used - 1)' = Now'.buf
          /\ cpc' = "put" => curStreamSent'.cb = At(Used - 1)' /\ Buf(Used - 1)' = st'.buf
      BY <1>4
    <2> QED BY <1>4, <2>1 DEF RingLength, InDriver, Buf
  <1>5. apc = "put" => cpc \in {"wait", "ended"}
    BY <1>3
  <1> HIDE DEF W, L, P, pa, pc
  <1>6. CASE PutTakesSlot
    <2>1. /\ RingTakes(Now.buf) /\ curStreamSent'.app = At(Used) /\ ~Busy
          /\ WaitingParts' = W /\ hw' = hw /\ apc = "idle" /\ apc' = "put" /\ cpc' = cpc
          /\ Now' = Now
      BY <1>6, BufferTaken, WaitingStep, PassMoves DEF W
    <2>2. cpc \in {"wait", "ended"}
      BY <2>1 DEF Busy
    <2>3. /\ Used' = Used + 1 /\ Len(hw'.bufs) = L /\ hw'.alive = hw.alive /\ P = 0 /\ Passing' = 1
          /\ \A k : k = Used' - 1 => k = Used
      BY <1>1, <1>2, <2>1, <2>2 DEF RingTakes, L, pa, pc
    <2>4. \A k \in 0 .. Used : At(k)' = At(k) /\ Buf(k)' = IF k < Used THEN Buf(k) ELSE Now.buf
      BY <1>1, <2>1 DEF RingTakes
    <2>5. \A k : k = Used => curStreamSent'.app = At(k)' /\ Buf(k)' = Now'.buf
      BY <1>1, <2>1, <2>4
    <2> QED BY <1>1, <2>1, <2>2, <2>3, <2>5
  <1>7. CASE CallbackTakesSlot
    <2>1. /\ RingTakes(st.buf) /\ curStreamSent'.cb = At(Used) /\ Busy
          /\ WaitingParts' = W /\ hw' = hw /\ cpc = "user" /\ cpc' = "put" /\ apc' = apc
          /\ st' = st
      BY <1>7, BufferTaken, WaitingStep, PassMoves DEF W
    <2>2. apc # "put"
      BY <1>5, <2>1
    <2>3. /\ Used' = Used + 1 /\ Len(hw'.bufs) = L /\ hw'.alive = hw.alive /\ P = 0 /\ Passing' = 1
          /\ \A k : k = Used' - 1 => k = Used
      BY <1>1, <1>2, <2>1, <2>2 DEF RingTakes, L, pa, pc
    <2>4. \A k \in 0 .. Used : At(k)' = At(k) /\ Buf(k)' = IF k < Used THEN Buf(k) ELSE st.buf
      BY <1>1, <2>1 DEF RingTakes
    <2>5. \A k : k = Used => curStreamSent'.cb = At(k)' /\ Buf(k)' = st'.buf
      BY <1>1, <2>1, <2>4
    <2> QED BY <1>1, <2>1, <2>2, <2>3, <2>5
  <1>8. CASE EndEncodingBegins
    <2>1. /\ RingGives /\ WaitingParts' = W - 1 /\ W >= 1
          /\ hw'.bufs = hw.bufs /\ hw'.alive = hw.alive
          /\ cpc = "wait" /\ cpc' \in {"sections", "user"} /\ apc' = apc /\ apc # "put"
      BY <1>8, BufferGiven, WaitingStep DEF W
    <2>2. /\ Used' = Used - 1 /\ P = 0 /\ Passing' = 0
      BY <1>1, <1>2, <2>1 DEF RingGives, pa, pc
    <2> QED BY <1>1, <2>1, <2>2 DEF L
  <1>9. CASE ~PutTakesSlot /\ ~CallbackTakesSlot /\ ~EndEncodingBegins
    <2>1. /\ Used' = Used /\ \A k : At(k)' = At(k) /\ Buf(k)' = Buf(k)
          /\ curStreamSent' = curStreamSent
      BY <1>9, RingElse DEF RingStays
    <2>2. /\ apc' = "put" => apc = "put" /\ Now' = Now
          /\ cpc' = "put" => cpc = "put" /\ st' = st
      BY <1>9, PassMoves
    <2>3. /\ \A k : k = Used' - 1 =>
              /\ apc' = "put" => curStreamSent'.app = At(k)' /\ Buf(k)' = Now'.buf
              /\ cpc' = "put" => curStreamSent'.cb = At(k)' /\ Buf(k)' = st'.buf
      BY <1>3, <2>1, <2>2
    <2>4. apc' = "put" => cpc' \in {"wait", "ended"}
      BY <1>5, <1>9, <2>2, CallbackMoves
    <2>5. SUFFICES /\ WaitingParts' + Len(hw'.bufs) + Passing' <= Used
                   /\ hw'.alive => WaitingParts' + Len(hw'.bufs) + Passing' = Used
      BY <2>1, <2>3, <2>4
    <2>6. /\ hw.bufs \in Seq((0 .. NumStream) \X Slot)
          /\ \A x : Len(Append(hw.bufs, x)) = L + 1
          /\ hw.bufs # <<>> => Len(Tail(hw.bufs)) = L - 1
      BY HeadTailProperties DEF EncTypes, EncVarTypes, HwSet, L
    <2>7. CASE EncodePart
      <3>1. /\ WaitingParts' = W + 1 /\ Len(hw'.bufs) = L - 1 /\ hw'.alive = hw.alive
        BY <2>6, <2>7, WaitingStep DEF W
      <3>2. P = Passing'
        BY <1>2, <1>9, <2>7, PassMoves DEF pa, pc
      <3>3. WaitingParts' + Len(hw'.bufs) = W + L
        BY <1>1, <3>1
      <3>4. WaitingParts' + Len(hw'.bufs) + Passing' = W + L + P
        BY <3>2, <3>3
      <3> QED BY <1>1, <3>1, <3>4
    <2>8. ASSUME ~EncodePart PROVE WaitingParts' = W
      BY <1>9, <2>8, WaitingStep DEF W
    <2>9. CASE PutHandsOver
      <3>1. /\ hw'.bufs = Append(hw.bufs, <<Now.buf, curStreamSent.app>>)
            /\ apc = "put" /\ apc' = "idle" /\ cpc' = cpc /\ ~EncodePart /\ hw'.alive = hw.alive
        BY <2>9, BufsMoves, PassMoves
      <3>2. P = 1 /\ Passing' = 0 /\ Len(hw'.bufs) = L + 1
        BY <1>2, <1>5, <2>6, <3>1 DEF pa, pc
      <3>3. WaitingParts' = W /\ hw'.alive = hw.alive
        BY <2>8, <3>1
      <3> QED BY <1>1, <3>2, <3>3
    <2>10. CASE CallbackHandsOver
      <3>1. /\ hw'.bufs = IF hw.alive THEN Append(hw.bufs, <<st.buf, curStreamSent.cb>>)
                          ELSE hw.bufs
            /\ cpc = "put" /\ cpc' # "put" /\ apc' = apc /\ ~EncodePart /\ hw'.alive = hw.alive
        BY <2>10, BufsMoves, PassMoves
      <3>2. P = 1 /\ Passing' = 0
        BY <1>2, <1>5, <3>1 DEF pa, pc
      <3>3. Len(hw'.bufs) = IF hw.alive THEN L + 1 ELSE L
        BY <2>6, <3>1 DEF L
      <3> QED BY <1>1, <2>8, <3>1, <3>2, <3>3
    <2>11. CASE DestroyChannel
      <3>1. hw'.bufs = <<>> /\ ~hw'.alive /\ ~EncodePart /\ Len(hw'.bufs) = 0
        BY <2>11, BufsMoves, PassMoves
      <3>2. Passing' = P
        BY <1>2, <1>9, <2>11, PassMoves DEF pa, pc
      <3> QED BY <1>1, <2>8, <3>1, <3>2
    <2>12. CASE ~EncodePart /\ ~PutHandsOver /\ ~DestroyChannel /\ ~CallbackHandsOver
      <3>1. hw'.bufs = hw.bufs /\ hw'.alive = hw.alive
        BY <2>12, BufsMoves
      <3>2. Passing' = P
        BY <1>2, <1>9, <2>12, PassMoves DEF pa, pc
      <3> QED BY <1>1, <2>8, <2>12, <3>1, <3>2 DEF L
    <2> QED BY <2>7, <2>9, <2>10, <2>11, <2>12
  <1> QED BY <1>6, <1>7, <1>8, <1>9

---------------------------------------------------------------------------
(* The references on the stream buffers *)

\* How many slots in use hold the buffer x.
InRing(x) == TimesIn(ring.StreamSent, Window, x)

LEMMA InRingTakes ==
  ASSUME EncTypes, NEW b, RingTakes(b), Used + 1 < N, EncTypes'
  PROVE  \A x : InRing(x)' = InRing(x) + Same(b, x)
  <1> DEFINE S == Window
             T == Window'
             f == ring.StreamSent
             g == ring'.StreamSent
             c == At(Used)
  <1>1. /\ Used \in 0 .. N - 1 /\ Slot = 0 .. N - 1 /\ N \in Nat
        /\ \A j, k \in Slot : At(j) = At(k) => j = k
        /\ S = {At(k) : k \in 0 .. Used - 1}
    BY RingNow, RingSize
  <1>2. T = {At(k)' : k \in 0 .. Used' - 1}
    BY DEF Window, At, Used
  <1>3. /\ Used' = Used + 1
        /\ \A k \in 0 .. Used : At(k)' = At(k) /\ Buf(k)' = IF k < Used THEN Buf(k) ELSE b
    BY <1>1 DEF RingTakes
  <1>4. \A k \in 0 .. Used : k \in 0 .. Used - 1 \/ k = Used
    BY <1>1
  <1>5. T = S \cup {c}
    BY <1>1, <1>2, <1>3, <1>4
  <1>6. c \notin S
    <2>1. \A k \in 0 .. Used - 1 : k \in Slot /\ Used \in Slot /\ k # Used
      BY <1>1
    <2> QED BY <1>1, <2>1
  <1>7. \A k \in 0 .. Used : Buf(k)' = g[At(k)]
    BY <1>3 DEF Buf
  <1>8. \A id \in S : g[id] = f[id]
    <2>1. \A k \in 0 .. Used - 1 : k \in 0 .. Used /\ k < Used
      BY <1>1
    <2>2. \A k \in 0 .. Used - 1 : g[At(k)] = f[At(k)]
      BY <1>3, <1>7, <2>1 DEF Buf
    <2> QED BY <1>1, <2>2
  <1>9. g[c] = b
    <2>1. Used \in 0 .. Used /\ ~(Used < Used)
      BY <1>1
    <2>2. \A k : k = Used => g[At(k)] = b
      BY <1>3, <1>7, <2>1
    <2> QED BY <2>2
  <1>10. IsFiniteSet(S) /\ IsFiniteSet(T)
    <2>1. S \in SUBSET Slot /\ c \in Slot
      BY <1>1, WindowType, RingNow
    <2> QED BY <1>5, <2>1, FiniteSlots
  <1>11. \A x : InRing(x) = TimesIn(f, S, x) /\ InRing(x)' = TimesIn(g, T, x)
    BY DEF InRing
  <1> HIDE DEF S, T, f, g, c
  <1> QED BY <1>5, <1>6, <1>8, <1>9, <1>10, <1>11, TimesTakes

LEMMA InRingGives ==
  ASSUME EncTypes, EndEncodingBegins, RingGives, Used > 0, EncTypes'
  PROVE  \A x : InRing(x)' = InRing(x) - Same(Buf(0), x)
  <1> DEFINE S == Window
             T == Window'
             f == ring.StreamSent
             g == ring'.StreamSent
             c == At(0)
  <1>1. /\ Used \in 0 .. N - 1 /\ Slot = 0 .. N - 1 /\ N \in Nat
        /\ \A j, k \in Slot : At(j) = At(k) => j = k
        /\ S = {At(k) : k \in 0 .. Used - 1}
    BY RingNow, RingSize
  <1>2. T = {At(k)' : k \in 0 .. Used' - 1}
    BY DEF Window, At, Used
  <1>3. /\ Used' = Used - 1 /\ \A k \in 0 .. Used - 2 : At(k)' = At(k + 1)
    BY <1>1 DEF RingGives
  <1>4. T = {At(k + 1) : k \in 0 .. Used - 2}
    BY <1>1, <1>2, <1>3
  <1>5. /\ \A k \in 0 .. Used - 2 : k + 1 \in 0 .. Used - 1 /\ k + 1 # 0
        /\ \A k \in 0 .. Used - 1 : k = 0 \/ (k - 1 \in 0 .. Used - 2 /\ k = (k - 1) + 1)
        /\ 0 \in 0 .. Used - 1 /\ 0 .. Used - 1 \subseteq Slot
    BY <1>1
  <1>6. T = S \ {c}
    <2>1. T \subseteq S \ {c}
      BY <1>1, <1>4, <1>5
    <2>2. S \ {c} \subseteq T
      BY <1>1, <1>4, <1>5
    <2> QED BY <2>1, <2>2
  <1>7. c \in S
    BY <1>1, <1>5
  <1>8. g = f
    BY DEF EndEncodingBegins, EncTypes, EncVarTypes, RingSet
  <1>9. IsFiniteSet(S) /\ IsFiniteSet(T)
    <2>1. S \in SUBSET Slot
      BY WindowType
    <2> QED BY <1>6, <2>1, FiniteSlots
  <1>10. /\ \A x : InRing(x) = TimesIn(f, S, x) /\ InRing(x)' = TimesIn(g, T, x)
         /\ Buf(0) = f[c]
    BY DEF InRing, Buf
  <1> HIDE DEF S, T, f, g, c
  <1> QED BY <1>6, <1>7, <1>8, <1>9, <1>10, TimesLeaves

\* Who changes the references on the stream buffers.
LEMMA StreamRefsMove ==
  ASSUME EncTypes, [EncNext]_encVars, NEW b \in StreamBuf
  PROVE  /\ refs.stream[b] \in Int
         /\ PutHandsOver => refs'.stream[b] = refs.stream[b] + Same(Now.buf, b)
         /\ CallbackHandsOver => refs'.stream[b] = refs.stream[b] + Same(st.buf, b)
         /\ StreamReleased => refs'.stream[b] = refs.stream[b] - Same(st.buf, b)
         /\ ReleaseAll => refs'.stream[b] = refs.stream[b] - InRing(b)
         /\ ~PutHandsOver /\ ~CallbackHandsOver /\ ~StreamReleased /\ ~ReleaseAll =>
               refs'.stream = refs.stream
  <1>1. refs \in RefsSet /\ refs.stream \in [StreamBuf -> Int] /\ refs.stream[b] \in Int
    BY DEF EncTypes, EncVarTypes, RefsSet
  <1>2. ASSUME NEW x, refs' = [refs EXCEPT !.stream[x] = @ + 1]
        PROVE  refs'.stream[b] = refs.stream[b] + Same(x, b)
    BY <1>1, <1>2 DEF RefsSet, Same
  <1>3. PutHandsOver => refs'.stream[b] = refs.stream[b] + Same(Now.buf, b)
    BY <1>2 DEF PutHandsOver, HandOver
  <1>4. CallbackHandsOver => refs'.stream[b] = refs.stream[b] + Same(st.buf, b)
    BY <1>2 DEF CallbackHandsOver, HandOver
  <1>5. StreamReleased => refs'.stream[b] = refs.stream[b] - Same(st.buf, b)
    BY <1>1 DEF StreamReleased, RefsSet, Same
  <1>6. ReleaseAll => refs'.stream[b] = refs.stream[b] - InRing(b)
    BY DEF ReleaseAll, InRing
  <1>7. ASSUME FrameRefused \/ SourceReleased PROVE refs'.stream = refs.stream
    <2>1. PICK n, id : refs' = Unref(refs, n, id)
      BY <1>7 DEF FrameRefused, SourceReleased, ReleaseSource
    <2> QED BY <1>1, <2>1, UnrefIs
  <1>8. GetFrameInfo => refs'.stream = refs.stream
    BY <1>1 DEF GetFrameInfo, RefsSet
  <1> QED BY <1>1, <1>3, <1>4, <1>5, <1>6, <1>7, <1>8, Writers

\* The references that a thread has not taken yet, and that of the callback.
AppPasses(b) == IF apc = "put" THEN Same(Now.buf, b) ELSE 0
CbPasses(b) == IF cpc = "put" THEN Same(st.buf, b) ELSE 0
CbHolds(b) == IF Busy THEN Same(st.buf, b) ELSE 0
Balanced(b) == refs.stream[b] + AppPasses(b) + CbPasses(b) = InRing(b) + CbHolds(b)

LEMMA BalanceIs ==
  StreamRefs <=> /\ apc # "destroyed" => \A b \in StreamBuf : Balanced(b)
                 /\ apc = "destroyed" => Sent = {} /\ \A b \in StreamBuf : refs.stream[b] = 0
  <1>1. ASSUME NEW b \in StreamBuf
        PROVE  /\ AppPasses(b) = IF apc = "put" /\ Now.buf = b THEN 1 ELSE 0
               /\ CbPasses(b) = IF cpc = "put" /\ st.buf = b THEN 1 ELSE 0
               /\ CbHolds(b) = IF Busy /\ st.buf = b THEN 1 ELSE 0
    BY DEF AppPasses, CbPasses, CbHolds, Same
  <1> QED BY <1>1 DEF StreamRefs, Balanced, InRing

LEMMA BalanceStep ==
  ASSUME EncTypes, FramesAgree, EosOnce, RingOrder, RingLength, RingBuffers, [EncNext]_encVars,
         apc # "destroyed", apc' # "destroyed", NEW b \in StreamBuf, Balanced(b)
  PROVE  Balanced(b)'
  <1> DEFINE R == refs.stream[b]
             A == AppPasses(b)
             C == CbPasses(b)
             H == CbHolds(b)
             T == InRing(b)
  <1>1. EncTypes'
    BY EncTypesStep
  <1>2. /\ R \in Int /\ A \in {0, 1} /\ C \in {0, 1} /\ H \in {0, 1} /\ T \in Nat
        /\ R + A + C = T + H
    <2>1. T \in Nat
      BY WindowType, FiniteSlots DEF InRing, TimesIn
    <2> QED BY <2>1, SameIs, StreamRefsMove DEF AppPasses, CbPasses, CbHolds, Balanced
  <1>3. /\ A = (IF apc = "put" THEN Same(Now.buf, b) ELSE 0)
        /\ C = (IF cpc = "put" THEN Same(st.buf, b) ELSE 0)
        /\ H = (IF Busy THEN Same(st.buf, b) ELSE 0)
        /\ A' = (IF apc' = "put" THEN Same(Now'.buf, b) ELSE 0)
        /\ C' = (IF cpc' = "put" THEN Same(st'.buf, b) ELSE 0)
        /\ H' = (IF Busy' THEN Same(st'.buf, b) ELSE 0)
    BY DEF AppPasses, CbPasses, CbHolds, Same
  <1>4. Balanced(b)' <=> R' + A' + C' = T' + H'
    BY DEF Balanced
  <1>5. (Busy <=> cpc \notin {"wait", "ended"}) /\ (Busy' <=> cpc' \notin {"wait", "ended"})
    BY DEF Busy
  <1>6. /\ ring' = ring => T' = T
        /\ refs'.stream = refs.stream => R' = R
    BY DEF InRing, Window
  <1> HIDE DEF A, C, H, T, R
  <1>7. CASE PutTakesSlot
    <2>1. /\ RingTakes(Now.buf) /\ Used + 1 < N /\ apc = "idle" /\ apc' = "put" /\ cpc' = cpc
          /\ Now' = Now /\ st' = st /\ refs' = refs
      BY <1>7, BufferTaken, PassMoves DEF PutTakesSlot, cbVars
    <2>2. T' = T + Same(Now.buf, b)
      BY <1>1, <2>1, InRingTakes DEF T
    <2>3. A = 0 /\ A' = Same(Now.buf, b) /\ C' = C /\ H' = H /\ R' = R
      BY <1>3, <1>5, <1>6, <2>1
    <2> QED BY <1>2, <1>4, <2>2, <2>3, SameIs
  <1>8. CASE CallbackTakesSlot
    <2>1. /\ RingTakes(st.buf) /\ Used + 1 < N /\ cpc = "user" /\ cpc' = "put" /\ apc' = apc
          /\ apc # "put" /\ st' = st /\ refs' = refs
      BY <1>8, BufferTaken, PassMoves, PutsAlone DEF CallbackTakesSlot
    <2>2. T' = T + Same(st.buf, b)
      BY <1>1, <2>1, InRingTakes DEF T
    <2>3. A = 0 /\ A' = 0 /\ C = 0 /\ C' = Same(st.buf, b) /\ H' = H /\ R' = R
      BY <1>3, <1>5, <1>6, <2>1
    <2> QED BY <1>2, <1>4, <2>2, <2>3, SameIs
  <1>9. CASE EndEncodingBegins
    <2>1. /\ RingGives /\ Used > 0 /\ st'.buf = Buf(0) /\ refs' = refs
          /\ cpc = "wait" /\ cpc' \in {"sections", "user"} /\ apc' = apc /\ apc # "put"
      BY <1>9, BufferGiven
    <2>2. T' = T - Same(Buf(0), b)
      BY <1>1, <1>9, <2>1, InRingGives DEF T
    <2>3. A = 0 /\ A' = 0 /\ C = 0 /\ C' = 0 /\ H = 0 /\ H' = Same(Buf(0), b) /\ R' = R
      BY <1>3, <1>5, <1>6, <2>1
    <2> QED BY <1>2, <1>4, <2>2, <2>3, SameIs
  <1>10. CASE PutHandsOver
    <2>1. /\ apc = "put" /\ apc' = "idle" /\ cpc' = cpc /\ st' = st /\ ring' = ring
          /\ R' = R + Same(Now.buf, b)
      BY <1>10, PassMoves, StreamRefsMove DEF PutHandsOver, streams, cbVars, R
    <2>2. A = Same(Now.buf, b) /\ A' = 0 /\ C' = C /\ H' = H /\ T' = T
      BY <1>3, <1>5, <1>6, <2>1
    <2> QED BY <1>2, <1>4, <2>1, <2>2, SameIs
  <1>11. CASE CallbackHandsOver
    <2>1. /\ cpc = "put" /\ cpc' \in {"source", "unref"} /\ apc' = apc /\ st' = st /\ ring' = ring
          /\ R' = R + Same(st.buf, b)
      BY <1>11, PassMoves, StreamRefsMove DEF CallbackHandsOver, streams, CallbackGoes, R
    <2>2. apc # "put"
      BY <1>5, <2>1, PutsAlone
    <2>3. C = Same(st.buf, b) /\ C' = 0 /\ A = 0 /\ A' = 0 /\ H' = H /\ T' = T
      BY <1>3, <1>5, <1>6, <2>1, <2>2
    <2> QED BY <1>2, <1>4, <2>1, <2>3, SameIs
  <1>12. CASE StreamReleased
    <2>1. /\ cpc = "unref" /\ cpc' = "wait" /\ st' = st /\ ring' = ring
          /\ apc' = apc /\ program' = program /\ next' = next
          /\ R' = R - Same(st.buf, b)
      BY <1>12, StreamRefsMove DEF StreamReleased, streams, CallbackGoes, appVars, R
    <2>2. H = Same(st.buf, b) /\ H' = 0 /\ C = 0 /\ C' = 0 /\ T' = T
      BY <1>3, <1>5, <1>6, <2>1
    <2>3. A' = A
      BY <1>3, <2>1 DEF Now
    <2> QED BY <1>2, <1>4, <2>1, <2>2, <2>3, SameIs
  <1>13. CASE /\ ~PutTakesSlot /\ ~CallbackTakesSlot /\ ~EndEncodingBegins /\ ~PutHandsOver
              /\ ~CallbackHandsOver /\ ~StreamReleased
    <2>1. ~ReleaseAll
      BY DEF ReleaseAll, Goes
    <2>2. /\ ring' = ring /\ refs'.stream = refs.stream /\ st' = st
      BY <1>13, <2>1, Writers, StreamRefsMove
    <2>3. /\ apc' = "put" <=> apc = "put"
          /\ apc' = "put" => Now' = Now
          /\ cpc' = "put" <=> cpc = "put"
      BY <1>13, PassMoves
    <2>4. Busy' <=> Busy
      BY <1>5, <1>13, CallbackMoves
    <2>5. A' = A /\ C' = C /\ H' = H /\ R' = R /\ T' = T
      BY <1>3, <1>6, <2>2, <2>3, <2>4
    <2> QED BY <1>2, <1>4, <2>5
  <1> QED BY <1>7, <1>8, <1>9, <1>10, <1>11, <1>12, <1>13

LEMMA StreamRefsStep ==
  ASSUME EncTypes, FramesAgree, EosOnce, RingOrder, RingLength, RingBuffers, StreamRefs,
         [EncNext]_encVars
  PROVE  StreamRefs'
  <1>1. /\ apc # "destroyed" => \A b \in StreamBuf : Balanced(b)
        /\ apc = "destroyed" => Sent = {} /\ \A b \in StreamBuf : refs.stream[b] = 0
    BY BalanceIs
  <1>2. SUFFICES
        /\ apc' # "destroyed" => \A b \in StreamBuf : Balanced(b)'
        /\ apc' = "destroyed" => Sent' = {} /\ \A b \in StreamBuf : refs'.stream[b] = 0
    <2>1. ASSUME NEW b \in StreamBuf
          PROVE  /\ AppPasses(b)' = IF apc' = "put" /\ Now'.buf = b THEN 1 ELSE 0
                 /\ CbPasses(b)' = IF cpc' = "put" /\ st'.buf = b THEN 1 ELSE 0
                 /\ CbHolds(b)' = IF Busy' /\ st'.buf = b THEN 1 ELSE 0
      BY DEF AppPasses, CbPasses, CbHolds, Same
    <2> QED BY <1>2, <2>1 DEF StreamRefs, Balanced, InRing
  <1>3. CASE apc = "destroyed"
    <2>1. apc' = apc /\ SourceSent' = SourceSent /\ refs' = refs
      BY <1>3, NothingAfterDestroy DEF encVars, appVars
    <2> QED BY <1>1, <1>3, <2>1 DEF Sent
  <1>4. CASE apc # "destroyed" /\ apc' # "destroyed"
    BY <1>1, <1>4, BalanceStep
  <1>5. CASE apc # "destroyed" /\ apc' = "destroyed"
    <2>1. ReleaseAll /\ apc = "join" /\ cpc = "ended"
      BY <1>5, AppMoves DEF ReleaseAll
    <2>2. Sent' = {}
      BY <2>1 DEF ReleaseAll, Sent
    <2>3. ASSUME NEW b \in StreamBuf PROVE refs'.stream[b] = 0
      <3>1. refs.stream[b] + 0 + 0 = InRing(b) + 0 /\ refs.stream[b] \in Int
        BY <1>1, <1>5, <2>1, StreamRefsMove DEF Balanced, AppPasses, CbPasses, CbHolds, Busy
      <3>2. InRing(b) \in Nat
        BY WindowType, FiniteSlots DEF InRing, TimesIn
      <3>3. refs'.stream[b] = refs.stream[b] - InRing(b)
        BY <2>1, StreamRefsMove
      <3> QED BY <3>1, <3>2, <3>3
    <2> QED BY <1>5, <2>2, <2>3
  <1> QED BY <1>3, <1>4, <1>5

---------------------------------------------------------------------------
(* The theorems *)

LEMMA EncStreamsInit == EncInit => EncStreams
  <1> SUFFICES ASSUME EncInit PROVE EncStreams
    OBVIOUS
  <1>1. /\ hw.alive = TRUE /\ hw.eos = FALSE /\ hw.jobs = <<>> /\ hw.busy = <<>>
        /\ hw.bufs = <<>> /\ hw.status = <<>> /\ apc = "idle" /\ cpc = "wait"
        /\ ring.Sent = 0 /\ ring.Recv = 0
        /\ \A b \in StreamBuf : refs.stream[b] = 0
    BY DEF EncInit
  <1>2. Used = 0
    BY <1>1, RingSize DEF Used, N
  <1>3. WaitingParts = 0 /\ Len(hw.bufs) = 0 /\ Passing = 0
    BY <1>1 DEF WaitingParts, Passing
  <1>4. EosOnce
    BY <1>1 DEF EosOnce, EosIsLast, Framing
  <1>5. RingOrder /\ RingLength
    BY <1>1, <1>2, <1>3 DEF RingOrder, RingLength, InDriver
  <1>6. RingBuffers
    BY <1>1, <1>2 DEF RingBuffers
  <1>7. StreamRefs
    <2>1. Window = {}
      BY <1>2 DEF Window, Used
    <2>2. \A b : TimesIn(ring.StreamSent, Window, b) = 0
      BY <2>1, FS_EmptySet DEF TimesIn
    <2> QED BY <1>1, <2>2 DEF StreamRefs, Busy
  <1> QED BY <1>4, <1>5, <1>6, <1>7 DEF EncStreams

LEMMA EncStreamsStep ==
  ASSUME EncTypes, EncFrames, EncStreams, [EncNext]_encVars PROVE EncStreams'
  <1>1. FramesAgree /\ EosOnce /\ RingOrder /\ RingLength /\ RingBuffers /\ StreamRefs
    BY DEF EncFrames, EncStreams
  <1> QED BY <1>1, EosStep, RingOrderStep, RingLengthStep, RingBuffersStep, StreamRefsStep
          DEF EncStreams

\* No reference on a stream buffer is given back that was not taken: the
\* buffer a thread is passing is in the ring.
LEMMA StreamCounts ==
  ASSUME EncTypes, FramesAgree, EncStreams
  PROVE  refs.stream \in [StreamBuf -> Nat]
  <1>1. /\ apc # "destroyed" => \A b \in StreamBuf : Balanced(b)
        /\ apc = "destroyed" => \A b \in StreamBuf : refs.stream[b] = 0
    BY BalanceIs DEF EncStreams
  <1>2. refs.stream \in [StreamBuf -> Int]
    BY DEF EncTypes, EncVarTypes, RefsSet
  <1>3. ASSUME NEW b \in StreamBuf, apc # "destroyed" PROVE refs.stream[b] \in Nat
    <2>1. /\ refs.stream[b] + AppPasses(b) + CbPasses(b) = InRing(b) + CbHolds(b)
          /\ refs.stream[b] \in Int
      BY <1>1, <1>2, <1>3 DEF Balanced
    <2>2. InRing(b) \in Nat
      BY WindowType, FiniteSlots DEF InRing, TimesIn
    <2>3. CASE apc = "put" /\ Now.buf = b
      <3>1. cpc \in {"wait", "ended"} /\ Passing = 1
        BY <2>3, PutsAlone DEF Passing
      <3>2. AppPasses(b) = 1 /\ CbPasses(b) = 0 /\ CbHolds(b) = 0
        BY <2>3, <3>1 DEF AppPasses, CbPasses, CbHolds, Busy, Same
      <3>3. /\ Used \in 0 .. N - 1 /\ Used >= 1
        BY <3>1, RingNumbers DEF EncStreams
      <3> DEFINE S == Window
                 f == ring.StreamSent
                 c == At(Used - 1)
                 D == S \ {c}
      <3>4. c \in S /\ f[c] = b
        BY <2>3, <3>3, RingNow DEF EncStreams, RingLength
      <3>5. IsFiniteSet(S) /\ IsFiniteSet(D)
        <4>1. S \in SUBSET Slot
          BY WindowType
        <4> QED BY <4>1, FiniteSlots
      <3>6. InRing(b) = TimesIn(f, S, b)
        BY DEF InRing
      <3> HIDE DEF S, f, c
      <3>7. D = S \ {c}
        OBVIOUS
      <3> HIDE DEF D
      <3>8. TimesIn(f, D, b) = TimesIn(f, S, b) - Same(f[c], b) /\ TimesIn(f, D, b) \in Nat
        BY <3>4, <3>5, <3>7, TimesLeaves, TimesMove
      <3>9. InRing(b) >= 1
        BY <2>2, <3>4, <3>6, <3>8 DEF Same
      <3> QED BY <2>1, <2>2, <3>2, <3>9
    <2>4. CASE ~(apc = "put" /\ Now.buf = b)
      <3>1. AppPasses(b) = 0
        BY <2>4 DEF AppPasses, Same
      <3>2. CbPasses(b) \in {0, CbHolds(b)} /\ CbHolds(b) \in {0, 1}
        BY SameIs DEF CbPasses, CbHolds, Busy
      <3> QED BY <2>1, <2>2, <3>1, <3>2
    <2> QED BY <2>3, <2>4
  <1> QED BY <1>1, <1>2, <1>3

\* The slots of the ring between iCurStreamRecv and iCurStreamSent are, in
\* order, those of the parts that wait, those of the buffers the driver has
\* and the one a thread is passing; no buffer is in two of them, and each has
\* its references.
THEOREM EncStreamsAlways == EncSpec => [](EncTypes /\ EncFrames /\ EncStreams)
  <1>1. EncInit => EncTypes /\ EncFrames /\ EncStreams
    BY EncTypesInit, EncFramesInit, EncStreamsInit
  <1>2. EncTypes /\ EncFrames /\ EncStreams /\ [EncNext]_encVars
            => (EncTypes /\ EncFrames /\ EncStreams)'
    BY EncTypesStep, EncFramesStep, EncStreamsStep
  <1> QED BY <1>1, <1>2, PTL DEF EncSpec

\* "We require the stream to come back in the same order we sent them": the
\* part that EndEncoding takes is in the buffer that the slot iCurStreamRecv
\* of StreamSent holds, and so on for all that wait.
THEOREM StreamsComeInOrder == EncSpec => []StreamsInOrder
  <1>1. ASSUME EncTypes, EncFrames, EncStreams PROVE StreamsInOrder
    <2>1. /\ \A k \in 1 .. WaitingParts :
                /\ hw.status[k].streamId = At(k - 1)
                /\ hw.status[k].buf = ring.StreamSent[At(k - 1)]
          /\ \A k \in DOMAIN hw.bufs :
                hw.bufs[k] = <<ring.StreamSent[At(WaitingParts + k - 1)],
                               At(WaitingParts + k - 1)>>
      BY <1>1 DEF EncStreams, RingOrder
    <2>2. /\ ring.Recv \in Nat /\ WaitingParts \in Nat /\ DOMAIN hw.bufs \subseteq Nat
      BY <1>1, RingNumbers, RingNow DEF EncFrames, EncStreams
    <2>3. \A k \in Nat : At(k - 1) = (ring.Recv + k - 1) % AL_MAX_STREAM_BUFFER
      <3>1. \A k \in Nat : ring.Recv + (k - 1) = ring.Recv + k - 1
        BY <2>2
      <3> QED BY <3>1 DEF At
    <2>4. \A k \in 1 .. WaitingParts : k \in Nat
      BY <2>2
    <2> DEFINE slot(k) == (ring.Recv + k - 1) % AL_MAX_STREAM_BUFFER
    <2>5. \A k \in 1 .. WaitingParts :
             /\ hw.status[k].streamId = slot(k)
             /\ hw.status[k].buf = ring.StreamSent[hw.status[k].streamId]
      BY <2>1, <2>3, <2>4
    <2>6. \A k \in DOMAIN hw.bufs :
             /\ hw.bufs[k][2] = slot(WaitingParts + k)
             /\ hw.bufs[k][1] = ring.StreamSent[hw.bufs[k][2]]
      <3>1. \A k \in DOMAIN hw.bufs :
               /\ hw.bufs[k][2] = At(WaitingParts + k - 1)
               /\ hw.bufs[k][1] = ring.StreamSent[At(WaitingParts + k - 1)]
        BY <2>1
      <3>2. \A k \in DOMAIN hw.bufs : At(WaitingParts + k - 1) = slot(WaitingParts + k)
        <4>1. \A k \in DOMAIN hw.bufs :
                 ring.Recv + (WaitingParts + k - 1) = ring.Recv + (WaitingParts + k) - 1
          BY <2>2
        <4> QED BY <4>1 DEF At
      <3> HIDE DEF slot
      <3> QED BY <3>1, <3>2
    <2> QED BY <2>5, <2>6 DEF StreamsInOrder
  <1> QED BY <1>1, EncStreamsAlways, PTL

\* The encoder holds a reference on a stream buffer once for each slot of
\* the ring and once in the callback, on a source and on its QP table while
\* the source is in SourceSent, and after AL_Common_Encoder_Destroy on none.
THEOREM RefsStayExact == EncSpec => []RefsAreExact
  <1>1. ASSUME EncTypes, EncFrames, EncStreams PROVE RefsAreExact
    <2>1. /\ apc # "destroyed" =>
               \A b \in StreamBuf :
                 refs.stream[b] + (IF apc = "put" /\ Now.buf = b THEN 1 ELSE 0)
                                + (IF cpc = "put" /\ st.buf = b THEN 1 ELSE 0)
                 = TimesIn(ring.StreamSent, Window, b) + (IF Busy /\ st.buf = b THEN 1 ELSE 0)
          /\ apc = "destroyed" => Sent = {} /\ \A b \in StreamBuf : refs.stream[b] = 0
      BY <1>1 DEF EncStreams, StreamRefs
    <2>2. \A n \in DOMAIN program :
             /\ refs.source[n] = Held(n)
             /\ refs.table[n] = IF HasTable(n) THEN Held(n) ELSE 0
      BY <1>1 DEF EncFrames, FrameRefs
    <2>3. \A n \in DOMAIN program :
             Held(n) = Cardinality({s \in Sent : SourceSent[s][1] = n})
                       + (IF apc = "source" /\ next = n THEN 1 ELSE 0)
      BY DEF Held, HeldSlots, FrameOf
    <2>4. CASE apc = "destroyed"
      <3>1. ASSUME NEW n \in DOMAIN program PROVE Held(n) = 0
        <4>1. HeldSlots(n) = {}
          BY <2>1, <2>4 DEF HeldSlots
        <4> QED BY <2>4, <4>1, FS_EmptySet DEF Held
      <3> QED BY <2>1, <2>2, <2>4, <3>1 DEF RefsAreExact
    <2>5. CASE apc # "destroyed"
      <3>1. \A n \in DOMAIN program :
               LET held == Cardinality({s \in Sent : SourceSent[s][1] = n})
                           + (IF apc = "source" /\ next = n THEN 1 ELSE 0)
               IN  /\ refs.source[n] = held
                   /\ program[n].op = "frame" => refs.table[n] = IF program[n].qp THEN held ELSE 0
        BY <2>2, <2>3 DEF HasTable
      <3> QED BY <2>1, <2>5, <3>1 DEF RefsAreExact
    <2> QED BY <2>4, <2>5
  <1> QED BY <1>1, EncStreamsAlways, PTL

\* No token is made, no id is in its pool twice, and no count of a
\* reference, of an SPS, a PPS or HDR SEIs goes below zero.
THEOREM CountsStayInRange == EncSpec => []TypeOK
  <1>1. ASSUME EncTypes, EncFrames, EncHdr, EncHeads, EncStreams PROVE TypeOK
    <2>1. /\ apc \in {"idle", "put", "copy", "ready", "info", "source", "infos", "hls", "send",
                      "join", "destroyed"}
          /\ cpc \in {"wait", "sections", "user", "put", "source", "give", "post", "unref", "ended"}
      BY <1>1 DEF EncTypes, ThreadsAgree, Framing
    <2>2. /\ PendingEncodings \in 0 .. ENC_MAX_CMD - 1
          /\ pool.free \in Seq(InfoID) /\ IsInjective(pool.free)
          /\ hdr.free \in Seq(HdrID) /\ IsInjective(hdr.free)
      BY <1>1 DEF EncTypes, EncVarTypes, PoolSet, HdrSet, EncFrames, TokensAgree, FramesAgree,
                  SlotsAgree, EncHdr, HdrCounts
    <2>3. hdr.refs \in [HdrID -> Nat]
      <3>1. /\ hdr.refs \in [HdrID -> Int]
            /\ \A h \in HdrID : hdr.refs[h] >= HdrUsers(h)
        BY <1>1 DEF EncTypes, EncVarTypes, HdrSet, EncHdr, HdrCounts
      <3>2. \A h : HdrUsers(h) \in Nat
        <4>1. \A h : HoldingHdr(h) \in SUBSET InfoID
          BY DEF HoldingHdr, Holding
        <4> QED BY <4>1, FiniteSlots DEF HdrUsers
      <3>3. \A h \in HdrID : hdr.refs[h] \in Nat
        BY <3>1, <3>2
      <3> QED BY <3>1, <3>3
    <2>4. /\ \A id \in SpsID : heads.sps[id].iRefCnt \in Nat
          /\ \A id \in PpsID : heads.pps[id].iRefCnt \in Nat
      <3>1. /\ \A id \in SpsID : heads.sps[id].iRefCnt \in Int
            /\ \A id \in PpsID : heads.pps[id].iRefCnt \in Int
        BY <1>1 DEF EncTypes, EncVarTypes, HeadsSet, SpsSet, PpsSet
      <3>2. \A x : Cardinality(OpenSps(x)) \in Nat /\ Cardinality(OpenPps(x)) \in Nat
        <4>1. \A x : OpenSps(x) \in SUBSET InfoID /\ OpenPps(x) \in SUBSET InfoID
          BY DEF OpenSps, OpenPps, Open
        <4> QED BY <4>1, FiniteSlots
      <3>3. /\ \A x \in SpsID : heads.sps[x].iRefCnt >= Cardinality(OpenSps(x))
            /\ \A x \in PpsID : heads.pps[x].iRefCnt >= Cardinality(OpenPps(x))
        BY <1>1 DEF EncHeads
      <3>4. \A id \in SpsID : heads.sps[id].iRefCnt \in Nat
        BY <3>1, <3>2, <3>3
      <3>5. \A id \in PpsID : heads.pps[id].iRefCnt \in Nat
        BY <3>1, <3>2, <3>3
      <3> QED BY <3>4, <3>5
    <2>5. refs.stream \in [StreamBuf -> Nat]
      BY <1>1, StreamCounts DEF EncFrames
    <2>6. refs.source \in [DOMAIN program -> Nat] /\ refs.table \in [DOMAIN program -> Nat]
      <3>1. refs.source \in [DOMAIN program -> Int] /\ refs.table \in [DOMAIN program -> Int]
        BY <1>1 DEF EncTypes, EncVarTypes, RefsSet
      <3>2. \A n : Held(n) \in Nat
        BY HeldFinite DEF Held
      <3>3. \A n \in DOMAIN program : refs.source[n] \in Nat /\ refs.table[n] \in Nat
        BY <1>1, <3>2 DEF EncFrames, FrameRefs
      <3> QED BY <3>1, <3>3
    <2> QED BY <2>1, <2>2, <2>3, <2>4, <2>5, <2>6 DEF TypeOK
  <1> QED BY <1>1, EncHdrAlways, EncHeadsAlways, EncStreamsAlways, PTL

---------------------------------------------------------------------------
(* The parameters a frame is pushed with *)

LEMMA LastNext ==
  ASSUME NEW n \in Nat \ {0}, NEW op
  PROVE  /\ program[n].op = op => LastOf(op, n + 1) # {} /\ Max(LastOf(op, n + 1)) = n
         /\ program[n].op # op => LastOf(op, n + 1) = LastOf(op, n)
  <1> DEFINE S == LastOf(op, n)
             T == LastOf(op, n + 1)
  <1>1. /\ T = IF program[n].op = op THEN S \cup {n} ELSE S
        /\ \A k \in S : k \in Nat /\ k < n
    BY DEF LastOf
  <1>2. ASSUME program[n].op = op PROVE T # {} /\ Max(T) = n
    <2>1. n \in T /\ \A k \in T : k \in Nat /\ n >= k
      BY <1>1, <1>2
    <2> HIDE DEF T
    <2>2. \A x \in T : (\A y \in T : x >= y) => x = n
      BY <2>1
    <2> QED BY <2>1, <2>2 DEF Max
  <1> QED BY <1>1, <1>2

LEMMA ParametersNext ==
  ASSUME NEW n \in Nat \ {0}
  PROVE  /\ DimOf(n + 1) = IF program[n].op = "resolution" THEN program[n].dim ELSE DimOf(n)
         /\ OffsetOf(n + 1) = IF program[n].op = "offsets" THEN program[n].offset ELSE OffsetOf(n)
  BY LastNext DEF DimOf, OffsetOf

\* What the application has set before a call stays so.
LEMMA ParametersFixed ==
  ASSUME [EncNext]_encVars
  PROVE  program' = program /\ \A n : DimOf(n)' = DimOf(n) /\ OffsetOf(n)' = OffsetOf(n)
  <1>1. program' = program
    BY Writers
  <1> QED BY <1>1 DEF DimOf, OffsetOf, LastOf

\* What the channel has is what the calls before the next one have set.
LEMMA ParametersStep ==
  ASSUME EncTypes, chan.dim = DimOf(next), chan.offset = OffsetOf(next), [EncNext]_encVars,
         NEW m, m = next'
  PROVE  chan'.dim = DimOf(m) /\ chan'.offset = OffsetOf(m)
  <1>1. chan \in ChanSet /\ next \in Nat \ {0}
    BY DEF EncTypes, EncVarTypes, ThreadsAgree
  <1>2. CASE SetParameters
    <2>1. m = next + 1
      BY <1>2 DEF SetParameters, Returns
    <2>2. CASE Call("resolution") /\ chan' = [chan EXCEPT !.dim = Now.dim, !.restart = TRUE]
      BY <1>1, <2>1, <2>2, ParametersNext DEF ChanSet, Call, Now
    <2>3. CASE Call("offsets") /\ chan' = [chan EXCEPT !.offset = Now.offset]
      BY <1>1, <2>1, <2>3, ParametersNext DEF ChanSet, Call, Now
    <2> QED BY <1>2, <2>2, <2>3 DEF SetParameters
  <1>3. CASE ~SetParameters
    <2>1. chan'.dim = chan.dim /\ chan'.offset = chan.offset
      BY <1>1, <1>3, Writers DEF ProcessEos, FrameSent, FrameRefused, ChanSet
    <2>2. ASSUME m # next PROVE Now.op \notin {"resolution", "offsets"} /\ m = next + 1
      <3>1. /\ PutHandsOver \/ CopyHdr \/ ProcessRejects \/ ProcessEos \/ FrameSent \/ FrameRefused
            /\ m = next + 1
        BY <1>3, <2>2, ReturningCalls
      <3>2. PutHandsOver \/ CopyHdr \/ FrameSent \/ FrameRefused => Now.op \in {"put", "hdr", "frame"}
        BY DEF PutHandsOver, CopyHdr, FrameSent, FrameRefused, EncTypes, ThreadsAgree, Framing
      <3>3. ProcessRejects \/ ProcessEos => Now.op \in {"frame", "eos"}
        BY DEF ProcessRejects, ProcessEos, Call, Now
      <3> QED BY <3>1, <3>2, <3>3
    <2> QED BY <1>1, <2>1, <2>2, ParametersNext DEF Now
  <1> QED BY <1>2, <1>3

\* The information of a frame in flight does not change.
LEMMA InfoKept ==
  ASSUME EncTypes, [EncNext]_encVars, NEW x \in InfoID \ Free,
         UpdateEncoderInfos => x # pool.iCurID
  PROVE  /\ pool'.info[x].frame = pool.info[x].frame
         /\ pool'.info[x].uSpsId = pool.info[x].uSpsId
         /\ pool'.info[x].uPpsId = pool.info[x].uPpsId
         /\ pool'.info[x].offset = pool.info[x].offset
  <1>1. pool \in PoolSet /\ pool.info \in [InfoID -> InfoSet]
    BY DEF EncTypes, EncVarTypes, PoolSet
  <1>2. CASE GetFrameInfo
    <2>1. Head(pool.free) \in Free
      BY <1>2, FrameInfoTaken, TailRange DEF Free, Range
    <2> QED BY <1>2, <2>1, FrameInfoTaken
  <1>3. CASE SetHLSInfos
    <2>1. PICK h, a : pool' = [pool EXCEPT !.info[pool.iCurID].iHDRID = h,
                                         !.info[pool.iCurID].bHDRChanged = a]
      BY <1>3 DEF SetHLSInfos
    <2> QED BY <1>1, <2>1 DEF PoolSet, InfoSet
  <1>4. CASE UpdateEncoderInfos
    <2>1. PICK a, b, c : pool' = [pool EXCEPT !.info[pool.iCurID].uSpsId = a,
                                            !.info[pool.iCurID].uPpsId = b,
                                            !.info[pool.iCurID].offset = c]
      BY <1>4 DEF UpdateEncoderInfos
    <2> QED BY <1>1, <1>4, <2>1 DEF PoolSet, InfoSet
  <1>5. CASE ~GetFrameInfo /\ ~SetHLSInfos /\ ~UpdateEncoderInfos
    <2>1. pool'.info = pool.info
      BY <1>5, Writers, FrameInfoGiven
    <2> QED BY <2>1
  <1> QED BY <1>2, <1>3, <1>4, <1>5

---------------------------------------------------------------------------
(* What the SPS and the PPS contain *)

\* AL_GetSps gives an SPS of the size asked for; it is the last one, or one
\* that no frame uses.
LEMMA SpsGot ==
  ASSUME NEW h \in HeadsSet, NEW d \in Nat, SpsFree(h, d), NEW g, g = GetSps(h, d)
  PROVE  /\ g.iPrevSps \in SpsID /\ g.sps[g.iPrevSps].dim = d /\ g.layerSps = h.layerSps
         /\ SameSps(h, d) => g.iPrevSps = h.iPrevSps
         /\ ~SameSps(h, d) => /\ h.sps[g.iPrevSps].iRefCnt = 0
                              /\ ~g.sps[g.iPrevSps].bHasBeenSent
         /\ \A x \in SpsID :
               SameSps(h, d) \/ x # g.iPrevSps =>
                  g.sps[x].dim = h.sps[x].dim /\ g.sps[x].bHasBeenSent = h.sps[x].bHasBeenSent
  <1> DEFINE k == h.iPrevSps
             n == NextSps(h)
             c == [h.sps[k] EXCEPT !.iRefCnt = @ + 1]
             e == [dim |-> d, iRefCnt |-> 1, bHasBeenSent |-> FALSE]
  <1>1. k \in SpsID /\ n \in SpsID /\ h.sps \in [SpsID -> SpsSet]
    BY Ranges DEF HeadsSet, NextSps
  <1>2. /\ c.dim = h.sps[k].dim /\ c.bHasBeenSent = h.sps[k].bHasBeenSent
        /\ e.dim = d /\ e.bHasBeenSent = FALSE
    BY <1>1 DEF SpsSet
  <1>3. CASE SameSps(h, d)
    <2>1. g = [h EXCEPT !.sps = [h.sps EXCEPT ![k] = c]]
      BY <1>1, <1>3 DEF GetSps, HeadsSet
    <2>2. h.sps[k].dim = d /\ k = h.iPrevSps
      BY <1>3 DEF SameSps
    <2> HIDE DEF c
    <2>3. /\ g.sps = [h.sps EXCEPT ![k] = c] /\ g.iPrevSps = k /\ g.layerSps = h.layerSps
      BY <1>1, <2>1 DEF HeadsSet
    <2> HIDE DEF k
    <2> QED BY <1>1, <1>2, <1>3, <2>2, <2>3
  <1>4. CASE ~SameSps(h, d)
    <2>1. g = [h EXCEPT !.iPrevSps = n, !.sps = [h.sps EXCEPT ![n] = e]]
      BY <1>1, <1>4 DEF GetSps, HeadsSet
    <2>2. h.sps[n].iRefCnt = 0
      BY <1>4 DEF SpsFree
    <2> HIDE DEF e, n
    <2>3. /\ g.sps = [h.sps EXCEPT ![n] = e] /\ g.iPrevSps = n /\ g.layerSps = h.layerSps
      BY <1>1, <2>1 DEF HeadsSet
    <2> QED BY <1>1, <1>2, <1>4, <2>2, <2>3
  <1> QED BY <1>3, <1>4

\* AL_GetPps, likewise.
LEMMA PpsGot ==
  ASSUME NEW h \in HeadsSet, NEW s, NEW o, PpsFree(h, s, o), NEW g, g = GetPps(h, s, o)
  PROVE  /\ g.iPrevPps \in PpsID
         /\ g.pps[g.iPrevPps].uSpsId = s /\ g.pps[g.iPrevPps].offset = o
         /\ g.sps = h.sps /\ g.iPrevSps = h.iPrevSps /\ g.layerSps = h.layerSps
         /\ ~SamePps(h, s, o) => /\ h.pps[g.iPrevPps].iRefCnt = 0
                                 /\ ~g.pps[g.iPrevPps].bHasBeenSent
         /\ \A x \in PpsID :
               SamePps(h, s, o) \/ x # g.iPrevPps =>
                  /\ g.pps[x].uSpsId = h.pps[x].uSpsId /\ g.pps[x].offset = h.pps[x].offset
                  /\ g.pps[x].bHasBeenSent = h.pps[x].bHasBeenSent
  <1> DEFINE k == h.iPrevPps
             n == NextPps(h)
             c == [h.pps[k] EXCEPT !.iRefCnt = @ + 1]
             e == [uSpsId |-> s, offset |-> o, iRefCnt |-> 1, bHasBeenSent |-> FALSE]
  <1>1. k \in PpsID /\ n \in PpsID /\ h.pps \in [PpsID -> PpsSet]
    BY Ranges DEF HeadsSet, NextPps
  <1>2. /\ c.uSpsId = h.pps[k].uSpsId /\ c.offset = h.pps[k].offset
        /\ c.bHasBeenSent = h.pps[k].bHasBeenSent
        /\ e.uSpsId = s /\ e.offset = o /\ e.bHasBeenSent = FALSE
    BY <1>1 DEF PpsSet
  <1>3. CASE SamePps(h, s, o)
    <2>1. g = [h EXCEPT !.pps = [h.pps EXCEPT ![k] = c]]
      BY <1>1, <1>3 DEF GetPps, HeadsSet
    <2>2. h.pps[k].uSpsId = s /\ h.pps[k].offset = o
      BY <1>3 DEF SamePps
    <2> HIDE DEF c
    <2>3. /\ g.pps = [h.pps EXCEPT ![k] = c] /\ g.iPrevPps = k
          /\ g.sps = h.sps /\ g.iPrevSps = h.iPrevSps /\ g.layerSps = h.layerSps
      BY <1>1, <2>1 DEF HeadsSet
    <2> HIDE DEF k
    <2> QED BY <1>1, <1>2, <1>3, <2>2, <2>3
  <1>4. CASE ~SamePps(h, s, o)
    <2>1. g = [h EXCEPT !.iPrevPps = n, !.pps = [h.pps EXCEPT ![n] = e]]
      BY <1>1, <1>4 DEF GetPps, HeadsSet
    <2>2. h.pps[n].iRefCnt = 0
      BY <1>4 DEF PpsFree
    <2> HIDE DEF e, n
    <2>3. /\ g.pps = [h.pps EXCEPT ![n] = e] /\ g.iPrevPps = n
          /\ g.sps = h.sps /\ g.iPrevSps = h.iPrevSps /\ g.layerSps = h.layerSps
      BY <1>1, <2>1 DEF HeadsSet
    <2> QED BY <1>1, <1>2, <1>4, <2>2, <2>3
  <1> QED BY <1>3, <1>4

\* What a step does to them: a frame that takes an SPS or a PPS changes only
\* one that no frame uses, and the headers of a frame mark its own as sent.
SpsKept(x) == /\ heads'.sps[x].dim = heads.sps[x].dim
              /\ heads'.sps[x].bHasBeenSent = heads.sps[x].bHasBeenSent
PpsKept(x) == /\ heads'.pps[x].uSpsId = heads.pps[x].uSpsId
              /\ heads'.pps[x].offset = heads.pps[x].offset
              /\ heads'.pps[x].bHasBeenSent = heads.pps[x].bHasBeenSent
LEMMA HeadersTaken ==
  ASSUME EncTypes, UpdateEncoderInfos
  PROVE  /\ heads'.iPrevSps \in SpsID /\ heads'.iPrevPps \in PpsID
         /\ heads'.layerSps = heads.layerSps
         /\ heads'.sps[heads'.iPrevSps].dim = chan.dim
         /\ heads'.pps[heads'.iPrevPps].uSpsId = heads'.iPrevSps
         /\ heads'.pps[heads'.iPrevPps].offset = chan.offset
         /\ SameSps(heads, chan.dim) => heads'.iPrevSps = heads.iPrevSps
         /\ \A x \in SpsID :
               \/ SpsKept(x)
               \/ heads.sps[x].iRefCnt = 0 /\ ~heads'.sps[x].bHasBeenSent
         /\ SameSps(heads, chan.dim) => \A x \in SpsID : SpsKept(x)
         /\ \A x \in PpsID :
               \/ PpsKept(x)
               \/ heads.pps[x].iRefCnt = 0 /\ ~heads'.pps[x].bHasBeenSent
  <1> DEFINE d == chan.dim
             o == chan.offset
  <1>1. heads \in HeadsSet /\ d \in Nat /\ o \in Nat
    BY DEF EncTypes, EncVarTypes, ChanSet
  <1>2. PICK h, g : /\ h = GetSps(heads, d) /\ g = GetPps(h, h.iPrevSps, o)
                    /\ SpsFree(heads, d) /\ PpsFree(h, h.iPrevSps, o) /\ heads' = g
    BY DEF UpdateEncoderInfos
  <1>3. h \in HeadsSet /\ h.pps = heads.pps
    <2>1. h \in HeadsSet
      BY <1>1, <1>2, SpsTypes
    <2>2. 0 \in SpsID
      BY Ranges
    <2> QED BY <1>1, <1>2, <2>1, <2>2, SpsCount
  <1> DEFINE k == h.iPrevSps
  <1>4. /\ k \in SpsID /\ h.sps[k].dim = d /\ h.layerSps = heads.layerSps
        /\ SameSps(heads, d) => k = heads.iPrevSps
        /\ ~SameSps(heads, d) => heads.sps[k].iRefCnt = 0 /\ ~h.sps[k].bHasBeenSent
        /\ \A x \in SpsID :
              SameSps(heads, d) \/ x # k =>
                 h.sps[x].dim = heads.sps[x].dim /\ h.sps[x].bHasBeenSent = heads.sps[x].bHasBeenSent
    <2> HIDE DEF d
    <2> QED BY <1>1, <1>2, SpsGot
  <1>5. /\ g.iPrevPps \in PpsID
        /\ g.pps[g.iPrevPps].uSpsId = k /\ g.pps[g.iPrevPps].offset = o
        /\ g.sps = h.sps /\ g.iPrevSps = h.iPrevSps /\ g.layerSps = h.layerSps
        /\ ~SamePps(h, k, o) => /\ h.pps[g.iPrevPps].iRefCnt = 0
                                /\ ~g.pps[g.iPrevPps].bHasBeenSent
        /\ \A x \in PpsID :
              SamePps(h, k, o) \/ x # g.iPrevPps =>
                 /\ g.pps[x].uSpsId = h.pps[x].uSpsId /\ g.pps[x].offset = h.pps[x].offset
                 /\ g.pps[x].bHasBeenSent = h.pps[x].bHasBeenSent
    <2>1. g = GetPps(h, k, o) /\ PpsFree(h, k, o)
      BY <1>2
    <2> HIDE DEF k, o
    <2> QED BY <1>3, <2>1, PpsGot
  <1>6. k = h.iPrevSps
    OBVIOUS
  <1> HIDE DEF k
  <1>7. \A x \in SpsID : SpsKept(x) \/ (heads.sps[x].iRefCnt = 0 /\ ~heads'.sps[x].bHasBeenSent)
    BY <1>2, <1>4, <1>5 DEF SpsKept
  <1>8. SameSps(heads, chan.dim) => \A x \in SpsID : SpsKept(x)
    BY <1>2, <1>4, <1>5 DEF SpsKept
  <1>9. \A x \in PpsID : PpsKept(x) \/ (heads.pps[x].iRefCnt = 0 /\ ~heads'.pps[x].bHasBeenSent)
    BY <1>2, <1>3, <1>5 DEF PpsKept
  <1> QED BY <1>2, <1>4, <1>5, <1>7, <1>8, <1>9, <1>6

LEMMA HeadersSent ==
  ASSUME EncTypes, WriteSections, st.first, NEW i, i = pool.info[st.info]
  PROVE  /\ i \in InfoSet
         /\ heads'.layerSps = SpsOf(heads, i)
         /\ \A x \in SpsID :
               /\ heads'.sps[x].dim = heads.sps[x].dim
               /\ heads'.sps[x].bHasBeenSent <=> heads.sps[x].bHasBeenSent \/ x = i.uSpsId
         /\ \A x \in PpsID :
               /\ heads'.pps[x].uSpsId = heads.pps[x].uSpsId
               /\ heads'.pps[x].offset = heads.pps[x].offset
               /\ heads'.pps[x].bHasBeenSent <=> heads.pps[x].bHasBeenSent \/ x = i.uPpsId
  <1>1. st.info \in InfoID /\ pool.info \in [InfoID -> InfoSet] /\ heads \in HeadsSet
    BY DEF WriteSections, EncTypes, ThreadsAgree, Busy, EncVarTypes, PoolSet
  <1>2. i \in InfoSet
    BY <1>1
  <1> DEFINE s == SpsOf(heads, i)
             c == Released(heads.sps[i.uSpsId])
             e == Released(heads.pps[i.uPpsId])
  <1>3. heads' = [heads EXCEPT !.layerSps = s, !.sps[i.uSpsId] = c, !.pps[i.uPpsId] = e]
    BY DEF WriteSections
  <1>4. heads.sps \in [SpsID -> SpsSet] /\ heads.pps \in [PpsID -> PpsSet]
        /\ i.uSpsId \in SpsID /\ i.uPpsId \in PpsID
    BY <1>1, <1>2 DEF HeadsSet, InfoSet
  <1>5. /\ c.dim = heads.sps[i.uSpsId].dim /\ c.bHasBeenSent = TRUE
        /\ e.uSpsId = heads.pps[i.uPpsId].uSpsId /\ e.offset = heads.pps[i.uPpsId].offset
        /\ e.bHasBeenSent = TRUE
    BY <1>4 DEF Released, SpsSet, PpsSet
  <1> HIDE DEF s, c, e
  <1>6. /\ heads'.layerSps = s
        /\ heads'.sps = [heads.sps EXCEPT ![i.uSpsId] = c]
        /\ heads'.pps = [heads.pps EXCEPT ![i.uPpsId] = e]
    BY <1>1, <1>3 DEF HeadsSet
  <1>7. \A x \in SpsID : heads'.sps[x] = IF x = i.uSpsId THEN c ELSE heads.sps[x]
    BY <1>4, <1>6
  <1>8. \A x \in PpsID : heads'.pps[x] = IF x = i.uPpsId THEN e ELSE heads.pps[x]
    BY <1>4, <1>6
  <1>9. ASSUME NEW x \in SpsID
        PROVE  /\ heads'.sps[x].dim = heads.sps[x].dim
               /\ heads'.sps[x].bHasBeenSent <=> heads.sps[x].bHasBeenSent \/ x = i.uSpsId
    BY <1>5, <1>7
  <1>10. ASSUME NEW x \in PpsID
         PROVE  /\ heads'.pps[x].uSpsId = heads.pps[x].uSpsId
                /\ heads'.pps[x].offset = heads.pps[x].offset
                /\ heads'.pps[x].bHasBeenSent <=> heads.pps[x].bHasBeenSent \/ x = i.uPpsId
    BY <1>5, <1>8
  <1>11. heads'.layerSps = SpsOf(heads, i)
    BY <1>6 DEF s
  <1> QED BY <1>2, <1>9, <1>10, <1>11

\* An SPS or a PPS that a frame uses is not given to another.
LEMMA UsedHeaders ==
  ASSUME EncTypes, EncHeads, NEW y \in Open
  PROVE  /\ pool.info[y].uSpsId \in SpsID /\ pool.info[y].uPpsId \in PpsID
         /\ heads.sps[pool.info[y].uSpsId].iRefCnt # 0
         /\ heads.pps[pool.info[y].uPpsId].iRefCnt # 0
  <1>1. y \in InfoID /\ pool.info[y] \in InfoSet
    BY DEF Open, EncTypes, EncVarTypes, PoolSet
  <1>2. pool.info[y].uSpsId \in SpsID /\ pool.info[y].uPpsId \in PpsID
    BY <1>1 DEF InfoSet
  <1> DEFINE U == OpenSps(pool.info[y].uSpsId)
             V == OpenPps(pool.info[y].uPpsId)
  <1>3. U \in SUBSET InfoID /\ V \in SUBSET InfoID /\ y \in U /\ y \in V
    BY <1>1 DEF OpenSps, OpenPps, Open
  <1>4. \A S \in SUBSET InfoID : y \in S => Cardinality(S) \in Nat /\ Cardinality(S) >= 1
    <2> SUFFICES ASSUME NEW S \in SUBSET InfoID, y \in S
                 PROVE  Cardinality(S) \in Nat /\ Cardinality(S) >= 1
      OBVIOUS
    <2>1. {y} \in SUBSET S
      OBVIOUS
    <2> QED BY <2>1, IdCounts
  <1>5. /\ heads.sps[pool.info[y].uSpsId].iRefCnt >= Cardinality(U)
        /\ heads.pps[pool.info[y].uPpsId].iRefCnt >= Cardinality(V)
    BY <1>2 DEF EncHeads
  <1>6. /\ heads.sps[pool.info[y].uSpsId].iRefCnt \in Int
        /\ heads.pps[pool.info[y].uPpsId].iRefCnt \in Int
    BY <1>2 DEF EncTypes, EncVarTypes, HeadsSet, SpsSet, PpsSet
  <1>7. Cardinality(U) \in Nat /\ Cardinality(U) >= 1 /\ Cardinality(V) \in Nat /\ Cardinality(V) >= 1
    BY <1>3, <1>4
  <1> HIDE DEF U, V
  <1> QED BY <1>2, <1>5, <1>6, <1>7

\* A frame whose headers are in use was being pushed, or keeps what it had.
InfoStays(x) == /\ pool'.info[x].frame = pool.info[x].frame
                /\ pool'.info[x].uSpsId = pool.info[x].uSpsId
                /\ pool'.info[x].uPpsId = pool.info[x].uPpsId
                /\ pool'.info[x].offset = pool.info[x].offset
LEMMA OpenStays ==
  ASSUME EncTypes, EncFrames, EncHeads, [EncNext]_encVars, apc # "destroyed", NEW y \in Open'
  PROVE  \/ UpdateEncoderInfos /\ y = pool.iCurID
         \/ y \in Open /\ (UpdateEncoderInfos => y # pool.iCurID) /\ InfoStays(y)
  <1>1. CASE UpdateEncoderInfos /\ y = pool.iCurID
    BY <1>1
  <1>2. CASE ~(UpdateEncoderInfos /\ y = pool.iCurID)
    <2>1. y \in Open
      BY <1>2, OpenMoves
    <2>2. y \in InfoID \ Free
      BY <2>1, OpenFrames DEF EncFrames
    <2>3. UpdateEncoderInfos => y # pool.iCurID
      BY <1>2
    <2> QED BY <2>1, <2>2, <2>3, InfoKept DEF InfoStays
  <1> QED BY <1>1, <1>2

\* The frame being pushed has the number of the current call.
LEMMA PushedFrame ==
  ASSUME EncTypes, FramesAgree, [EncNext]_encVars, UpdateEncoderInfos, NEW cur, cur = pool.iCurID
  PROVE  /\ cur \in InfoID /\ FrameNo(cur) = next /\ FrameNo(cur)' = next /\ next' = next
         /\ pool'.info[cur].frame = next
         /\ pool'.info[cur].uSpsId = heads'.iPrevSps
         /\ pool'.info[cur].uPpsId = heads'.iPrevPps
         /\ pool'.info[cur].offset = chan.offset
  <1>1. cur \in InfoID /\ pool.info \in [InfoID -> InfoSet] /\ pool \in PoolSet
    BY DEF UpdateEncoderInfos, EncTypes, EncVarTypes, ThreadsAgree, PoolSet
  <1>2. PICK s \in Sent : SourceSent[s] = <<next, cur>>
    BY DEF FramesAgree, CurrentAgrees, InSource, UpdateEncoderInfos
  <1>3. pool.info[cur].frame = next
    BY <1>2 DEF FramesAgree, SlotsAgree, FrameOf, InfoOf
  <1>4. pool' = [pool EXCEPT !.info[cur].uSpsId = heads'.iPrevSps,
                             !.info[cur].uPpsId = heads'.iPrevPps,
                             !.info[cur].offset = chan.offset]
    BY DEF UpdateEncoderInfos
  <1>5. /\ pool'.info[cur].frame = next
        /\ pool'.info[cur].uSpsId = heads'.iPrevSps
        /\ pool'.info[cur].uPpsId = heads'.iPrevPps
        /\ pool'.info[cur].offset = chan.offset
    BY <1>1, <1>3, <1>4 DEF PoolSet, InfoSet
  <1>6. next' = next
    BY DEF UpdateEncoderInfos, Goes
  <1> QED BY <1>1, <1>3, <1>5, <1>6 DEF FrameNo

\* What a frame finds in its SPS and its PPS.
Finds(y) ==
    LET i == pool.info[y]
    IN  /\ i.offset = OffsetOf(i.frame)
        /\ heads.sps[i.uSpsId].dim = DimOf(i.frame)
        /\ heads.pps[i.uPpsId].uSpsId = i.uSpsId
        /\ heads.pps[i.uPpsId].offset = i.offset
LEMMA FindsIs ==
  HeadersKept <=> /\ chan.dim = DimOf(next) /\ chan.offset = OffsetOf(next)
                  /\ \A y \in Open : Finds(y)
  BY DEF HeadersKept, Finds

\* Every step keeps or marks the headers that are in use.
LEMMA UsedHeadersStay ==
  ASSUME EncTypes, EncHeads, [EncNext]_encVars, NEW y \in Open,
         NEW s, s = pool.info[y].uSpsId, NEW p, p = pool.info[y].uPpsId
  PROVE  /\ heads'.sps[s].dim = heads.sps[s].dim
         /\ heads'.pps[p].uSpsId = heads.pps[p].uSpsId
         /\ heads'.pps[p].offset = heads.pps[p].offset
         /\ heads.sps[s].bHasBeenSent => heads'.sps[s].bHasBeenSent
  <1>1. /\ s \in SpsID /\ p \in PpsID
        /\ heads.sps[s].iRefCnt # 0 /\ heads.pps[p].iRefCnt # 0
    BY UsedHeaders
  <1>2. CASE UpdateEncoderInfos
    BY <1>1, <1>2, HeadersTaken DEF SpsKept, PpsKept
  <1>3. CASE WriteSections /\ st.first
    BY <1>1, <1>3, HeadersSent
  <1>4. CASE ~UpdateEncoderInfos /\ ~(WriteSections /\ st.first)
    BY <1>4, RefCntMoves
  <1> QED BY <1>2, <1>3, <1>4

LEMMA HeadersKeptStep ==
  ASSUME EncTypes, EncFrames, EncHeads, HeadersKept, [EncNext]_encVars, apc # "destroyed"
  PROVE  HeadersKept'
  <1>1. chan.dim = DimOf(next) /\ chan.offset = OffsetOf(next) /\ \A y \in Open : Finds(y)
    BY FindsIs
  <1>2. \A n : DimOf(n)' = DimOf(n) /\ OffsetOf(n)' = OffsetOf(n)
    BY ParametersFixed
  <1>3. chan'.dim = DimOf(next)' /\ chan'.offset = OffsetOf(next)'
    <2>1. PICK m : m = next'
      OBVIOUS
    <2>2. chan'.dim = DimOf(m) /\ chan'.offset = OffsetOf(m)
      BY <1>1, <2>1, ParametersStep
    <2>3. DimOf(next)' = DimOf(m)' /\ OffsetOf(next)' = OffsetOf(m)'
      BY <2>1 DEF DimOf, OffsetOf
    <2> QED BY <1>2, <2>2, <2>3
  <1>4. ASSUME NEW y \in Open' PROVE Finds(y)'
    <2>1. PICK n : n = pool'.info[y].frame
      OBVIOUS
    <2>2. DimOf(n) = DimOf(pool.info[y].frame)' /\ OffsetOf(n) = OffsetOf(pool.info[y].frame)'
      <3>1. DimOf(n)' = DimOf(pool.info[y].frame)' /\ OffsetOf(n)' = OffsetOf(pool.info[y].frame)'
        BY <2>1 DEF DimOf, OffsetOf
      <3> QED BY <1>2, <3>1
    <2> SUFFICES /\ pool'.info[y].offset = OffsetOf(n)
                 /\ heads'.sps[pool'.info[y].uSpsId].dim = DimOf(n)
                 /\ heads'.pps[pool'.info[y].uPpsId].uSpsId = pool'.info[y].uSpsId
                 /\ heads'.pps[pool'.info[y].uPpsId].offset = pool'.info[y].offset
      BY <2>2 DEF Finds
    <2>3. CASE UpdateEncoderInfos /\ y = pool.iCurID
      <3>1. /\ n = next /\ pool'.info[y].uSpsId = heads'.iPrevSps
            /\ pool'.info[y].uPpsId = heads'.iPrevPps /\ pool'.info[y].offset = chan.offset
        BY <2>1, <2>3, PushedFrame DEF EncFrames
      <3> QED BY <1>1, <2>3, <3>1, HeadersTaken
    <2>4. CASE y \in Open /\ InfoStays(y)
      <3>1. /\ n = pool.info[y].frame /\ pool'.info[y].uSpsId = pool.info[y].uSpsId
            /\ pool'.info[y].uPpsId = pool.info[y].uPpsId /\ pool'.info[y].offset = pool.info[y].offset
        BY <2>1, <2>4 DEF InfoStays
      <3>2. Finds(y)
        BY <1>1, <2>4
      <3> QED BY <2>4, <3>1, <3>2, UsedHeadersStay DEF Finds
    <2> QED BY <2>3, <2>4, OpenStays
  <1> QED BY <1>3, <1>4 DEF HeadersKept, Finds

---------------------------------------------------------------------------
(* What has been sent *)

\* Only the headers of a first part reach the decoder.
LEMMA DecoderMoves ==
  ASSUME [EncNext]_encVars, DOMAIN decoder.sps = SpsID, DOMAIN decoder.pps = PpsID,
         NEW i, i = pool.info[st.info], NEW n, n = SpsOf(heads, i)
  PROVE  /\ DOMAIN decoder'.sps = SpsID /\ DOMAIN decoder'.pps = PpsID
         /\ WriteSections /\ st.first =>
               /\ \A x \in SpsID :
                     decoder'.sps[x] = IF st.idr /\ x = n.id THEN n.dim ELSE decoder.sps[x]
               /\ \A x \in PpsID :
                     decoder'.pps[x] = IF WritesPps(i) /\ x = i.uPpsId THEN PpsOf(i)
                                       ELSE decoder.pps[x]
         /\ ~(WriteSections /\ st.first) => decoder' = decoder
  <1>1. CASE WriteSections /\ st.first
    <2>1. decoder' = [sps |-> IF st.idr THEN [decoder.sps EXCEPT ![n.id] = n.dim] ELSE decoder.sps,
                      pps |-> IF WritesPps(i) THEN [decoder.pps EXCEPT ![i.uPpsId] = PpsOf(i)]
                              ELSE decoder.pps]
      BY <1>1 DEF WriteSections
    <2>2. /\ decoder'.sps = IF st.idr THEN [decoder.sps EXCEPT ![n.id] = n.dim] ELSE decoder.sps
          /\ decoder'.pps = IF WritesPps(i) THEN [decoder.pps EXCEPT ![i.uPpsId] = PpsOf(i)]
                            ELSE decoder.pps
      BY <2>1
    <2> QED BY <1>1, <2>2
  <1>2. CASE ~(WriteSections /\ st.first)
    <2>1. decoder' = decoder
      BY <1>2 DEF EncNext, Application, Process, Firmware, CallbackThread, PutTakesSlot,
            PutHandsOver, TakeHdrID, CopyHdr, SetParameters, ProcessRejects, ProcessEos,
            ProcessEnters, WaitReadiness, GetFrameInfo, AddSourceSent, UpdateEncoderInfos,
            SetHLSInfos, FrameSent, FrameRefused, ReleaseAll, EndEncodingEos, EndEncodingBegins,
            WriteSections, CallbackTakesSlot, CallbackHandsOver, SourceReleased, IdsGivenBack,
            TokenReleased, StreamReleased, CallbackThreadEnds, CallbackGoes, EncodePart,
            ReportEos, DestroyChannel, Destroyed, encVars, cbVars
    <2> QED BY <1>2, <2>1
  <1> QED BY <1>1, <1>2

LEMMA PpsSentStep ==
  ASSUME EncTypes, EncFrames, EncHeads, HeadersKept, PpsSent, [EncNext]_encVars,
         DOMAIN decoder.sps = SpsID, DOMAIN decoder.pps = PpsID, apc # "destroyed"
  PROVE  PpsSent'
  <1> SUFFICES ASSUME NEW x \in PpsID, heads'.pps[x].bHasBeenSent
               PROVE  decoder'.pps[x] = [uSpsId |-> heads'.pps[x].uSpsId,
                                         offset |-> heads'.pps[x].offset]
    BY DEF PpsSent
  <1>1. CASE UpdateEncoderInfos
    <2>1. PpsKept(x) /\ decoder' = decoder
      BY <1>1, HeadersTaken DEF UpdateEncoderInfos, cbVars
    <2> QED BY <2>1 DEF PpsSent, PpsKept
  <1>2. CASE WriteSections /\ st.first
    <2>1. PICK i : i = pool.info[st.info]
      OBVIOUS
    <2>2. /\ heads'.pps[x].uSpsId = heads.pps[x].uSpsId /\ heads'.pps[x].offset = heads.pps[x].offset
          /\ heads.pps[x].bHasBeenSent \/ x = i.uPpsId
      BY <1>2, <2>1, HeadersSent
    <2>3. decoder'.pps[x] = IF WritesPps(i) /\ x = i.uPpsId THEN PpsOf(i) ELSE decoder.pps[x]
      BY <1>2, <2>1, DecoderMoves
    <2>4. st.info \in Open
      BY <1>2, OpenMoves
    <2>5. heads.pps[i.uPpsId].uSpsId = i.uSpsId /\ heads.pps[i.uPpsId].offset = i.offset
      BY <2>1, <2>4 DEF HeadersKept
    <2>6. CASE WritesPps(i) /\ x = i.uPpsId
      BY <2>2, <2>3, <2>5, <2>6 DEF PpsOf
    <2>7. CASE ~(WritesPps(i) /\ x = i.uPpsId)
      <3>1. heads.pps[x].bHasBeenSent
        BY <2>2, <2>7 DEF WritesPps
      <3> QED BY <2>2, <2>3, <2>7, <3>1 DEF PpsSent
    <2> QED BY <2>6, <2>7
  <1>3. CASE ~UpdateEncoderInfos /\ ~(WriteSections /\ st.first)
    <2>1. heads' = heads /\ decoder' = decoder
      BY <1>3, RefCntMoves, DecoderMoves
    <2> QED BY <2>1 DEF PpsSent
  <1> QED BY <1>1, <1>2, <1>3

\* The first part in the callback is of no other part's frame, and restarts
\* the GOP exactly if it is an IDR.
LEMMA CallbackRestart ==
  ASSUME EncTypes, EncFrames, apc # "destroyed", NEW y, InCallback(y)
  PROVE  /\ y \in Open
         /\ y \in Restarts => st.idr
         /\ \A z : GoesBefore(y, z) <=> z # y
  <1>1. cpc = "sections" /\ st.first /\ st.info = y /\ Active
    BY DEF InCallback, Active
  <1>2. FramesAgree /\ HasSlot(st) /\ y \in InfoID
    BY <1>1, QueuedParts, SlotsOfParts DEF EncFrames
  <1>3. y \in Open
    BY <1>1, <1>2 DEF Open
  <1>4. ASSUME NEW k \in DOMAIN hw.jobs PROVE hw.jobs[k].info # y
    BY <1>2, JobAlone
  <1>5. ASSUME NEW k \in DOMAIN hw.status, FirstOf(k, y) PROVE FALSE
    <2>1. HasSlot(hw.status[k]) /\ hw.status[k].info = st.info /\ hw.status[k].first
      BY <1>1, <1>2, <1>5, QueuedParts DEF Range, FirstOf
    <2>2. hw.status[k].frame = st.frame
      BY <1>2, <2>1, SlotsOfParts
    <2> QED BY <1>1, <1>2, <2>1, <2>2 DEF FramesAgree, PartsInOrder
  <1>6. ~(apc \in {"hls", "send"} /\ pool.iCurID = y)
    BY <1>1, <1>2, SlotsOfParts DEF InSource
  <1>7. y \in Restarts => st.idr
    BY <1>4, <1>5, <1>6 DEF Restarts
  <1>8. \A z : GoesBefore(y, z) <=> z # y
    BY <1>1 DEF GoesBefore, InCallback
  <1> QED BY <1>3, <1>7, <1>8

\* An SPS that is not sent yet is written, when its first user arrives.
LEMMA NewSpsIsWritten ==
  ASSUME EncTypes, EncFrames, EncHeads, SpsComes, apc # "destroyed",
         cpc = "sections", st.first, NotSent(pool.info[st.info].uSpsId)
  PROVE  st.idr
  <1> DEFINE y == st.info
  <1>1. InCallback(y)
    BY DEF InCallback
  <1>2. y \in Open /\ (y \in Restarts => st.idr) /\ \A z : GoesBefore(y, z) <=> z # y
    BY <1>1, CallbackRestart
  <1>3. ASSUME y \notin Restarts PROVE FALSE
    <2>1. PICK w \in Restarts : FrameNo(w) < FrameNo(y)
      BY <1>2, <1>3 DEF SpsComes
    <2>2. w \in Open /\ w # y
      BY <1>3, <2>1 DEF Restarts
    <2>3. FrameNo(w) \in Nat /\ FrameNo(y) \in Nat
      BY <1>2, <2>2, OpenFrames DEF EncFrames
    <2>4. y \in Passed(w)
      BY <1>2, <2>1, <2>2, <2>3 DEF Passed, Newer
    <2> QED BY <2>1, <2>4 DEF SpsComes
  <1> QED BY <1>2, <1>3

LEMMA SpsSentStep ==
  ASSUME EncTypes, EncFrames, EncHeads, HeadersKept, SpsSent, SpsComes, [EncNext]_encVars,
         DOMAIN decoder.sps = SpsID, DOMAIN decoder.pps = PpsID, apc # "destroyed"
  PROVE  SpsSent'
  <1> SUFFICES ASSUME NEW x \in SpsID, heads'.sps[x].bHasBeenSent
               PROVE  /\ decoder'.sps[x] = heads'.sps[x].dim
                      /\ heads'.layerSps.id = x => heads'.layerSps.dim = heads'.sps[x].dim
    BY DEF SpsSent
  <1>1. CASE UpdateEncoderInfos
    <2>1. SpsKept(x) /\ decoder' = decoder /\ heads'.layerSps = heads.layerSps
      BY <1>1, HeadersTaken DEF UpdateEncoderInfos, cbVars
    <2> QED BY <2>1 DEF SpsSent, SpsKept
  <1>2. CASE WriteSections /\ st.first
    <2>1. PICK i, n : i = pool.info[st.info] /\ n = SpsOf(heads, i)
      OBVIOUS
    <2>2. /\ heads'.sps[x].dim = heads.sps[x].dim /\ heads'.layerSps = n
          /\ heads.sps[x].bHasBeenSent \/ x = i.uSpsId
      BY <1>2, <2>1, HeadersSent
    <2>3. decoder'.sps[x] = IF st.idr /\ x = n.id THEN n.dim ELSE decoder.sps[x]
      BY <1>2, <2>1, DecoderMoves
    <2>4. CASE heads.sps[i.uSpsId].bHasBeenSent
      <3>1. n = heads.layerSps /\ heads.sps[x].bHasBeenSent
        BY <2>1, <2>2, <2>4 DEF SpsOf
      <3> QED BY <2>2, <2>3, <3>1 DEF SpsSent
    <2>5. CASE ~heads.sps[i.uSpsId].bHasBeenSent
      <3>1. n.id = i.uSpsId /\ n.dim = heads.sps[i.uSpsId].dim
        BY <2>1, <2>5 DEF SpsOf
      <3>2. st.idr
        BY <1>2, <2>1, <2>5, NewSpsIsWritten DEF WriteSections, NotSent
      <3> QED BY <2>2, <2>3, <3>1, <3>2 DEF SpsSent
    <2> QED BY <2>4, <2>5
  <1>3. CASE ~UpdateEncoderInfos /\ ~(WriteSections /\ st.first)
    <2>1. heads' = heads /\ decoder' = decoder
      BY <1>3, RefCntMoves, DecoderMoves
    <2> QED BY <2>1 DEF SpsSent
  <1> QED BY <1>1, <1>2, <1>3

---------------------------------------------------------------------------
(* A new SPS comes before the frames that use it *)

\* The request that a frame in the firmware restarts the GOP is in its job.
LEMMA JobRestart ==
  ASSUME EncTypes, EncFrames, apc # "destroyed", NEW i \in DOMAIN hw.jobs,
         hw.jobs[i].info \in Restarts
  PROVE  hw.jobs[i].restart
  <1> DEFINE y == hw.jobs[i].info
  <1>1. /\ ~InCallback(y) /\ \A k \in DOMAIN hw.status : ~FirstOf(k, y)
        /\ \A k \in DOMAIN hw.jobs : hw.jobs[k].info = y => k = i
        /\ ~(apc \in {"hls", "send"} /\ pool.iCurID = y)
    BY JobAlone DEF EncFrames
  <1>2. y \in Restarts
    OBVIOUS
  <1> HIDE DEF y
  <1> QED BY <1>1, <1>2 DEF Restarts, y

LEMMA RestartsUnpassed ==
  ASSUME EncTypes, EncFrames, EncHeads, EncOrder, SpsComes, [EncNext]_encVars, Faultless,
         apc # "destroyed", NEW y \in Restarts'
  PROVE  Passed(y)' = {}
  <1>1. /\ FramesAgree /\ hw.jobs \in Seq(JobSet) /\ next \in Nat
    BY DEF EncFrames, EncTypes, EncVarTypes, ThreadsAgree, HwSet
  <1>2. PICK cur : cur = pool.iCurID
    OBVIOUS
  <1>3. /\ y \in Open' /\ Passed(y)' = {z \in Newer(y)' : GoesBefore(z, y)'}
        /\ Newer(y)' \subseteq Open' /\ Open' \subseteq InfoID
    BY DEF Restarts, Passed, Newer, Open
  <1>4. CASE UpdateEncoderInfos /\ y = cur
    BY <1>1, <1>2, <1>3, <1>4, NewerMoves
  <1>5. CASE ~(UpdateEncoderInfos /\ y = cur)
    <2>1. y \in Restarts
      BY <1>2, <1>5, RestartsMove
    <2>2. y \in Open /\ Passed(y) = {}
      BY <2>1 DEF Restarts, SpsComes
    <2> SUFFICES ASSUME NEW z \in Newer(y)', GoesBefore(z, y)' PROVE FALSE
      BY <1>3
    <2>3. z \in Newer(y) \/ (UpdateEncoderInfos /\ z = cur /\ cur \notin Open)
      BY <1>1, <1>2, <1>3, <2>2, NewerMoves
    <2>4. CASE GoesBefore(z, y)
      <3>1. z \in Open
        BY <1>3, <2>4 DEF GoesBefore, InCallback, FirstOf, Open
      <3> QED BY <2>2, <2>3, <2>4, <3>1 DEF Passed
    <2>5. CASE ~GoesBefore(z, y)
      <3>1. /\ EncodePart
            /\ ~InCallback(y) /\ \A j \in DOMAIN hw.status : ~FirstOf(j, y)
            /\ \E i \in DOMAIN hw.jobs :
                  MayEncode(i) /\ hw'.jobs = JobsAfter(i) /\ z = hw.jobs[i].info /\ y # z
        BY <1>1, <1>3, <2>5, BeforeMoves
      <3>2. PICK i \in DOMAIN hw.jobs : MayEncode(i) /\ z = hw.jobs[i].info /\ y # z
        BY <3>1
      <3>3. hw.alive /\ ~UpdateEncoderInfos
        BY <3>1, PartEncoded DEF EncodePart, UpdateEncoderInfos, Goes, appVars
      <3>4. z \in Newer(y) /\ JobsInOrder
        BY <2>3, <3>3 DEF EncOrder
      <3>5. FrameNo(z) > FrameNo(y) /\ FrameNo(z) = hw.jobs[i].frame
        BY <1>1, <3>2, <3>4, JobAlone DEF Newer
      <3>6. ~(apc \in {"hls", "send"} /\ pool.iCurID = y)
        <4>1. FrameNo(z) \in Nat /\ FrameNo(z) <= next
          BY <1>1, <3>4, OpenFrames DEF Newer
        <4>2. InSource /\ y = pool.iCurID => FrameNo(y) = next
          BY <1>1, <2>2, OpenFrames
        <4> QED BY <1>1, <3>5, <4>1, <4>2 DEF InSource
      <3>7. PICK j \in DOMAIN hw.jobs : hw.jobs[j].info = y
        BY <2>2, <3>1, <3>6 DEF Open, FirstOf, InCallback
      <3>8. FrameNo(y) = hw.jobs[j].frame /\ hw.jobs[j].restart
        BY <1>1, <2>1, <3>7, JobAlone, JobRestart
      <3>9. j # i /\ i \in Nat /\ j \in Nat /\ j >= 1
        BY <1>1, <3>2, <3>7, LenProperties
      <3>10. ~(i < j)
        <4>1. FrameNo(y) \in Nat /\ FrameNo(z) \in Nat
          BY <1>1, <2>2, <3>4, OpenFrames DEF Newer
        <4> QED BY <1>1, <3>4, <3>5, <3>7, <3>8, <4>1 DEF JobsInOrder
      <3>11. i > 1 /\ j \in 1 .. i
        BY <3>9, <3>10
      <3> QED BY <3>2, <3>8, <3>11 DEF MayEncode
    <2> QED BY <2>4, <2>5
  <1> QED BY <1>4, <1>5

\* Where nothing fails the frames leave one by one, or all at once.
LEMMA OpenSame ==
  ASSUME EncTypes, EncFrames, EncHeads, [EncNext]_encVars, Faultless, ~UpdateEncoderInfos,
         ~(WriteSections /\ st.first), ~DestroyChannel, apc # "destroyed"
  PROVE  Open' = Open
  <1>1. CASE EncodePart
    BY <1>1, OpenEncoded
  <1>2. CASE EndEncodingBegins
    <2>1. ~hw.status[1].error
      BY <1>2, StatusTaken DEF EncHeads, Faultless
    <2> QED BY <1>2, <2>1, OpenBegun
  <1>3. CASE FrameSent
    BY <1>3, OpenSent
  <1>4. CASE WriteSections
    BY <1>4, OpenReleased DEF EncFrames
  <1>5. CASE ~EncodePart /\ ~EndEncodingBegins /\ ~FrameSent /\ ~WriteSections
    <2>1. ~FrameRefused
      BY DEF FrameRefused, Faultless
    <2> QED BY <1>5, <2>1, OpenElse
  <1> QED BY <1>1, <1>2, <1>3, <1>4, <1>5

\* A restart stays until its headers are written, while a newer frame does.
LEMMA RestartStays ==
  ASSUME EncTypes, EncFrames, EncHeads, SpsComes, [EncNext]_encVars, Faultless,
         apc # "destroyed", NEW w \in Restarts,
         hw'.alive \/ \E z \in Open \cap Open' : FrameNo(w) < FrameNo(z)
  PROVE  w \in Restarts' \/ (WriteSections /\ st.first /\ w = st.info)
  <1>1. w \in Open /\ Passed(w) = {}
    BY DEF Restarts, SpsComes
  <1>2. CASE UpdateEncoderInfos
    BY <1>2, RestartsMove
  <1>3. CASE ~UpdateEncoderInfos /\ ((WriteSections /\ st.first) \/ ~DestroyChannel)
    <2>1. w \in Open' \/ (WriteSections /\ st.first /\ w = st.info)
      BY <1>1, <1>3, OpenMoves, OpenSame
    <2> QED BY <1>3, <2>1, RestartsMove
  <1>4. CASE DestroyChannel /\ ~UpdateEncoderInfos
    <2>1. ~hw'.alive /\ apc' = "join"
      BY <1>4, DriverMoves DEF DestroyChannel, Goes
    <2>2. PICK z \in Open \cap Open' : FrameNo(w) < FrameNo(z)
      BY <2>1
    <2>3. /\ hw'.status = hw.status /\ hw'.jobs = <<>> /\ cpc' = cpc /\ st' = st
      BY <1>4, QueueMoves DEF DestroyChannel, cbVars, EncTypes, EncVarTypes, HwSet
    <2>4. z \in Newer(w) /\ ~GoesBefore(z, w)
      <3>1. FrameNo(w) \in Nat /\ FrameNo(z) \in Nat
        BY <1>1, <2>2, OpenFrames DEF EncFrames
      <3> QED BY <1>1, <2>2, <3>1 DEF Newer, Passed
    <2>5. InCallback(z) \/ \E i \in DOMAIN hw.status : FirstOf(i, z)
      <3>1. InCallback(z)' \/ (\E i \in DOMAIN hw'.status : FirstOf(i, z)')
        BY <2>1, <2>2, <2>3 DEF Open, InCallback, FirstOf
      <3> QED BY <2>3, <3>1 DEF InCallback, FirstOf
    <2>6. InCallback(w) \/ \E i \in DOMAIN hw.status : FirstOf(i, w)
      <3>1. hw.status \in Seq(PartSet \cup {EndOfStreamStatus})
        BY DEF EncTypes, EncVarTypes, HwSet
      <3>2. \A i \in DOMAIN hw.status : 1 .. i \subseteq DOMAIN hw.status
        BY <3>1, LenProperties
      <3> QED BY <2>4, <2>5, <3>2 DEF GoesBefore
    <2>7. w \in Open'
      <3>1. InCallback(w)' \/ \E i \in DOMAIN hw'.status : FirstOf(i, w)'
        BY <2>3, <2>6 DEF InCallback, FirstOf
      <3> QED BY <1>1, <3>1 DEF Open, InCallback, FirstOf
    <2> QED BY <1>4, <2>7, RestartsMove
  <1> QED BY <1>2, <1>3, <1>4

\* An SPS in use that is not sent was not sent before, and its first user is
\* not in the callback.
LEMMA NotSentBefore ==
  ASSUME EncTypes, EncHeads, [EncNext]_encVars, NEW x \in SpsID, NotSent(x)'
  PROVE  /\ NotSent(x) \/ (UpdateEncoderInfos /\ heads.sps[x].iRefCnt = 0)
         /\ UpdateEncoderInfos /\ SameSps(heads, chan.dim) => NotSent(x)
         /\ WriteSections /\ st.first => pool.info[st.info].uSpsId # x
  <1>1. CASE UpdateEncoderInfos
    <2>1. ~(WriteSections /\ st.first)
      BY <1>1 DEF UpdateEncoderInfos, WriteSections, Goes, appVars
    <2> QED BY <1>1, <2>1, HeadersTaken DEF SpsKept, NotSent
  <1>2. CASE WriteSections /\ st.first
    <2>1. ~UpdateEncoderInfos
      BY <1>2 DEF UpdateEncoderInfos, WriteSections, Goes, appVars
    <2> QED BY <1>2, <2>1, HeadersSent DEF NotSent
  <1>3. CASE ~UpdateEncoderInfos /\ ~(WriteSections /\ st.first)
    <2>1. heads' = heads
      BY <1>3, RefCntMoves
    <2> QED BY <1>3, <2>1 DEF NotSent
  <1> QED BY <1>1, <1>2, <1>3

\* The SPS given last belongs to the frame that is being sent.
LEMMA LaunchedSps ==
  ASSUME EncTypes, EncFrames, EncHeads, EncOrder, Faultless, apc \in {"hls", "send"},
         NEW cur, cur = pool.iCurID
  PROVE  cur \in Open /\ pool.info[cur].uSpsId = heads.iPrevSps
  <1>1. /\ hw.alive /\ apc # "destroyed" /\ cur \in InfoID /\ cur \in Open /\ next \in Nat
        /\ InSource
    BY DEF EncTypes, ThreadsAgree, Open, InSource
  <1>2. SpsBehind(cur) <= Cardinality(Newer(cur) \cap Restarts)
    BY <1>1 DEF EncOrder, SpsNear
  <1>3. Newer(cur) = {}
    <2>1. FrameNo(cur) = next /\ \A z \in Open : FrameNo(z) \in Nat /\ FrameNo(z) <= next
      BY <1>1, OpenFrames DEF EncFrames
    <2> QED BY <1>1, <2>1 DEF Newer
  <1>4. Cardinality(Newer(cur) \cap Restarts) = 0
    <2>1. Newer(cur) \cap Restarts = {} /\ {} \in SUBSET InfoID
      BY <1>3
    <2> QED BY <2>1, IdCounts
  <1> DEFINE a == heads.iPrevSps
             b == pool.info[cur].uSpsId
  <1>5. /\ a \in SpsID /\ b \in SpsID /\ iMaxSpsIds \in Nat /\ iMaxSpsIds > 0
    BY <1>1, EncAssumption DEF EncTypes, EncVarTypes, HeadsSet, PoolSet, InfoSet
  <1>6. (a - b) % iMaxSpsIds <= 0
    BY <1>2, <1>4 DEF SpsBehind
  <1> HIDE DEF a, b
  <1>7. a = b
    <2>1. a \in 0 .. iMaxSpsIds - 1 /\ b \in 0 .. iMaxSpsIds - 1
      BY <1>5 DEF SpsID
    <2> DEFINE C == iMaxSpsIds
    <2>2. C \in Nat /\ C > 0 /\ a - b \in Int /\ -C <= a - b /\ a - b < 2 * C /\ a - b < C
      BY <1>5, <2>1
    <2>3. (a - b) % C <= 0
      BY <1>6
    <2>4. (a - b) % C = IF a - b < 0 THEN a - b + C ELSE IF a - b >= C THEN a - b - C ELSE a - b
      <3> HIDE DEF C
      <3> QED BY <2>2, RingTurn
    <2> HIDE DEF C
    <2>5. a \in Int /\ b \in Int /\ -C < a - b
      BY <1>5, <2>1, <2>2 DEF C
    <2> QED BY <2>2, <2>3, <2>4, <2>5
  <1> QED BY <1>1, <1>7 DEF a, b

LEMMA NewSpsStep ==
  ASSUME EncTypes, EncFrames, EncHeads, EncOrder, SpsComes, [EncNext]_encVars, Faultless,
         apc # "destroyed", NEW z \in Open' \ Restarts', NotSent(pool.info[z].uSpsId)'
  PROVE  \E w \in Restarts' :
            UsesSps(w, pool.info[z].uSpsId)' /\ FrameNo(w)' < FrameNo(z)'
  <1>1. PICK x : x = pool'.info[z].uSpsId
    OBVIOUS
  <1>2. FramesAgree /\ Restarts \subseteq Open
    BY DEF EncFrames, Restarts
  <1>3. EncTypes'
    BY EncTypesStep
  <1>4. x \in SpsID
    BY <1>1, <1>3 DEF EncTypes, EncVarTypes, PoolSet, InfoSet, Open
  <1>5. NotSent(x)'
    BY <1>1 DEF NotSent
  <1>6. ASSUME NEW w \in Restarts, w \in Restarts', UsesSps(w, x), FrameNo(w) < FrameNo(z)',
               UpdateEncoderInfos => w # pool.iCurID
        PROVE  \E v \in Restarts' :
                  UsesSps(v, pool.info[z].uSpsId)' /\ FrameNo(v)' < FrameNo(z)'
    <2>1. w \in Open /\ w \in Open'
      BY <1>2, <1>6 DEF Restarts
    <2>2. pool'.info[w].uSpsId = x
      BY <1>6, <2>1, OpenStays DEF InfoStays, UsesSps
    <2>3. FrameNo(w)' = FrameNo(w)
      BY <1>2, <2>1, OpenFrameKept
    <2> QED BY <1>1, <1>6, <2>2, <2>3 DEF UsesSps
  <1>7. CASE UpdateEncoderInfos /\ z = pool.iCurID
    <2>1. Restarts' = Restarts \cup (IF chan.restart \/ hw.fresh THEN {z} ELSE {})
      BY <1>7, RestartsMove
    <2>2. ~chan.restart /\ ~hw.fresh /\ hw.alive
      BY <1>7, <2>1 DEF UpdateEncoderInfos, EncTypes, ThreadsAgree
    <2>3. SameSps(heads, chan.dim)
      BY <2>2 DEF EncOrder, SpsNear
    <2>4. x = heads.iPrevSps /\ FrameNo(z)' = next
      BY <1>1, <1>2, <1>7, <2>3, PushedFrame, HeadersTaken
    <2>5. NotSent(heads.iPrevSps)
      BY <1>4, <1>5, <1>7, <2>3, <2>4, NotSentBefore
    <2>6. PICK w \in Restarts : UsesSps(w, x)
      BY <2>2, <2>4, <2>5 DEF SpsComes
    <2>7. w \in Open /\ z \notin Open
      BY <1>2, <1>7, OpenTaken
    <2>8. FrameNo(w) < next
      BY <1>2, <1>7, <2>7, OpenFrames
    <2> QED BY <1>6, <1>7, <2>1, <2>4, <2>6, <2>7, <2>8
  <1>8. CASE z \in Open /\ (UpdateEncoderInfos => z # pool.iCurID) /\ InfoStays(z)
    <2>1. pool.info[z].uSpsId = x /\ FrameNo(z)' = FrameNo(z)
      BY <1>1, <1>8 DEF InfoStays, FrameNo
    <2>2. heads.sps[x].iRefCnt # 0
      BY <1>8, <2>1, UsedHeaders
    <2>3. NotSent(x) /\ (WriteSections /\ st.first => pool.info[st.info].uSpsId # x)
      BY <1>4, <1>5, <2>2, NotSentBefore
    <2>4. z \notin Restarts
      BY <1>8, RestartsMove
    <2>5. PICK w \in Restarts : UsesSps(w, x) /\ FrameNo(w) < FrameNo(z)
      BY <1>8, <2>1, <2>3, <2>4 DEF SpsComes
    <2>6. w \in Restarts'
      BY <1>8, <2>3, <2>5, RestartStays DEF UsesSps
    <2>7. UpdateEncoderInfos => w # pool.iCurID
      BY <1>2, <2>5, OpenTaken
    <2> QED BY <1>6, <2>1, <2>5, <2>6, <2>7
  <1> QED BY <1>7, <1>8, OpenStays

LEMMA LastSpsStep ==
  ASSUME EncTypes, EncFrames, EncHeads, EncOrder, SpsComes, [EncNext]_encVars, Faultless,
         apc # "destroyed", hw'.alive, NotSent(heads.iPrevSps)'
  PROVE  \/ chan'.restart \/ hw'.fresh
         \/ \E w \in Restarts' : UsesSps(w, heads.iPrevSps)'
  <1>1. PICK x : x = heads'.iPrevSps
    OBVIOUS
  <1>2. FramesAgree /\ Restarts \subseteq Open /\ hw.alive
    BY DriverMoves DEF EncFrames, Restarts, EncTypes, EncVarTypes, HwSet
  <1>3. EncTypes'
    BY EncTypesStep
  <1>4. x \in SpsID
    BY <1>1, <1>3 DEF EncTypes, EncVarTypes, HeadsSet
  <1>5. NotSent(x)'
    BY <1>1 DEF NotSent
  <1>6. ASSUME NEW w \in Restarts, UsesSps(w, x), NotSent(x) PROVE \E v \in Restarts' : UsesSps(v, heads.iPrevSps)'
    <2>1. UpdateEncoderInfos => w # pool.iCurID
      BY <1>2, OpenTaken
    <2>2. w \in Restarts'
      BY <1>4, <1>5, <1>6, RestartStays, NotSentBefore DEF UsesSps
    <2>3. pool'.info[w].uSpsId = x
      BY <1>6, <2>1, <2>2, OpenStays DEF InfoStays, UsesSps, Restarts
    <2> QED BY <1>1, <2>2, <2>3 DEF UsesSps
  <1>7. CASE UpdateEncoderInfos
    <2>1. chan' = chan /\ hw' = hw
      BY <1>7 DEF UpdateEncoderInfos
    <2>2. CASE SameSps(heads, chan.dim)
      <3>1. x = heads.iPrevSps /\ NotSent(x)
        BY <1>1, <1>4, <1>5, <1>7, <2>2, HeadersTaken, NotSentBefore
      <3> QED BY <1>2, <1>6, <2>1, <3>1 DEF SpsComes
    <2>3. CASE ~SameSps(heads, chan.dim)
      BY <1>2, <2>1, <2>3 DEF EncOrder, SpsNear
    <2> QED BY <2>2, <2>3
  <1>8. CASE ~UpdateEncoderInfos
    <2>1. x = heads.iPrevSps /\ NotSent(x)
      BY <1>1, <1>4, <1>5, <1>8, LastIdsMove, NotSentBefore
    <2>2. CASE \E w \in Restarts : UsesSps(w, x)
      BY <1>6, <2>1, <2>2
    <2>3. CASE chan.restart \/ hw.fresh
      <3>1. ~FrameRefused
        BY DEF FrameRefused, Faultless
      <3>2. CASE FrameSent
        <4>1. apc = "send"
          BY <3>2 DEF FrameSent
        <4>2. PICK cur : cur = pool.iCurID
          OBVIOUS
        <4>3. cur \in Open /\ pool.info[cur].uSpsId = x
          BY <2>1, <4>1, <4>2, LaunchedSps
        <4>4. cur \in Restarts
          BY <2>3, <4>1, <4>2, <4>3 DEF Restarts
        <4> QED BY <1>6, <2>1, <4>3, <4>4 DEF UsesSps
      <3>3. CASE ~FrameSent
        BY <2>3, <3>1, <3>3, RequestMoves
      <3> QED BY <3>2, <3>3
    <2> QED BY <1>2, <2>1, <2>2, <2>3 DEF SpsComes
  <1> QED BY <1>7, <1>8

LEMMA SpsComesStep ==
  ASSUME EncTypes, EncFrames, EncHeads, EncOrder, SpsComes, [EncNext]_encVars, Faultless,
         apc # "destroyed"
  PROVE  SpsComes'
  <1>1. \A y \in Restarts' : Passed(y)' = {}
    BY RestartsUnpassed
  <1>2. ASSUME NEW z \in Open' \ Restarts', NotSent(pool.info[z].uSpsId)'
        PROVE  \E w \in Restarts' :
                  UsesSps(w, pool.info[z].uSpsId)' /\ FrameNo(w)' < FrameNo(z)'
    BY <1>2, NewSpsStep
  <1>3. ASSUME hw'.alive, NotSent(heads.iPrevSps)'
        PROVE  \/ chan'.restart \/ hw'.fresh
               \/ \E w \in Restarts' : UsesSps(w, heads.iPrevSps)'
    BY <1>3, LastSpsStep
  <1> QED BY <1>1, <1>2, <1>3 DEF SpsComes

---------------------------------------------------------------------------
(* The parts of a frame reach the decoder one after the other *)

\* The frame-info id of the part before the k-th that waits.
Before(S, c, k) == IF k = 1 THEN c.info ELSE S[k - 1].info
Adjoin(S, B, c) ==
    /\ \A k \in DOMAIN S :
          S[k] # EndOfStreamStatus /\ ~S[k].first => S[k].info = Before(S, c, k)
    /\ \A b \in DOMAIN B : B[b].info = IF S = <<>> THEN c.info ELSE S[Len(S)].info
LEMMA AdjoinIs == PartsAdjoin <=> Adjoin(hw.status, hw.busy, st)
  BY DEF PartsAdjoin, Adjoin, Before, Further

LEMMA AdjoinTaken ==
  ASSUME NEW S \in Seq(PartSet \cup {EndOfStreamStatus}), S # <<>>, NEW B \in Seq(JobSet),
         NEW c, Adjoin(S, B, c), NEW d, d.info = S[1].info
  PROVE  Adjoin(Tail(S), B, d)
  <1> DEFINE T == PartSet \cup {EndOfStreamStatus}
  <1>1. /\ DOMAIN S = 1 .. Len(S) /\ Len(S) \in Nat \ {0} /\ Len(Tail(S)) = Len(S) - 1
        /\ DOMAIN Tail(S) = 1 .. Len(S) - 1
        /\ \A i \in 1 .. Len(S) - 1 : Tail(S)[i] = S[i + 1]
    <2> S \in Seq(T)
      OBVIOUS
    <2> HIDE DEF T
    <2> QED BY TailPlaces
  <1>2. PICK R : R = Tail(S)
    OBVIOUS
  <1>3. ASSUME NEW k \in DOMAIN R, R[k] # EndOfStreamStatus, ~R[k].first
        PROVE  R[k].info = Before(R, d, k)
    <2>1. k \in Nat /\ k >= 1 /\ k + 1 \in DOMAIN S /\ R[k] = S[k + 1]
      BY <1>1, <1>2, <1>3
    <2>2. R[k].info = S[k].info
      BY <1>3, <2>1 DEF Adjoin, Before
    <2>3. CASE k = 1
      BY <2>2, <2>3 DEF Before
    <2>4. CASE k # 1
      <3>1. k - 1 \in 1 .. Len(S) - 1 /\ (k - 1) + 1 = k
        BY <1>1, <1>2, <1>3, <2>1, <2>4
      <3>2. R[k - 1] = S[k]
        BY <1>1, <1>2, <3>1
      <3> QED BY <2>2, <2>4, <3>2 DEF Before
    <2> QED BY <2>3, <2>4
  <1>4. ASSUME NEW b \in DOMAIN B PROVE B[b].info = IF R = <<>> THEN d.info ELSE R[Len(R)].info
    <2>1. B[b].info = S[Len(S)].info
      BY <1>4 DEF Adjoin
    <2>2. CASE R = <<>>
      <3>1. Len(R) = 0
        BY <2>2
      <3>2. Len(S) = 1
        BY <1>1, <1>2, <3>1
      <3> QED BY <2>1, <2>2, <3>2
    <2>3. CASE R # <<>>
      <3>1. R \in Seq(T)
        BY <1>2
      <3>2. Len(R) # 0
        BY <2>3, <3>1, EmptySeq
      <3>3. Len(R) \in 1 .. Len(S) - 1 /\ Len(R) + 1 = Len(S)
        BY <1>1, <1>2, <3>2
      <3>4. R[Len(R)] = S[Len(S)]
        BY <1>1, <1>2, <3>3
      <3> QED BY <2>1, <2>3, <3>4
    <2> QED BY <2>2, <2>3
  <1> QED BY <1>2, <1>3, <1>4 DEF Adjoin

LEMMA AdjoinAdded ==
  ASSUME NEW S \in Seq(PartSet \cup {EndOfStreamStatus}), NEW B, NEW c, Adjoin(S, B, c),
         NEW p, NEW C, \A b \in DOMAIN C : C[b].info = p.info,
         p # EndOfStreamStatus /\ ~p.first =>
            \E b \in DOMAIN B : B[b].info = p.info
  PROVE  Adjoin(Append(S, p), C, c)
  <1> DEFINE T == PartSet \cup {EndOfStreamStatus}
  <1>1. /\ DOMAIN S = 1 .. Len(S) /\ Len(S) \in Nat /\ Len(Append(S, p)) = Len(S) + 1
        /\ DOMAIN Append(S, p) = 1 .. Len(S) + 1
        /\ \A i \in 1 .. Len(S) : Append(S, p)[i] = S[i]
        /\ Append(S, p)[Len(S) + 1] = p
    <2> S \in Seq(T)
      OBVIOUS
    <2> HIDE DEF T
    <2> QED BY AppendPlaces
  <1>2. PICK R, n : R = Append(S, p) /\ n = Len(S)
    OBVIOUS
  <1>3. ASSUME NEW k \in DOMAIN R, R[k] # EndOfStreamStatus, ~R[k].first
        PROVE  R[k].info = Before(R, c, k)
    <2>1. CASE k \in 1 .. n
      <3>1. R[k] = S[k] /\ S[k].info = Before(S, c, k)
        BY <1>1, <1>2, <1>3, <2>1 DEF Adjoin
      <3>2. k # 1 => k - 1 \in 1 .. n
        BY <1>1, <1>2, <2>1
      <3>3. k # 1 => R[k - 1] = S[k - 1]
        BY <1>1, <1>2, <3>2
      <3> QED BY <3>1, <3>3 DEF Before
    <2>2. CASE k = n + 1
      <3>1. R[k] = p
        BY <1>1, <1>2, <2>2
      <3>2. p.info = IF S = <<>> THEN c.info ELSE S[n].info
        BY <1>2, <1>3, <3>1 DEF Adjoin
      <3>3. S = <<>> => n = 0
        BY <1>2
      <3>4. S # <<>> => n # 0
        BY <1>2, EmptySeq
      <3>5. CASE n = 0
        BY <2>2, <3>1, <3>2, <3>4, <3>5 DEF Before
      <3>6. CASE n # 0
        <4>1. k # 1 /\ k - 1 = n /\ n \in 1 .. n
          BY <1>1, <1>2, <2>2, <3>6
        <4>2. R[k - 1] = S[n]
          BY <1>1, <1>2, <4>1
        <4> QED BY <3>1, <3>2, <3>3, <3>6, <4>1, <4>2 DEF Before
      <3> QED BY <3>5, <3>6
    <2> QED BY <1>1, <1>2, <1>3, <2>1, <2>2
  <1>4. ASSUME NEW b \in DOMAIN C PROVE C[b].info = IF R = <<>> THEN c.info ELSE R[Len(R)].info
    <2>1. R[Len(R)] = p /\ Len(R) # 0
      BY <1>1, <1>2
    <2>2. R # <<>>
      BY <2>1
    <2> QED BY <1>4, <2>1, <2>2
  <1> QED BY <1>2, <1>3, <1>4 DEF Adjoin

LEMMA PartsAdjoinStep ==
  ASSUME EncTypes, PartsAdjoin, [EncNext]_encVars
  PROVE  PartsAdjoin'
  <1>1. /\ hw.status \in Seq(PartSet \cup {EndOfStreamStatus}) /\ hw.busy \in Seq(JobSet)
        /\ Adjoin(hw.status, hw.busy, st)
    BY AdjoinIs DEF EncTypes, EncVarTypes, HwSet
  <1> SUFFICES Adjoin(hw'.status, hw'.busy, st')
    BY DEF PartsAdjoin, Adjoin, Before, Further
  <1>2. EndEncodingBegins \/ st' = st
    BY Writers
  <1>3. CASE EncodePart
    <2>1. PICK job \in JobSet, first \in BOOLEAN, e \in BOOLEAN :
            /\ hw'.status = Append(hw.status, Status(job, first, e))
            /\ hw'.busy = IF job.parts = 1 THEN <<>> ELSE <<NextPart(job)>>
            /\ NextPart(job).info = job.info
            /\ hw.busy = <<job>> \/ first = TRUE
      BY <1>3, PartEncoded
    <2>2. Status(job, first, e).info = job.info /\ Status(job, first, e).first = first
      BY DEF Status
    <2>3. \A b \in DOMAIN hw'.busy : hw'.busy[b].info = job.info
      BY <2>1
    <2>4. ~first => \E b \in DOMAIN hw.busy : hw.busy[b].info = job.info
      BY <2>1
    <2>5. st' = st
      BY <1>3 DEF EncodePart, cbVars
    <2> QED BY <1>1, <2>1, <2>2, <2>3, <2>4, <2>5, AdjoinAdded
  <1>4. CASE ReportEos
    <2>1. /\ hw'.status = Append(hw.status, EndOfStreamStatus) /\ hw'.busy = hw.busy
          /\ hw.busy = <<>> /\ st' = st
      BY <1>4 DEF ReportEos, cbVars, EncTypes, EncVarTypes, HwSet
    <2> QED BY <1>1, <2>1, AdjoinAdded
  <1>5. CASE EndEncodingBegins
    BY <1>1, <1>5, StatusTaken, AdjoinTaken
  <1>6. CASE EndEncodingEos
    <2>1. /\ hw.status # <<>> /\ hw'.status = Tail(hw.status) /\ hw'.busy = hw.busy
          /\ hw.status[1] = EndOfStreamStatus /\ st' = st
      BY <1>1, <1>6 DEF EndEncodingEos, EncTypes, EncVarTypes, HwSet
    <2> DEFINE R == Tail(hw.status)
    <2>2. Adjoin(R, hw.busy, EndOfStreamStatus)
      BY <1>1, <2>1, AdjoinTaken
    <2>3. EndOfStreamStatus.info \notin InfoID
      BY Ranges DEF EndOfStreamStatus
    <2>4. R \in Seq(PartSet \cup {EndOfStreamStatus})
      BY <1>1, <2>1
    <2>5. ASSUME NEW k \in DOMAIN R, R[k] # EndOfStreamStatus, ~R[k].first PROVE k # 1
      <3>1. R[k] \in PartSet
        BY <2>4, <2>5
      <3>2. R[k].info \in InfoID
        BY <3>1 DEF PartSet
      <3> QED BY <2>2, <2>3, <2>5, <3>2 DEF Adjoin, Before
    <2>6. R # <<>> \/ hw.busy = <<>>
      <3> SUFFICES ASSUME hw.busy # <<>>, R = <<>> PROVE FALSE
        OBVIOUS
      <3>1. 1 \in DOMAIN hw.busy /\ hw.busy[1] \in JobSet
        <4>1. Len(hw.busy) \in Nat /\ Len(hw.busy) # 0
          BY <1>1, EmptySeq
        <4> QED BY <1>1, <4>1
      <3>2. hw.busy[1].info \in InfoID
        BY <3>1 DEF JobSet
      <3> QED BY <2>2, <2>3, <3>1, <3>2 DEF Adjoin
    <2> HIDE DEF R
    <2>7. Adjoin(R, hw.busy, st)
      <3>1. \A k \in DOMAIN R :
               R[k] # EndOfStreamStatus /\ ~R[k].first => R[k].info = Before(R, st, k)
        BY <2>2, <2>5 DEF Adjoin, Before
      <3>2. \A b \in DOMAIN hw.busy :
               hw.busy[b].info = IF R = <<>> THEN st.info ELSE R[Len(R)].info
        BY <2>2, <2>6 DEF Adjoin
      <3> QED BY <3>1, <3>2 DEF Adjoin
    <2> QED BY <2>1, <2>7 DEF R
  <1>7. CASE DestroyChannel
    <2>1. hw'.status = hw.status /\ hw'.busy = <<>> /\ st' = st
      BY <1>7 DEF DestroyChannel, cbVars, EncTypes, EncVarTypes, HwSet
    <2> QED BY <1>1, <2>1 DEF Adjoin
  <1>8. CASE ~EncodePart /\ ~ReportEos /\ ~EndEncodingBegins /\ ~EndEncodingEos /\ ~DestroyChannel
    <2>1. hw'.status = hw.status /\ hw'.busy = hw.busy
      BY <1>8, QueueMoves
    <2> QED BY <1>1, <1>2, <1>8, <2>1
  <1> QED BY <1>3, <1>4, <1>5, <1>6, <1>7, <1>8

\* A frame with parts to come holds its slot, and its headers stay.
LEMMA PartsToComeHeld ==
  ASSUME EncTypes, EncFrames, PartsAdjoin, PartsToCome, apc # "destroyed"
  PROVE  \E p : HasSlot(p) /\ p.info = st.info
  <1>1. FramesAgree /\ PartsHeld
    BY DEF EncFrames, FramesAgree
  <1>2. CASE cpc \in {"sections", "user"}
    BY <1>1, <1>2 DEF PartsHeld, Active
  <1>3. CASE hw.status # <<>> /\ Further(1)
    <2>1. 1 \in DOMAIN hw.status
      <3>1. hw.status \in Seq(PartSet \cup {EndOfStreamStatus})
        BY DEF EncTypes, EncVarTypes, HwSet
      <3> QED BY <1>3, <3>1, EmptySeq, LenProperties
    <2>2. hw.status[1].info = st.info
      BY <1>3, <2>1 DEF PartsAdjoin
    <2> QED BY <1>1, <1>3, <2>1, <2>2 DEF PartsHeld, Further
  <1>4. CASE hw.status = <<>> /\ hw.busy # <<>>
    <2>1. 1 \in DOMAIN hw.busy
      <3>1. hw.busy \in Seq(JobSet)
        BY DEF EncTypes, EncVarTypes, HwSet
      <3> QED BY <1>4, <3>1, EmptySeq, LenProperties
    <2>2. hw.busy[1].info = st.info
      BY <1>4, <2>1 DEF PartsAdjoin
    <2> QED BY <1>1, <2>1, <2>2 DEF PartsHeld
  <1> QED BY <1>2, <1>3, <1>4 DEF PartsToCome

LEMMA DeliveredKept ==
  ASSUME EncTypes, EncFrames, [EncNext]_encVars, apc # "destroyed",
         DOMAIN decoder.sps = SpsID, DOMAIN decoder.pps = PpsID,
         ~(WriteSections /\ st.first), NEW p, HasSlot(p), NEW x, x = p.info, Delivered(x)
  PROVE  Delivered(x)'
  <1>1. FramesAgree /\ SlotsAgree
    BY DEF EncFrames, FramesAgree
  <1>2. x \in InfoID /\ (InSource => x # pool.iCurID)
    BY <1>1, SlotsOfParts
  <1>3. x \notin Free
    <2>1. PICK s \in Sent : SourceSent[s] = <<p.frame, x>>
      BY DEF HasSlot, HeldBy
    <2> QED BY <1>1, <2>1 DEF SlotsAgree, InfoOf
  <1>4. UpdateEncoderInfos => x # pool.iCurID
    BY <1>2 DEF UpdateEncoderInfos, InSource
  <1>5. /\ pool'.info[x].frame = pool.info[x].frame
        /\ pool'.info[x].uSpsId = pool.info[x].uSpsId
        /\ pool'.info[x].uPpsId = pool.info[x].uPpsId
    BY <1>2, <1>3, <1>4, InfoKept
  <1>6. decoder' = decoder
    BY DecoderMoves
  <1>7. PICK n : n = pool.info[x].frame
    OBVIOUS
  <1>8. OffsetOf(n)' = OffsetOf(n) /\ DimOf(n)' = DimOf(n)
    BY ParametersFixed
  <1>9. OffsetOf(pool.info[x].frame)' = OffsetOf(n)' /\ DimOf(pool.info[x].frame)' = DimOf(n)'
    BY <1>5, <1>7 DEF OffsetOf, DimOf
  <1> QED BY <1>5, <1>6, <1>7, <1>8, <1>9 DEF Delivered

LEMMA AppendFirst ==
  ASSUME NEW S, NEW q \in Seq(S), NEW e
  PROVE  Append(q, e) # <<>> /\ Append(q, e)[1] = IF q = <<>> THEN e ELSE q[1]
  <1>1. /\ Len(q) \in Nat /\ Len(Append(q, e)) = Len(q) + 1
        /\ \A i \in 1 .. Len(q) : Append(q, e)[i] = q[i]
        /\ Append(q, e)[Len(q) + 1] = e /\ (q = <<>> <=> Len(q) = 0)
    BY AppendPlaces, EmptySeq
  <1>2. Append(q, e) # <<>>
    <2>1. Len(Append(q, e)) # 0 /\ Len(<<>>) = 0
      BY <1>1
    <2> QED BY <2>1
  <1> QED BY <1>1, <1>2

LEMMA PartsToComeMove ==
  ASSUME EncTypes, EncHeads, PartsAdjoin, PartsAdjoin', [EncNext]_encVars, Faultless,
         ~(WriteSections /\ st.first), Begun', PartsToCome'
  PROVE  Begun /\ PartsToCome /\ st'.info = st.info
  <1>1. /\ hw.status \in Seq(PartSet \cup {EndOfStreamStatus}) /\ hw.busy \in Seq(JobSet)
        /\ hw'.status \in Seq(PartSet \cup {EndOfStreamStatus}) /\ hw'.busy \in Seq(JobSet)
    BY HwType DEF EncTypes, EncVarTypes, HwSet
  <1>2. CASE EndEncodingBegins
    <2>1. /\ hw.status # <<>> /\ hw.status[1] # EndOfStreamStatus /\ 1 \in DOMAIN hw.status
          /\ st'.first = hw.status[1].first /\ st'.info = hw.status[1].info
          /\ hw.status[1].error = FALSE
      BY <1>2, StatusTaken DEF EncHeads, Faultless, PartSet
    <2>2. cpc = "wait" /\ cpc' = "sections"
      BY <1>2, <2>1, StatusTaken DEF EndEncodingBegins
    <2>3. Further(1)
      BY <2>1, <2>2 DEF Begun, Further
    <2>4. hw.status[1].info = st.info
      BY <2>1, <2>3 DEF PartsAdjoin
    <2> QED BY <2>1, <2>2, <2>3, <2>4 DEF Begun, PartsToCome
  <1>3. CASE ~EndEncodingBegins
    <2>1. st' = st /\ (cpc' \in {"sections", "user"} => cpc \in {"sections", "user"})
      BY <1>3, Writers, CallbackMoves
    <2>2. Begun
      <3> SUFFICES ASSUME cpc = "sections", st.first PROVE FALSE
        BY DEF Begun
      <3>1. cpc' = "sections"
        BY <1>3, CallbackMoves
      <3> QED BY <2>1, <3>1 DEF Begun
    <2>3. CASE cpc' \in {"sections", "user"}
      BY <2>1, <2>2, <2>3 DEF PartsToCome
    <2>4. CASE EncodePart /\ cpc' \notin {"sections", "user"}
      <3>1. PICK job \in JobSet, first \in BOOLEAN, e \in BOOLEAN :
            /\ hw'.status = Append(hw.status, Status(job, first, e))
            /\ hw.busy = <<job>> \/ first = TRUE
        BY <2>4, PartEncoded
      <3>2. PICK p : p = Status(job, first, e)
        OBVIOUS
      <3>3. /\ hw'.status = Append(hw.status, p) /\ p.first = first
            /\ hw'.status # <<>>
            /\ hw'.status[1] = IF hw.status = <<>> THEN p ELSE hw.status[1]
        BY <1>1, <3>1, <3>2, AppendFirst DEF Status
      <3>4. Further(1)'
        BY <2>4, <3>3 DEF PartsToCome
      <3>5. CASE hw.status = <<>>
        <4>1. ~first
          BY <3>3, <3>4, <3>5 DEF Further
        <4>2. hw.busy # <<>>
          BY <3>1, <4>1
        <4> QED BY <2>1, <2>2, <3>5, <4>2 DEF PartsToCome
      <3>6. CASE hw.status # <<>>
        <4>1. Further(1)
          BY <3>3, <3>4, <3>6 DEF Further
        <4> QED BY <2>1, <2>2, <3>6, <4>1 DEF PartsToCome
      <3> QED BY <3>5, <3>6
    <2>5. CASE ReportEos /\ cpc' \notin {"sections", "user"}
      <3>1. PICK p : p = EndOfStreamStatus /\ hw'.status = Append(hw.status, p)
        BY <2>5, QueueMoves DEF ReportEos, EncTypes, EncVarTypes, HwSet
      <3>2. /\ hw'.status # <<>>
            /\ hw'.status[1] = IF hw.status = <<>> THEN p ELSE hw.status[1]
        BY <1>1, <3>1, AppendFirst
      <3>3. Further(1)'
        BY <2>5, <3>2 DEF PartsToCome
      <3>4. hw.status # <<>> /\ Further(1)
        BY <3>1, <3>2, <3>3 DEF Further
      <3> QED BY <2>1, <2>2, <3>4 DEF PartsToCome
    <2>6. CASE EndEncodingEos /\ cpc' \notin {"sections", "user"}
      <3>1. /\ hw.status # <<>> /\ hw'.status = Tail(hw.status) /\ hw'.busy = hw.busy
            /\ hw.status[1] = EndOfStreamStatus
        BY <1>1, <2>6 DEF EndEncodingEos, EncTypes, EncVarTypes, HwSet
      <3>2. EndOfStreamStatus.info \notin InfoID
        BY Ranges DEF EndOfStreamStatus
      <3>3. Adjoin(hw.status, hw.busy, st)
        BY AdjoinIs
      <3>4. Adjoin(hw'.status, hw'.busy, EndOfStreamStatus)
        BY <1>1, <3>1, <3>3, AdjoinTaken
      <3>5. CASE hw'.status # <<>> /\ Further(1)'
        <4>1. 1 \in DOMAIN hw'.status /\ hw'.status[1] \in PartSet
          BY <1>1, <3>5, EmptySeq, LenProperties DEF Further
        <4>2. hw'.status[1].info \in InfoID
          BY <4>1 DEF PartSet
        <4> QED BY <3>2, <3>4, <3>5, <4>1, <4>2 DEF Adjoin, Before, Further
      <3>6. CASE hw'.status = <<>> /\ hw'.busy # <<>>
        <4>1. 1 \in DOMAIN hw'.busy /\ hw'.busy[1] \in JobSet
          BY <1>1, <3>6, EmptySeq, LenProperties
        <4>2. hw'.busy[1].info \in InfoID
          BY <4>1 DEF JobSet
        <4> QED BY <3>2, <3>4, <3>6, <4>1, <4>2 DEF Adjoin
      <3> QED BY <2>6, <3>5, <3>6 DEF PartsToCome
    <2>7. CASE /\ ~EncodePart /\ ~ReportEos /\ ~EndEncodingEos
               /\ cpc' \notin {"sections", "user"}
      <3>1. hw'.status = hw.status /\ (hw'.busy # <<>> => hw.busy # <<>>)
        BY <1>3, <2>7, QueueMoves
      <3> QED BY <2>1, <2>2, <2>7, <3>1 DEF PartsToCome, Further
    <2> QED BY <2>3, <2>4, <2>5, <2>6, <2>7
  <1> QED BY <1>2, <1>3

\* The headers of a first part give the decoder all its frame needs.
LEMMA DeliveredStep ==
  ASSUME EncTypes, EncFrames, EncHeads, HeadersKept, PartsAdjoin, PartsAdjoin',
         PpsSent', SpsSent', Begun /\ PartsToCome => Delivered(st.info), [EncNext]_encVars,
         Faultless, apc # "destroyed", DOMAIN decoder.sps = SpsID, DOMAIN decoder.pps = PpsID,
         Begun', PartsToCome'
  PROVE  Delivered(st.info)'
  <1>1. CASE WriteSections /\ st.first
    <2>1. PICK i : i = pool.info[st.info]
      OBVIOUS
    <2>2. st.info \in Open /\ st' = st /\ pool' = pool
      BY <1>1, OpenMoves DEF WriteSections
    <2>3. /\ i.offset = OffsetOf(i.frame) /\ heads.sps[i.uSpsId].dim = DimOf(i.frame)
          /\ heads.pps[i.uPpsId].uSpsId = i.uSpsId /\ heads.pps[i.uPpsId].offset = i.offset
      BY <2>1, <2>2 DEF HeadersKept
    <2>4. i.uSpsId \in SpsID /\ i.uPpsId \in PpsID
      BY <2>1, <2>2, UsedHeaders
    <2>5. /\ heads'.sps[i.uSpsId].dim = heads.sps[i.uSpsId].dim
          /\ heads'.sps[i.uSpsId].bHasBeenSent /\ heads'.pps[i.uPpsId].bHasBeenSent
          /\ heads'.pps[i.uPpsId].uSpsId = heads.pps[i.uPpsId].uSpsId
          /\ heads'.pps[i.uPpsId].offset = heads.pps[i.uPpsId].offset
      BY <1>1, <2>1, <2>4, HeadersSent
    <2>6. /\ decoder'.pps[i.uPpsId] = [uSpsId |-> i.uSpsId, offset |-> i.offset]
          /\ decoder'.sps[i.uSpsId] = heads.sps[i.uSpsId].dim
      BY <2>3, <2>4, <2>5 DEF PpsSent, SpsSent
    <2>7. PICK n : n = i.frame
      OBVIOUS
    <2>8. OffsetOf(n)' = OffsetOf(n) /\ DimOf(n)' = DimOf(n)
      BY ParametersFixed
    <2>9. OffsetOf(pool.info[st.info].frame)' = OffsetOf(n)' /\ DimOf(pool.info[st.info].frame)' = DimOf(n)'
      BY <2>1, <2>2, <2>7 DEF OffsetOf, DimOf
    <2> QED BY <2>1, <2>2, <2>3, <2>6, <2>7, <2>8, <2>9 DEF Delivered
  <1>2. CASE ~(WriteSections /\ st.first)
    <2>1. Begun /\ PartsToCome /\ st'.info = st.info
      BY <1>2, PartsToComeMove
    <2>2. PICK p : HasSlot(p) /\ p.info = st.info
      BY <2>1, PartsToComeHeld
    <2>3. PICK x : x = st.info
      OBVIOUS
    <2>4. Delivered(x)'
      BY <1>2, <2>1, <2>2, <2>3, DeliveredKept
    <2>5. Delivered(st.info)' <=> Delivered(x)'
      BY <2>1, <2>3 DEF Delivered
    <2> QED BY <2>4, <2>5
  <1> QED BY <1>1, <1>2

---------------------------------------------------------------------------
(* The theorems *)

LEMMA EncDecoderInit == EncInit => EncDecoder
  <1> SUFFICES ASSUME EncInit PROVE EncDecoder
    OBVIOUS
  <1>1. /\ program \in Programs /\ next = 1 /\ cpc = "wait" /\ apc = "idle"
        /\ hw.status = <<>> /\ hw.busy = <<>> /\ hw.jobs = <<>> /\ hw.fresh
        /\ chan.dim = 1 /\ chan.offset = 1
    BY DEF EncInit
  <1>2. \A x \in SpsID : heads.sps[x].bHasBeenSent = FALSE
    BY DEF EncInit
  <1>3. \A x \in PpsID : heads.pps[x].bHasBeenSent = FALSE
    BY DEF EncInit
  <1>4. DOMAIN decoder.sps = SpsID /\ DOMAIN decoder.pps = PpsID
    BY DEF EncInit
  <1>5. Open = {}
    BY <1>1 DEF Open
  <1>6. DimOf(next) = 1 /\ OffsetOf(next) = 1
    <2>1. \A op : LastOf(op, next) = {}
      BY <1>1 DEF LastOf
    <2> QED BY <2>1 DEF DimOf, OffsetOf
  <1>7. HeadersKept
    BY <1>1, <1>5, <1>6 DEF HeadersKept
  <1>8. PpsSent /\ SpsSent
    BY <1>2, <1>3 DEF PpsSent, SpsSent
  <1>9. PartsAdjoin
    BY <1>1 DEF PartsAdjoin
  <1>10. SpsComes
    BY <1>1, <1>5 DEF SpsComes, Restarts
  <1>11. ~PartsToCome
    BY <1>1 DEF PartsToCome
  <1> QED BY <1>4, <1>7, <1>8, <1>9, <1>10, <1>11 DEF EncDecoder

LEMMA EncDecoderStep ==
  ASSUME EncTypes, EncFrames, EncHeads, EncPools, EncDecoder, [EncNext]_encVars
  PROVE  EncDecoder'
  <1>1. DOMAIN decoder'.sps = SpsID /\ DOMAIN decoder'.pps = PpsID
    BY DecoderMoves DEF EncDecoder
  <1>2. ASSUME apc' # "destroyed"
        PROVE  /\ HeadersKept' /\ PpsSent' /\ PartsAdjoin'
               /\ Faultless' => /\ SpsSent' /\ SpsComes'
                                /\ Begun' /\ PartsToCome' => Delivered(st.info)'
    <2>1. apc # "destroyed"
      BY <1>2, NothingAfterDestroy DEF encVars, appVars
    <2>2. /\ HeadersKept /\ PpsSent /\ PartsAdjoin /\ EncOrder
          /\ DOMAIN decoder.sps = SpsID /\ DOMAIN decoder.pps = PpsID
      BY <2>1 DEF EncDecoder, EncPools
    <2>3. HeadersKept' /\ PpsSent' /\ PartsAdjoin'
      BY <2>1, <2>2, HeadersKeptStep, PpsSentStep, PartsAdjoinStep
    <2>4. ASSUME Faultless'
          PROVE  /\ SpsSent' /\ SpsComes'
                 /\ Begun' /\ PartsToCome' => Delivered(st.info)'
      <3>1. Faultless
        BY <2>4, Writers DEF Faultless, Refusals, Errors
      <3>2. SpsSent /\ SpsComes /\ (Begun /\ PartsToCome => Delivered(st.info))
        BY <2>1, <3>1 DEF EncDecoder
      <3>3. SpsSent' /\ SpsComes'
        BY <2>1, <2>2, <3>1, <3>2, SpsSentStep, SpsComesStep
      <3>4. Begun' /\ PartsToCome' => Delivered(st.info)'
        BY <2>1, <2>2, <2>3, <3>1, <3>2, <3>3, DeliveredStep
      <3> QED BY <3>3, <3>4
    <2> QED BY <2>3, <2>4
  <1> QED BY <1>1, <1>2 DEF EncDecoder

\* The headers of the channel, of the frames in flight and of the decoder
\* agree (AL_GetSps, AL_GetPps, updateHlsAndWriteSections): the invariant
\* that a decodable stream rests on.
THEOREM EncDecoderAlways ==
  EncSpec => [](EncTypes /\ EncFrames /\ EncHeads /\ EncPools /\ EncDecoder)
  <1>1. EncInit => EncDecoder
    BY EncDecoderInit
  <1>2. EncTypes /\ EncFrames /\ EncHeads /\ EncPools /\ EncDecoder /\ [EncNext]_encVars
            => EncDecoder'
    BY EncDecoderStep
  <1> QED BY <1>1, <1>2, EncPoolsAlways, PTL DEF EncSpec

\* Where nothing fails a decoder has, when a part of a frame reaches the
\* application's callback, the SPS and the PPS the frame was encoded with,
\* for every number of B pictures and of SPS ids.
THEOREM StreamsAreDecodable == EncSpec => []StreamDecodable
  <1>1. EncTypes /\ EncFrames /\ EncDecoder => StreamDecodable
    <2> SUFFICES ASSUME EncTypes, EncFrames, EncDecoder, cpc = "user", Faultless
                 PROVE  StreamDecodable
      BY DEF StreamDecodable
    <2>1. apc # "destroyed"
      BY DEF EncTypes, ThreadsAgree
    <2>2. Delivered(st.info)
      BY <2>1 DEF EncDecoder, Begun, PartsToCome
    <2>3. pool.info[st.info].frame = st.frame
      <3>1. PICK s \in Sent : SourceSent[s] = <<st.frame, st.info>>
        BY <2>1 DEF EncFrames, FramesAgree, PartsHeld, Active, HasSlot, HeldBy
      <3> QED BY <3>1 DEF EncFrames, FramesAgree, SlotsAgree, FrameOf, InfoOf
    <2> QED BY <2>2, <2>3 DEF Delivered, StreamDecodable
  <1> QED BY <1>1, EncDecoderAlways, PTL
=============================================================================
