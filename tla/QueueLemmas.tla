---------------------------- MODULE QueueLemmas ----------------------------
(* Queues of commands and rings of slots, as the proofs about the decoder    *)
(* use them: commands are queued and leave in order, and what belongs to the *)
(* n-th of them is in slot n of a ring that is as long as the queue may be.  *)
EXTENDS Integers, Functions, SequenceTheorems, FiniteSetTheorems, TLAPS

---------------------------------------------------------------------------
(* Queues *)

\* A function on 1 .. n is a sequence.
LEMMA FunctionIsSeq ==
  ASSUME NEW S, NEW n \in Nat, NEW f \in [1 .. n -> S]
  PROVE  f \in Seq(S)
  BY SeqDef

\* A command is added to the queue.
LEMMA Queued ==
  ASSUME NEW s, s \in Seq(Range(s)), NEW e
  PROVE  /\ Append(s, e) \in Seq(Range(Append(s, e)))
         /\ Len(Append(s, e)) = Len(s) + 1 /\ Len(s) \in Nat
         /\ Append(s, e) # <<>>
  <1> DEFINE S == Range(s) \cup {e}
             t == Append(s, e)
  <1>1. s \in Seq(S) /\ e \in S
    BY SeqMonotonic
  <1>2. t \in Seq(S) /\ Len(t) = Len(s) + 1 /\ Len(s) \in Nat
    BY <1>1, AppendProperties, LenProperties
  <1>3. t \in [1 .. Len(t) -> Range(t)] /\ Len(t) \in Nat
    BY <1>2, LenProperties DEF Range
  <1>4. t # <<>>
    BY <1>2, EmptySeq
  <1>5. t \in Seq(Range(t))
    <2> HIDE DEF t
    <2> QED BY <1>3, FunctionIsSeq
  <1> QED BY <1>2, <1>4, <1>5

\* The oldest command leaves the queue.
LEMMA Dequeued ==
  ASSUME NEW s, s \in Seq(Range(s)), s # <<>>
  PROVE  /\ Tail(s) \in Seq(Range(Tail(s)))
         /\ Len(Tail(s)) = Len(s) - 1 /\ Len(s) \in Nat
  <1> DEFINE t == Tail(s)
  <1>1. t \in Seq(Range(s)) /\ Len(t) = Len(s) - 1 /\ Len(s) \in Nat
    BY HeadTailProperties, LenProperties
  <1>2. t \in [1 .. Len(t) -> Range(t)] /\ Len(t) \in Nat
    BY <1>1, LenProperties DEF Range
  <1> QED BY <1>1, <1>2, SeqDef

\* A queue is empty when its length is zero.
LEMMA EmptyQueue ==
  ASSUME NEW s, s \in Seq(Range(s))
  PROVE  Len(s) \in Nat /\ (s = <<>> <=> Len(s) = 0)
  BY LenProperties, EmptySeq

\* An element is queued.
LEMMA AppendRange ==
  ASSUME NEW S, NEW s \in Seq(S), NEW e \in S
  PROVE  /\ Append(s, e) \in Seq(S)
         /\ Len(Append(s, e)) = Len(s) + 1
         /\ Range(Append(s, e)) = Range(s) \cup {e}
         /\ IsInjective(s) /\ e \notin Range(s) => IsInjective(Append(s, e))
  <1> DEFINE t == Append(s, e)
  <1>1. /\ t \in Seq(S) /\ Len(t) = Len(s) + 1
        /\ \A i \in 1 .. Len(s) : t[i] = s[i]
        /\ t[Len(s) + 1] = e
        /\ DOMAIN t = 1 .. Len(s) + 1 /\ DOMAIN s = 1 .. Len(s) /\ Len(s) \in Nat
    BY AppendProperties, LenProperties
  <1>2. Range(t) = Range(s) \cup {e}
    <2>1. ASSUME NEW x \in Range(t) PROVE x \in Range(s) \cup {e}
      BY <1>1 DEF Range
    <2>2. ASSUME NEW x \in Range(s) PROVE x \in Range(t)
      BY <1>1 DEF Range
    <2>3. e \in Range(t)
      BY <1>1 DEF Range
    <2> QED BY <2>1, <2>2, <2>3
  <1>3. ASSUME IsInjective(s), e \notin Range(s) PROVE IsInjective(t)
    BY <1>1, <1>3 DEF IsInjective, Range
  <1> QED BY <1>1, <1>2, <1>3

\* The first element leaves its queue.
LEMMA TailRange ==
  ASSUME NEW S, NEW s \in Seq(S), s # <<>>
  PROVE  /\ Tail(s) \in Seq(S) /\ Head(s) \in S /\ Head(s) \in Range(s)
         /\ Len(Tail(s)) = Len(s) - 1
         /\ Range(Tail(s)) \subseteq Range(s)
         /\ Range(s) \subseteq Range(Tail(s)) \cup {Head(s)}
         /\ IsInjective(s) => IsInjective(Tail(s)) /\ Head(s) \notin Range(Tail(s))
  <1> DEFINE t == Tail(s)
  <1>1. /\ t \in Seq(S) /\ Len(t) = Len(s) - 1 /\ Head(s) \in S /\ Head(s) = s[1]
        /\ \A i \in 1 .. Len(t) : t[i] = s[i + 1]
        /\ DOMAIN t = 1 .. Len(t) /\ DOMAIN s = 1 .. Len(s)
        /\ Len(s) \in Nat /\ Len(s) > 0 /\ Len(t) \in Nat
    BY HeadTailProperties, LenProperties, EmptySeq
  <1>2. Head(s) \in Range(s)
    BY <1>1 DEF Range
  <1>3. ASSUME NEW x \in Range(t) PROVE x \in Range(s)
    <2>1. PICK i \in 1 .. Len(t) : x = t[i]
      BY <1>1 DEF Range
    <2> QED BY <1>1, <2>1 DEF Range
  <1>4. ASSUME NEW x \in Range(s) PROVE x \in Range(t) \cup {Head(s)}
    <2>1. PICK i \in 1 .. Len(s) : x = s[i]
      BY <1>1 DEF Range
    <2>2. CASE i = 1
      BY <1>1, <2>1, <2>2
    <2>3. CASE i # 1
      <3>1. i - 1 \in 1 .. Len(t) /\ t[i - 1] = s[i]
        BY <1>1, <2>3
      <3> QED BY <1>1, <2>1, <3>1 DEF Range
    <2> QED BY <2>2, <2>3
  <1>5. ASSUME IsInjective(s) PROVE IsInjective(t) /\ Head(s) \notin Range(t)
    BY <1>1, <1>5 DEF IsInjective, Range
  <1> QED BY <1>1, <1>2, <1>3, <1>4, <1>5

\* A set of natural numbers has a least one.
LEMMA LeastExists ==
  ASSUME NEW S \in SUBSET Nat, S # {}
  PROVE  \E m \in S : \A n \in S : m <= n
  <1> DEFINE R == StrictSubsetOrdering(Nat)
             F == FiniteSubsetsOf(Nat)
             T == {0 .. n : n \in S}
  <1>1. IsWellFoundedOn(R, F)
    BY FS_StrictSubsetOrderingWellFounded
  <1>2. T \subseteq F /\ T # {}
    <2>1. \A n \in Nat : IsFiniteSet(0 .. n) /\ 0 .. n \in SUBSET Nat
      BY FS_Interval
    <2> QED BY <2>1 DEF FiniteSubsetsOf
  <1>3. PICK x \in T : \A y \in T : ~(<<y, x>> \in R)
    <2> HIDE DEF R, F, T
    <2> QED BY <1>1, <1>2, WFMin
  <1>4. PICK m \in S : x = 0 .. m
    BY <1>3
  <1>5. ASSUME NEW n \in S, n < m PROVE FALSE
    <2>1. 0 .. n \subseteq 0 .. m /\ m \in 0 .. m /\ m \notin 0 .. n
      BY <1>5
    <2>2. <<0 .. n, 0 .. m>> \in R
      BY <2>1 DEF StrictSubsetOrdering
    <2> QED BY <1>3, <1>4, <2>2
  <1> QED BY <1>5

---------------------------------------------------------------------------
(* Rings *)

\* Numbers closer than n have different places in a ring of n.
LEMMA RingPlaces ==
  ASSUME NEW n \in Nat, n > 0, NEW a \in Nat, NEW b \in Nat, b < a, a < b + n
  PROVE  a % n # b % n
  <1>1. a = n * (a \div n) + (a % n) /\ a \div n \in Int /\ a % n \in Int
    BY SMT
  <1>2. b = n * (b \div n) + (b % n) /\ b \div n \in Int /\ b % n \in Int
    BY SMT
  <1>3. SUFFICES ASSUME a % n = b % n PROVE FALSE
    OBVIOUS
  <1> DEFINE p == a \div n
             q == b \div n
             r == a % n
  <1> HIDE DEF p, q, r
  <1>4. a = n * p + r /\ b = n * q + r /\ p \in Int /\ q \in Int /\ r \in Int
    BY <1>1, <1>2, <1>3 DEF p, q, r
  <1>5. CASE p <= q
    <2>1. n * p <= n * q
      BY <1>4, <1>5
    <2> QED BY <1>4, <2>1
  <1>6. CASE p >= q + 1
    <2>1. n * p >= n * (q + 1)
      BY <1>4, <1>6
    <2>2. n * (q + 1) = n * q + n
      BY <1>4
    <2> QED BY <1>4, <2>1, <2>2
  <1> QED BY <1>4, <1>5, <1>6

\* A place of a ring of n slots, one turn of the ring more or less.
LEMMA RingTurn ==
  ASSUME NEW n \in Nat, n > 0, NEW a \in Int, -n <= a, a < 2 * n
  PROVE  a % n = IF a < 0 THEN a + n ELSE IF a >= n THEN a - n ELSE a
  <1> DEFINE p == a \div n
             r == a % n
  <1>1. a = n * p + r /\ p \in Int /\ r \in Int /\ 0 <= r /\ r < n
    BY SMT
  <1> HIDE DEF p, r
  <1>2. CASE p <= -2
    <2>1. n * p <= n * (-2)
      BY <1>1, <1>2
    <2> QED BY <1>1, <2>1
  <1>3. CASE p >= 2
    <2>1. n * p >= n * 2
      BY <1>1, <1>3
    <2> QED BY <1>1, <2>1
  <1>4. CASE p = -1
    <2>1. n * p = -n
      BY <1>4
    <2>2. r = a + n
      BY <1>1, <2>1
    <2> QED BY <1>1, <2>2 DEF r
  <1>5. CASE p = 0
    <2>1. n * p = 0
      BY <1>5
    <2>2. r = a
      BY <1>1, <2>1
    <2> QED BY <1>1, <2>2 DEF r
  <1>6. CASE p = 1
    <2>1. n * p = n
      BY <1>6
    <2>2. r = a - n
      BY <1>1, <2>1
    <2> QED BY <1>1, <2>2 DEF r
  <1> QED BY <1>1, <1>2, <1>3, <1>4, <1>5, <1>6

\* A ring of n slots, written at s and read at r.
Place(n, r, k) == (r + k) % n
Between(n, r, s) == (s - r) % n

LEMMA RingMoves ==
  ASSUME NEW n \in Nat, n > 0, NEW r \in 0 .. n - 1, NEW s \in 0 .. n - 1
  PROVE  /\ Between(n, r, s) \in 0 .. n - 1
         /\ \A k \in 0 .. n - 1 : Place(n, r, k) \in 0 .. n - 1
         /\ \A j, k \in 0 .. n - 1 : Place(n, r, j) = Place(n, r, k) => j = k
         /\ Place(n, r, 0) = r /\ Place(n, r, Between(n, r, s)) = s
         /\ Place(n, s, 1) \in 0 .. n - 1
         /\ Between(n, r, s) + 1 < n => Between(n, r, Place(n, s, 1)) = Between(n, r, s) + 1
         /\ Between(n, r, s) > 0 =>
               /\ Between(n, Place(n, r, 1), s) = Between(n, r, s) - 1
               /\ \A k \in 0 .. n - 2 : Place(n, Place(n, r, 1), k) = Place(n, r, k + 1)
  <1> DEFINE turn(a) == IF a < 0 THEN a + n ELSE IF a >= n THEN a - n ELSE a
  <1>1. \A a \in Int : -n <= a /\ a < 2 * n => a % n = turn(a)
    BY RingTurn
  <1>2. \A a, b \in 0 .. n : Place(n, a, b) = turn(a + b) \/ a + b = 2 * n
    BY <1>1 DEF Place
  <1>3. \A a, b \in 0 .. n - 1 : Between(n, a, b) = turn(b - a)
    BY <1>1 DEF Between
  <1>4. Between(n, r, s) = turn(s - r) /\ turn(s - r) \in 0 .. n - 1
    BY <1>3
  <1>5. \A k \in 0 .. n - 1 : Place(n, r, k) = turn(r + k) /\ turn(r + k) \in 0 .. n - 1
    BY <1>2
  <1>6. Place(n, r, 0) = r /\ Place(n, r, Between(n, r, s)) = s
    BY <1>4, <1>5
  <1>7. \A j, k \in 0 .. n - 1 : Place(n, r, j) = Place(n, r, k) => j = k
    BY <1>5
  <1>8. /\ Place(n, s, 1) = turn(s + 1) /\ Place(n, r, 1) = turn(r + 1)
        /\ turn(s + 1) \in 0 .. n - 1 /\ turn(r + 1) \in 0 .. n - 1
    BY <1>2
  <1>9. Between(n, r, s) + 1 < n => Between(n, r, Place(n, s, 1)) = Between(n, r, s) + 1
    BY <1>3, <1>4, <1>8
  <1>10. Between(n, r, s) > 0 => Between(n, Place(n, r, 1), s) = Between(n, r, s) - 1
    BY <1>3, <1>4, <1>8
  <1>11. Between(n, r, s) > 0 =>
            \A k \in 0 .. n - 2 : Place(n, Place(n, r, 1), k) = Place(n, r, k + 1)
    BY <1>2, <1>4, <1>5, <1>8
  <1> QED BY <1>4, <1>5, <1>6, <1>7, <1>8, <1>9, <1>10, <1>11
=============================================================================
