----------------------------- MODULE QueueLemmas ------------------------------
(***************************************************************************)
(* What a push and a poll do to a frame queue, for every capacity.  The    *)
(* proofs about the bridge and about its users rest on these.              *)
(***************************************************************************)
EXTENDS FrameQueue, TLAPS

\* How many frames a push gives up.
Lost(q) == IF IsFull(q) THEN 1 ELSE 0

\* The frames of a queue are in the order of their numbers.
OldestFirst(q) ==
  \A i, j \in DOMAIN q : i < j => q[i].sequence < q[j].sequence

\* There is no order to keep in an empty queue.
LEMMA EmptyInOrder == OldestFirst(<<>>)
  BY DEF OldestFirst

\* A push leaves the newer frames where they are, or one place further on when
\* it gives up the oldest, and puts its frame behind them.
LEMMA PushElements ==
  ASSUME NEW S, NEW q \in Seq(S), NEW f \in S
  PROVE  /\ Push(q, f) \in Seq(S)
         /\ Lost(q) \in {0, 1} /\ Lost(q) <= Len(q) /\ Len(q) \in Nat
         /\ DOMAIN Push(q, f) = 1 .. Len(q) + 1 - Lost(q)
         /\ Push(q, f)[Len(q) + 1 - Lost(q)] = f
         /\ \A i \in 1 .. Len(q) - Lost(q) :
              i + Lost(q) \in DOMAIN q /\ Push(q, f)[i] = q[i + Lost(q)]
<1>1. CASE IsFull(q)
  <2>1. Len(q) > 0 /\ Lost(q) = 1
    BY <1>1, QueueCapacityAssumption DEF IsFull, Lost
  <2>2. /\ Tail(q) \in Seq(S) /\ Len(Tail(q)) = Len(q) - 1
        /\ \A i \in 1 .. Len(q) - 1 : Tail(q)[i] = q[i + 1]
    BY <2>1
  <2>3. Push(q, f) = Append(Tail(q), f)
    BY <1>1 DEF Push
  <2> QED
    BY <2>1, <2>2, <2>3
<1>2. CASE ~ IsFull(q)
  BY <1>2 DEF Push, Lost
<1> QED
  BY <1>1, <1>2

\* So what is in it was in it, or is the new frame, and it holds no more than
\* its capacity.
LEMMA PushOrigin ==
  ASSUME NEW S, NEW q \in Seq(S), NEW f \in S
  PROVE  /\ \A i \in DOMAIN Push(q, f) :
              Push(q, f)[i] = f \/ \E j \in DOMAIN q : Push(q, f)[i] = q[j]
         /\ Len(q) <= QueueCapacity => Len(Push(q, f)) <= QueueCapacity
<1>1. /\ Push(q, f) \in Seq(S)
      /\ Lost(q) \in {0, 1} /\ Lost(q) <= Len(q) /\ Len(q) \in Nat
      /\ DOMAIN Push(q, f) = 1 .. Len(q) + 1 - Lost(q)
      /\ Push(q, f)[Len(q) + 1 - Lost(q)] = f
      /\ \A j \in 1 .. Len(q) - Lost(q) :
           j + Lost(q) \in DOMAIN q /\ Push(q, f)[j] = q[j + Lost(q)]
  BY PushElements
<1>2. ASSUME NEW i \in DOMAIN Push(q, f)
      PROVE  Push(q, f)[i] = f \/ \E j \in DOMAIN q : Push(q, f)[i] = q[j]
  <2>1. i = Len(q) + 1 - Lost(q) \/ i \in 1 .. Len(q) - Lost(q)
    BY <1>1
  <2> QED
    BY <1>1, <2>1
<1>3. Len(q) <= QueueCapacity => Len(Push(q, f)) <= QueueCapacity
  BY <1>1, QueueCapacityAssumption DEF IsFull, Lost
<1> QED
  BY <1>2, <1>3

\* A frame with a number higher than those in the queue keeps it in order.
LEMMA PushInOrder ==
  ASSUME NEW S, NEW q \in Seq(S), NEW f \in S, OldestFirst(q),
         \A i \in DOMAIN q : q[i].sequence < f.sequence
  PROVE  OldestFirst(Push(q, f))
<1>1. /\ Lost(q) \in {0, 1} /\ Lost(q) <= Len(q) /\ Len(q) \in Nat
      /\ DOMAIN Push(q, f) = 1 .. Len(q) + 1 - Lost(q)
      /\ Push(q, f)[Len(q) + 1 - Lost(q)] = f
      /\ \A j \in 1 .. Len(q) - Lost(q) :
           j + Lost(q) \in DOMAIN q /\ Push(q, f)[j] = q[j + Lost(q)]
  BY PushElements
<1> SUFFICES ASSUME NEW i \in DOMAIN Push(q, f), NEW j \in DOMAIN Push(q, f),
                    i < j
             PROVE  Push(q, f)[i].sequence < Push(q, f)[j].sequence
  BY DEF OldestFirst
<1>2. /\ i \in 1 .. Len(q) - Lost(q)
      /\ j = Len(q) + 1 - Lost(q) \/ j \in 1 .. Len(q) - Lost(q)
  BY <1>1
<1>3. CASE j = Len(q) + 1 - Lost(q)
  BY <1>1, <1>2, <1>3
<1>4. CASE j \in 1 .. Len(q) - Lost(q)
  <2>1. i + Lost(q) < j + Lost(q)
    BY <1>1, <1>2, <1>4
  <2>2. q[i + Lost(q)].sequence < q[j + Lost(q)].sequence
    BY <1>1, <1>2, <1>4, <2>1 DEF OldestFirst
  <2> QED
    BY <1>1, <1>2, <1>4, <2>2
<1> QED
  BY <1>2, <1>3, <1>4

\* A poll takes the first frame; what it leaves was in the queue, too, and
\* behind that frame.
LEMMA PollElements ==
  ASSUME NEW S, NEW q \in Seq(S), q # <<>>
  PROVE  /\ Head(q) = q[1] /\ 1 \in DOMAIN q /\ Head(q) \in S
         /\ Tail(q) \in Seq(S) /\ Len(Tail(q)) <= Len(q)
         /\ \A i \in DOMAIN Tail(q) :
              \E j \in DOMAIN q : j > 1 /\ Tail(q)[i] = q[j]
         /\ OldestFirst(q) =>
              /\ OldestFirst(Tail(q))
              /\ \A i \in DOMAIN Tail(q) :
                   Head(q).sequence < Tail(q)[i].sequence
<1>1. /\ Head(q) = q[1] /\ 1 \in DOMAIN q /\ Head(q) \in S
      /\ Tail(q) \in Seq(S) /\ Len(Tail(q)) <= Len(q)
      /\ DOMAIN Tail(q) = 1 .. Len(q) - 1 /\ Len(q) \in Nat
      /\ \A i \in 1 .. Len(q) - 1 :
           i + 1 \in DOMAIN q /\ i + 1 > 1 /\ Tail(q)[i] = q[i + 1]
  OBVIOUS
<1>2. \A i \in DOMAIN Tail(q) : \E j \in DOMAIN q : j > 1 /\ Tail(q)[i] = q[j]
  BY <1>1
<1>3. ASSUME OldestFirst(q)
      PROVE  /\ OldestFirst(Tail(q))
             /\ \A i \in DOMAIN Tail(q) :
                  Head(q).sequence < Tail(q)[i].sequence
  <2>1. ASSUME NEW i \in DOMAIN Tail(q), NEW j \in DOMAIN Tail(q), i < j
        PROVE  Tail(q)[i].sequence < Tail(q)[j].sequence
    <3>1. i + 1 < j + 1 /\ i \in 1 .. Len(q) - 1 /\ j \in 1 .. Len(q) - 1
      BY <1>1, <2>1
    <3> QED
      BY <1>1, <1>3, <3>1 DEF OldestFirst
  <2>2. \A i \in DOMAIN Tail(q) : Head(q).sequence < Tail(q)[i].sequence
    BY <1>1, <1>2, <1>3 DEF OldestFirst
  <2> QED
    BY <2>1, <2>2 DEF OldestFirst
<1> QED
  BY <1>1, <1>2, <1>3
===============================================================================
