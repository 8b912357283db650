------------------------------ MODULE RingProofs ------------------------------
(***************************************************************************)
(* The ring implements the stream, for every capacity and every set of     *)
(* frames.                                                                 *)
(***************************************************************************)
EXTENDS RingQueue, SequenceTheorems, TLAPS

-------------------------------------------------------------------------------
(***************************************************************************)
(* Arithmetic round the ring.                                              *)
(***************************************************************************)

\* Less than two laps past slot 0, the remainder takes off at most one lap.
LEMMA OneLap ==
  ASSUME NEW i \in 0 .. 2 * QueueCapacity - 1
  PROVE  i % QueueCapacity = IF i < QueueCapacity THEN i
                                                  ELSE i - QueueCapacity
<1>1. CASE i < QueueCapacity
  BY <1>1, QueueCapacityAssumption
<1>2. CASE i >= QueueCapacity
  BY <1>2, QueueCapacityAssumption
<1> QED
  BY <1>1, <1>2, QueueCapacityAssumption

\* The slot after the last is the first.
LEMMA SuccessorInRing ==
  ASSUME NEW i \in Slots
  PROVE  Successor(i) = IF i = QueueCapacity - 1 THEN 0 ELSE i + 1
<1>1. i + 1 \in 0 .. 2 * QueueCapacity - 1
  BY QueueCapacityAssumption DEF Slots
<1> QED
  BY <1>1, OneLap, QueueCapacityAssumption DEF Slots, Successor

\* The slot that holds the k-th frame from the tail.
SlotOf(tail, k) == IF tail + k - 1 < QueueCapacity
                   THEN tail + k - 1 ELSE tail + k - 1 - QueueCapacity

\* It is where the remainder says.
LEMMA SlotOfPending ==
  ASSUME NEW tail \in Slots, NEW k \in 1 .. QueueCapacity
  PROVE  /\ (tail + k - 1) % QueueCapacity = SlotOf(tail, k)
         /\ SlotOf(tail, k) \in Slots
<1>1. tail + k - 1 \in 0 .. 2 * QueueCapacity - 1
  BY QueueCapacityAssumption DEF Slots
<1> QED
  BY <1>1, OneLap, QueueCapacityAssumption DEF Slots, SlotOf

-------------------------------------------------------------------------------
(***************************************************************************)
(* The invariant: types, and the three indices in agreement.               *)
(***************************************************************************)

\* IndicesAgree without the remainder.
HeadFollows ==
  queue_head = IF queue_tail + queue_depth < QueueCapacity
               THEN queue_tail + queue_depth
               ELSE queue_tail + queue_depth - QueueCapacity

RingInv == TypeOK /\ HeadFollows

\* The two say the same.
LEMMA HeadFollowsAgrees == TypeOK => (HeadFollows <=> IndicesAgree)
<1> SUFFICES ASSUME TypeOK
             PROVE  HeadFollows <=> IndicesAgree
  OBVIOUS
<1>1. queue_tail + queue_depth \in 0 .. 2 * QueueCapacity - 1
  BY QueueCapacityAssumption DEF TypeOK, Slots
<1>2. (queue_tail + queue_depth) % QueueCapacity =
        IF queue_tail + queue_depth < QueueCapacity
        THEN queue_tail + queue_depth
        ELSE queue_tail + queue_depth - QueueCapacity
  <2>1. PICK i \in 0 .. 2 * QueueCapacity - 1 : i = queue_tail + queue_depth
    BY <1>1
  <2>2. i % QueueCapacity = IF i < QueueCapacity THEN i ELSE i - QueueCapacity
    BY OneLap
  <2> QED
    BY <2>1, <2>2, QueueCapacityAssumption DEF TypeOK, Slots
<1> QED
  BY <1>2 DEF HeadFollows, IndicesAgree

\* The indices start in agreement,
LEMMA RingInit == Init => RingInv
  BY QueueCapacityAssumption DEF Init, RingInv, TypeOK, HeadFollows, Slots

\* and every operation keeps them so.
LEMMA RingStep == RingInv /\ [Next]_vars => RingInv'
<1> SUFFICES ASSUME RingInv, [Next]_vars
             PROVE  RingInv'
  OBVIOUS
<1> USE QueueCapacityAssumption DEF RingInv, TypeOK, HeadFollows, Slots
<1>1. /\ Successor(queue_head) = IF queue_head = QueueCapacity - 1
                                 THEN 0 ELSE queue_head + 1
      /\ Successor(queue_tail) = IF queue_tail = QueueCapacity - 1
                                 THEN 0 ELSE queue_tail + 1
  BY SuccessorInRing
<1>2. ASSUME NEW f \in Frames, Enqueue(f)
      PROVE  RingInv'
  BY <1>1, <1>2 DEF Enqueue, DropsTail, CountsKept
<1>3. ASSUME Poll
      PROVE  RingInv'
  BY <1>1, <1>3 DEF Poll
<1>4. CASE PollEmpty
  BY <1>4 DEF PollEmpty
<1>5. CASE Reset
  BY <1>5 DEF Reset
<1>6. CASE UNCHANGED vars
  BY <1>6 DEF vars
<1> QED
  BY <1>2, <1>3, <1>4, <1>5, <1>6 DEF Next

\* The indices stay within the ring,
THEOREM TypeCorrect == Spec => []TypeOK
<1>1. RingInv => TypeOK
  BY DEF RingInv
<1> QED
  BY <1>1, RingInit, RingStep, PTL DEF Spec

\* and the head stays as far past the tail as the depth says.
THEOREM IndicesAgreeHolds == Spec => []IndicesAgree
<1>1. RingInv => IndicesAgree
  BY HeadFollowsAgrees DEF RingInv
<1> QED
  BY <1>1, RingInit, RingStep, PTL DEF Spec

-------------------------------------------------------------------------------
(***************************************************************************)
(* Each operation of the ring is the operation of the stream.              *)
(***************************************************************************)

\* The sequence a ring stands for, without the remainder.
Contents(ring, tail, depth) == [k \in 1 .. depth |-> ring[SlotOf(tail, k)]]

\* It is what Pending says, a sequence as long as the depth.
LEMMA PendingIsContents ==
  ASSUME NEW ring \in [Slots -> Frames \cup {NoFrame}],
         NEW tail \in Slots, NEW depth \in 0 .. QueueCapacity
  PROVE  /\ [i \in 1 .. depth |-> ring[(tail + i - 1) % QueueCapacity]]
              = Contents(ring, tail, depth)
         /\ Contents(ring, tail, depth) \in Seq(Frames \cup {NoFrame})
         /\ Len(Contents(ring, tail, depth)) = depth
<1>1. \A k \in 1 .. depth :
        /\ (tail + k - 1) % QueueCapacity = SlotOf(tail, k)
        /\ SlotOf(tail, k) \in Slots
  BY SlotOfPending, QueueCapacityAssumption
<1>2. \A k \in 1 .. depth : ring[SlotOf(tail, k)] \in Frames \cup {NoFrame}
  BY <1>1
<1>3. depth \in Nat
  BY QueueCapacityAssumption
<1> QED
  BY <1>1, <1>2, <1>3 DEF Contents

\* The callback's store is a Put: a full ring loses its oldest frame.
LEMMA EnqueueIsPut ==
  ASSUME RingInv, RingInv', NEW f \in Frames, Enqueue(f)
  PROVE  Stream!Put(f)
<1> DEFINE S == Frames \cup {NoFrame}
           q == Contents(slots, queue_tail, queue_depth)
           r == Contents(slots', queue_tail', queue_depth')
<1>1. /\ Pending = q /\ q \in Seq(S) /\ Len(q) = queue_depth
      /\ Pending' = r /\ r \in Seq(S) /\ Len(r) = queue_depth'
  BY PendingIsContents DEF RingInv, TypeOK, Pending
<1>2. \A k \in 1 .. queue_depth : q[k] = slots[SlotOf(queue_tail, k)]
  BY DEF Contents
<1>3. CASE queue_depth # QueueCapacity
  <2>1. queue_depth' = queue_depth + 1 /\ queue_tail' = queue_tail
    BY <1>3 DEF Enqueue, DropsTail, CountsKept
  <2>2. SlotOf(queue_tail, queue_depth + 1) = queue_head
    BY <1>3, QueueCapacityAssumption
    DEF SlotOf, RingInv, TypeOK, HeadFollows, Slots
  <2>3. \A k \in 1 .. queue_depth : SlotOf(queue_tail, k) # queue_head
    BY <1>3, QueueCapacityAssumption
    DEF SlotOf, RingInv, TypeOK, HeadFollows, Slots
  <2>4. \A k \in 1 .. queue_depth + 1 :
          slots'[SlotOf(queue_tail, k)] =
            IF k = queue_depth + 1 THEN f ELSE q[k]
    <3>1. \A k \in 1 .. queue_depth + 1 : SlotOf(queue_tail, k) \in Slots
      BY <1>3, SlotOfPending, QueueCapacityAssumption DEF RingInv, TypeOK
    <3> QED
      BY <1>2, <2>2, <2>3, <3>1, QueueCapacityAssumption
      DEF Enqueue, RingInv, TypeOK
  <2>5. r = Append(q, f)
    <3> HIDE DEF q, r, S
    <3>1. f \in S
      BY DEF S
    <3>2. /\ Append(q, f) \in Seq(S) /\ Len(Append(q, f)) = queue_depth + 1
          /\ \A k \in 1 .. queue_depth + 1 :
               Append(q, f)[k] = IF k = queue_depth + 1 THEN f ELSE q[k]
      BY <1>1, <3>1, AppendProperties
    <3>3. \A k \in 1 .. queue_depth + 1 :
            r[k] = slots'[SlotOf(queue_tail, k)]
      BY <2>1 DEF r, Contents
    <3> QED
      BY <1>1, <2>1, <2>4, <3>2, <3>3, SeqEqual
  <2>6. ~ Stream!IsFull(Pending)
    BY <1>1, <1>3 DEF Stream!IsFull
  <2> QED
    BY <1>1, <2>5, <2>6 DEF Stream!Put, Stream!Push, Enqueue
<1>4. CASE queue_depth = QueueCapacity
  <2>1. queue_depth' = queue_depth /\ queue_tail' = Successor(queue_tail)
    BY <1>4 DEF Enqueue, DropsTail, CountsKept
  <2>2. queue_head = queue_tail
    BY <1>4, QueueCapacityAssumption DEF RingInv, TypeOK, HeadFollows, Slots
  <2>3. \A k \in 1 .. QueueCapacity - 1 :
          /\ SlotOf(queue_tail', k) = SlotOf(queue_tail, k + 1)
          /\ SlotOf(queue_tail, k + 1) \in Slots \ {queue_head}
    <3>1. queue_tail' = IF queue_tail = QueueCapacity - 1
                        THEN 0 ELSE queue_tail + 1
      BY <2>1, SuccessorInRing DEF RingInv, TypeOK
    <3> QED
      BY <2>2, <3>1, QueueCapacityAssumption
      DEF SlotOf, RingInv, TypeOK, Slots
  <2>4. SlotOf(queue_tail', QueueCapacity) = queue_head
    <3>1. queue_tail' = IF queue_tail = QueueCapacity - 1
                        THEN 0 ELSE queue_tail + 1
      BY <2>1, SuccessorInRing DEF RingInv, TypeOK
    <3> QED
      BY <2>2, <3>1, QueueCapacityAssumption
      DEF SlotOf, RingInv, TypeOK, Slots
  <2>5. \A k \in 1 .. QueueCapacity :
          slots'[SlotOf(queue_tail', k)] = IF k = QueueCapacity THEN f
                                                              ELSE q[k + 1]
    <3>1. ASSUME NEW k \in 1 .. QueueCapacity - 1
          PROVE  slots'[SlotOf(queue_tail', k)] = q[k + 1]
      BY <1>2, <1>4, <2>3, QueueCapacityAssumption DEF Enqueue, RingInv, TypeOK
    <3>2. slots'[SlotOf(queue_tail', QueueCapacity)] = f
      BY <2>4 DEF Enqueue, RingInv, TypeOK
    <3> QED
      BY <3>1, <3>2, QueueCapacityAssumption
  <2>6. q # <<>>
    BY <1>1, <1>4, QueueCapacityAssumption
  <2>7. r = Append(Tail(q), f)
    <3> HIDE DEF q, r, S
    <3>1. f \in S
      BY DEF S
    <3>2. /\ Tail(q) \in Seq(S) /\ Len(Tail(q)) = QueueCapacity - 1
          /\ \A k \in 1 .. QueueCapacity - 1 : Tail(q)[k] = q[k + 1]
      BY <1>1, <1>4, <2>6, HeadTailProperties
    <3>3. /\ Append(Tail(q), f) \in Seq(S)
          /\ Len(Append(Tail(q), f)) = QueueCapacity
          /\ \A k \in 1 .. QueueCapacity :
               Append(Tail(q), f)[k] = IF k = QueueCapacity THEN f
                                                            ELSE q[k + 1]
      BY <3>1, <3>2, AppendProperties, QueueCapacityAssumption
    <3>4. \A k \in 1 .. QueueCapacity : r[k] = slots'[SlotOf(queue_tail', k)]
      BY <1>4, <2>1 DEF r, Contents
    <3> QED
      BY <1>1, <1>4, <2>1, <2>5, <3>3, <3>4, SeqEqual
  <2>8. Stream!IsFull(Pending)
    BY <1>1, <1>4 DEF Stream!IsFull
  <2> QED
    BY <1>1, <2>7, <2>8 DEF Stream!Put, Stream!Push, Enqueue
<1> QED
  BY <1>3, <1>4

\* A poll that finds a frame is a Get.
LEMMA PollIsGet ==
  ASSUME RingInv, RingInv', Poll
  PROVE  Stream!Get
<1> DEFINE S == Frames \cup {NoFrame}
           q == Contents(slots, queue_tail, queue_depth)
           r == Contents(slots', queue_tail', queue_depth')
<1>1. /\ Pending = q /\ q \in Seq(S) /\ Len(q) = queue_depth
      /\ Pending' = r /\ r \in Seq(S) /\ Len(r) = queue_depth'
  BY PendingIsContents DEF RingInv, TypeOK, Pending
<1>2. queue_depth \in 1 .. QueueCapacity
  BY QueueCapacityAssumption DEF Poll, RingInv, TypeOK
<1>3. q # <<>>
  BY <1>1, <1>2
<1>4. Head(q) = slots[queue_tail]
  <2>1. SlotOf(queue_tail, 1) = queue_tail
    BY QueueCapacityAssumption DEF SlotOf, RingInv, TypeOK, Slots
  <2>2. q[1] = slots[SlotOf(queue_tail, 1)]
    BY <1>2 DEF Contents
  <2> QED
    BY <1>1, <1>3, <2>1, <2>2
<1>5. r = Tail(q)
  <2>1. queue_tail' = IF queue_tail = QueueCapacity - 1
                      THEN 0 ELSE queue_tail + 1
    BY SuccessorInRing DEF Poll, RingInv, TypeOK
  <2>2. \A k \in 1 .. queue_depth - 1 :
          SlotOf(queue_tail', k) = SlotOf(queue_tail, k + 1)
    BY <1>2, <2>1, QueueCapacityAssumption DEF SlotOf, RingInv, TypeOK, Slots
  <2>3. /\ Tail(q) \in Seq(S) /\ Len(Tail(q)) = queue_depth - 1
        /\ \A k \in 1 .. queue_depth - 1 : Tail(q)[k] = q[k + 1]
    <3> HIDE DEF q, S
    <3> QED
      BY <1>1, <1>3, HeadTailProperties
  <2>4. \A k \in 1 .. queue_depth - 1 :
          q[k + 1] = slots[SlotOf(queue_tail, k + 1)]
    BY <1>2 DEF Contents
  <2>5. \A k \in 1 .. queue_depth - 1 : r[k] = slots[SlotOf(queue_tail', k)]
    BY <1>2 DEF Poll, Contents
  <2>6. queue_depth' = queue_depth - 1
    BY DEF Poll
  <2> HIDE DEF q, r, S
  <2> QED
    BY <1>1, <2>2, <2>3, <2>4, <2>5, <2>6, SeqEqual
<1> QED
  BY <1>1, <1>3, <1>4, <1>5 DEF Stream!Get, Poll

\* A full ring gives up its oldest frame and nothing else, a poll gives the
\* oldest one kept, and no frame of an earlier lap or session comes back.
THEOREM RingImplementsStream == Spec => ImplementsStream
<1>1. Init => Stream!Init
  BY QueueCapacityAssumption DEF Init, Stream!Init, Pending
<1>2. RingInv /\ RingInv' /\ [Next]_vars => [Stream!Next]_<<Pending, out>>
  <2> SUFFICES ASSUME RingInv, RingInv', [Next]_vars
               PROVE  [Stream!Next]_<<Pending, out>>
    OBVIOUS
  <2>1. ASSUME NEW f \in Frames, Enqueue(f)
        PROVE  Stream!Next
    BY <2>1, EnqueueIsPut DEF Stream!Next
  <2>2. ASSUME Poll
        PROVE  Stream!Next
    BY <2>2, PollIsGet DEF Stream!Next
  <2>3. CASE PollEmpty
    <3>1. Pending = <<>> /\ Pending' = Pending
      BY <2>3 DEF PollEmpty, Pending
    <3> QED
      BY <2>3, <3>1 DEF PollEmpty, Stream!Next, Stream!GetNone
  <2>4. CASE Reset
    <3>1. Pending' = <<>>
      BY <2>4 DEF Reset, Pending
    <3> QED
      BY <2>4, <3>1 DEF Reset, Stream!Next, Stream!Clear
  <2>5. CASE UNCHANGED vars
    BY <2>5 DEF vars, Pending
  <2> QED
    BY <2>1, <2>2, <2>3, <2>4, <2>5 DEF Next
<1> QED
  BY <1>1, <1>2, RingInit, RingStep, PTL
  DEF Spec, ImplementsStream, Stream!Spec
===============================================================================
