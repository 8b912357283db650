------------------------------ MODULE RingQueue -------------------------------
(***************************************************************************)
(* The frame queue of a capture as mt_phase1.c keeps it: an array used as  *)
(* a ring, the slot to write next, the slot to read next and the number of *)
(* frames between them.  Each operation runs under queue_mutex, so it is   *)
(* one step here; CaptureBridge has the interleavings.                     *)
(***************************************************************************)
EXTENDS FrameQueue

CONSTANTS Frames, NoFrame

ASSUME NoFrameAssumption == NoFrame \notin Frames

VARIABLES
  slots,        (* queue: NoFrame is a slot that was never written         *)
  queue_head,
  queue_tail,
  queue_depth,
  out           (* what the last poll came back with                       *)

vars == <<slots, queue_head, queue_tail, queue_depth, out>>

Slots == 0 .. QueueCapacity - 1

TypeOK ==
  /\ slots \in [Slots -> Frames \cup {NoFrame}]
  /\ queue_head \in Slots
  /\ queue_tail \in Slots
  /\ queue_depth \in 0 .. QueueCapacity
  /\ out \in Frames \cup {NoFrame}

\* calloc has zeroed the capture.
Init ==
  /\ slots = [i \in Slots |-> NoFrame]
  /\ queue_head = 0 /\ queue_tail = 0 /\ queue_depth = 0
  /\ out = NoFrame

\* The slot after slot i.
Successor(i) == (i + 1) % QueueCapacity

\* Two faults: the drop of the oldest frame leaves the tail, or the depth.
DropsNothing == queue_tail' = queue_tail
DropsTail == queue_tail' = IF queue_depth = QueueCapacity
                           THEN Successor(queue_tail) ELSE queue_tail
CountsTwice == queue_depth' = queue_depth + 1
CountsKept == queue_depth' = IF queue_depth = QueueCapacity
                             THEN queue_depth ELSE queue_depth + 1

\* The callback stores a frame, dropping the oldest of a full queue.
Enqueue(f) ==
  /\ DropsTail
  /\ CountsKept
  /\ slots' = [slots EXCEPT ![queue_head] = f]
  /\ queue_head' = Successor(queue_head)
  /\ UNCHANGED out

Poll ==
  /\ queue_depth > 0
  /\ out' = slots[queue_tail]
  /\ queue_tail' = Successor(queue_tail)
  /\ queue_depth' = queue_depth - 1
  /\ UNCHANGED <<slots, queue_head>>

PollEmpty ==
  /\ queue_depth = 0
  /\ out' = NoFrame
  /\ UNCHANGED <<slots, queue_head, queue_tail, queue_depth>>

\* A fault: a restart forgets the head.
ResetLeavesHead ==
  /\ queue_tail' = 0 /\ queue_depth' = 0
  /\ UNCHANGED <<slots, queue_head, out>>

\* A restart resets the indices and leaves the slots.
Reset ==
  /\ queue_head' = 0 /\ queue_tail' = 0 /\ queue_depth' = 0
  /\ UNCHANGED <<slots, out>>

Next == (\E f \in Frames : Enqueue(f)) \/ Poll \/ PollEmpty \/ Reset

Spec == Init /\ [][Next]_vars

-------------------------------------------------------------------------------
\* The three indices never drift apart: the head is as far past the tail as
\* the depth says, round the ring.
IndicesAgree == queue_head = (queue_tail + queue_depth) % QueueCapacity

\* The frames between tail and head, oldest first.
Pending ==
  [i \in 1 .. queue_depth |-> slots[(queue_tail + i - 1) % QueueCapacity]]

Stream == INSTANCE FrameStream WITH pending <- Pending

\* The ring behaves as the stream: no stale slot of an earlier lap or session
\* is ever read, and what a full ring gives up is its oldest frame.
ImplementsStream == Stream!Spec
===============================================================================
