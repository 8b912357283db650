------------------------------ MODULE FrameQueue ------------------------------
(***************************************************************************)
(* The frame queue of one capture as its users see it: a FIFO of at most   *)
(* QueueCapacity frames that gives up its oldest frame to admit a new one. *)
(* The array, head, tail and depth that mt_phase1.c keeps it in are        *)
(* modelled by RingQueue, which is shown to implement this.                *)
(***************************************************************************)
EXTENDS Naturals, Sequences

CONSTANT QueueCapacity   (* MT_PHASE1_QUEUE_CAPACITY *)

ASSUME QueueCapacityAssumption == QueueCapacity \in Nat \ {0}

\* The test of mt_phase1_raw_callback before it stores a frame.
IsFull(q) == Len(q) = QueueCapacity

\* The queue after the callback has stored frame f in it.
Push(q, f) == Append(IF IsFull(q) THEN Tail(q) ELSE q, f)
===============================================================================
