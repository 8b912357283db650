----------------------------- MODULE CaptureView ------------------------------
(***************************************************************************)
(* One capture of the native bridge as its owner in Python can tell it:    *)
(* what of it is up, how many callbacks are where in it, its counters and  *)
(* its queue.  The mutexes, tokens and other captures that keep it so are  *)
(* CaptureBridge's, which is shown to implement this for each capture; the *)
(* Python modules extend it, and add who calls what when.                  *)
(***************************************************************************)
EXTENDS FrameQueue, Integers

VARIABLES
  live,            (* allocated                                             *)
  running, registered,
  accepting,       (* the gate is open, and leads to it                     *)
  inside,          (* how many callbacks are where in it                    *)
  counts,          (* the counters a callback keeps                         *)
  queue

sessionVars == <<live, running, registered, accepting>>
viewVars    == <<sessionVars, inside, counts, queue>>

\* Admitted; past the test of accepting_callbacks; counted, with a frame to
\* store; with nothing left to do but finish_callback.
Places   == {"admitted", "accepted", "numbered", "leaving"}
Fields   == {"callback", "overwrite", "contention"}
Nobody   == [p \in Places |-> 0]
NoCounts == [f \in Fields |-> 0]

ViewInit ==
  /\ live = FALSE /\ running = FALSE /\ registered = FALSE
  /\ accepting = FALSE
  /\ inside = Nobody /\ counts = NoCounts /\ queue = <<>>

-------------------------------------------------------------------------------
(***************************************************************************)
(* The callbacks the gate admits.                                          *)
(***************************************************************************)

Move(from, to) ==
  /\ inside[from] > 0
  /\ inside' = [inside EXCEPT ![from] = @ - 1, ![to] = @ + 1]

Count(f) == counts' = [counts EXCEPT ![f] = @ + 1]

Admit ==
  /\ accepting
  /\ inside' = [inside EXCEPT !["admitted"] = @ + 1]
  /\ UNCHANGED <<sessionVars, counts, queue>>

FindAccepting ==
  /\ accepting
  /\ Move("admitted", "accepted")
  /\ UNCHANGED <<sessionVars, counts, queue>>

FindClosed ==
  /\ ~ accepting
  /\ Move("admitted", "leaving")
  /\ UNCHANGED <<sessionVars, counts, queue>>

Number ==
  /\ Move("accepted", "numbered")
  /\ Count("callback")
  /\ UNCHANGED <<sessionVars, queue>>

\* A fault: a callback that lost its frame does not leave.
DropFrameStays ==
  /\ Count("contention")
  /\ UNCHANGED <<sessionVars, inside, queue>>

\* queue_mutex may be held, by the owner's poll or by another callback.
DropFrame ==
  /\ Move("numbered", "leaving")
  /\ Count("contention")
  /\ UNCHANGED <<sessionVars, queue>>

Enqueue(f) ==
  /\ Move("numbered", "leaving")
  /\ queue' = Push(queue, f)
  /\ IF IsFull(queue) THEN Count("overwrite") ELSE UNCHANGED counts
  /\ UNCHANGED sessionVars

\* A fault: a callback that the gate refused gives back what it did not take.
LeaveUnadmitted ==
  /\ inside' = [inside EXCEPT !["leaving"] = @ - 1]
  /\ UNCHANGED <<sessionVars, counts, queue>>

Leave ==
  /\ inside["leaving"] > 0
  /\ inside' = [inside EXCEPT !["leaving"] = @ - 1]
  /\ UNCHANGED <<sessionVars, counts, queue>>

-------------------------------------------------------------------------------
(***************************************************************************)
(* The steps of the owner's calls, in the order a session takes them.      *)
(***************************************************************************)

Quiet == inside = Nobody

Create ==
  /\ ~ live
  /\ live' = TRUE /\ running' = FALSE /\ registered' = FALSE
  /\ accepting' = FALSE
  /\ inside' = Nobody /\ counts' = NoCounts /\ queue' = <<>>

\* A fault: a restart leaves the frames of the session before.
ResetKeepsQueue ==
  /\ live /\ ~ running /\ ~ registered /\ Quiet
  /\ counts' = NoCounts
  /\ UNCHANGED <<sessionVars, inside, queue>>

\* A start that is not refused: nothing is left of an earlier session.
Reset ==
  /\ live /\ ~ running /\ ~ registered /\ Quiet
  /\ queue' = <<>> /\ counts' = NoCounts
  /\ UNCHANGED <<sessionVars, inside>>

Register ==
  /\ live /\ ~ running /\ ~ registered /\ Quiet
  /\ registered' = TRUE
  /\ UNCHANGED <<live, running, accepting, inside, counts, queue>>

Open ==
  /\ registered /\ ~ running /\ ~ accepting /\ Quiet
  /\ accepting' = TRUE
  /\ UNCHANGED <<live, running, registered, inside, counts, queue>>

StartDevice ==
  /\ accepting /\ ~ running
  /\ running' = TRUE
  /\ UNCHANGED <<live, registered, accepting, inside, counts, queue>>

Shut ==
  /\ live
  /\ accepting' = FALSE
  /\ UNCHANGED <<live, running, registered, inside, counts, queue>>

StopDevice ==
  /\ running /\ ~ accepting
  /\ running' = FALSE
  /\ UNCHANGED <<live, registered, accepting, inside, counts, queue>>

Unregister ==
  /\ registered /\ ~ accepting
  /\ registered' = FALSE
  /\ UNCHANGED <<live, running, accepting, inside, counts, queue>>

Poll ==
  /\ live /\ queue # <<>>
  /\ queue' = Tail(queue)
  /\ UNCHANGED <<sessionVars, inside, counts>>

Free ==
  /\ live /\ ~ running /\ ~ registered /\ ~ accepting /\ Quiet
  /\ live' = FALSE
  /\ UNCHANGED <<running, registered, accepting, inside, counts, queue>>

ViewNext(Frames) ==
  \/ Admit \/ FindAccepting \/ FindClosed \/ Number \/ DropFrame \/ Leave
  \/ \E f \in Frames : Enqueue(f)
  \/ Create \/ Reset \/ Register \/ Open \/ StartDevice
  \/ Shut \/ StopDevice \/ Unregister \/ Poll \/ Free

-------------------------------------------------------------------------------
ViewTypeOK ==
  /\ live \in BOOLEAN /\ running \in BOOLEAN
  /\ registered \in BOOLEAN /\ accepting \in BOOLEAN
  /\ inside \in [Places -> Nat]
  /\ counts \in [Fields -> Nat]
  /\ Len(queue) <= QueueCapacity
===============================================================================
