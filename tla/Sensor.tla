------------------------------- MODULE Sensor -------------------------------
(***************************************************************************)
(* One TrackpadSensor that several Python threads share: the calls of      *)
(* sensor.py, the handle and the RLock of the binding native_bridge.py     *)
(* under them, and the capture of CaptureView behind it.  A thread holds   *)
(* the lock for one call of the binding at a time; read_frame and drain    *)
(* make several, between which the other threads get in.                   *)
(*                                                                         *)
(* The lock is held across a native call and keeps the other threads out,  *)
(* so that of its steps only those are told apart that a callback can tell *)
(* apart.  KeyboardInterrupt comes to the main thread, and not inside of a *)
(* native call.                                                            *)
(***************************************************************************)
EXTENDS CaptureView

CONSTANTS
  Threads,         (* Python threads                                        *)
  MainThread,
  None,            (* the owner of the lock while it is free                *)
  Calls,           (* the calls they make                                   *)
  MaxStarts,       (* bound: starts that are not refused                    *)
  MaxCallbacks,    (* bound: callbacks the gate admits in a session         *)
  MaxInterrupts    (* bound: times the operator presses control-C           *)

\* A "wait" is a read_frame(None), a "read" is one with a timeout.
ASSUME SensorAssumption ==
  /\ MainThread \in Threads /\ None \notin Threads
  /\ Calls \subseteq {"start", "stop", "wait", "read", "drain", "close"}
  /\ MaxStarts \in Nat /\ MaxCallbacks \in Nat /\ MaxInterrupts \in Nat

VARIABLES
  lock,            (* who holds _lock                                       *)
  handle,          (* _capture is not NULL                                  *)
  caller,          (* for whom the native cleanup runs                      *)
  thread,          (* where each thread is, in which call, and, remembered  *)
                   (* for the properties: the session in which its call     *)
                   (* began, and the newest frame then or when it last      *)
                   (* found none                                            *)
  interrupts,      (* KeyboardInterrupts so far                             *)
  torn,            (* one has kept a close from clearing the handle         *)
  (* More that the properties remember. *)
  session,         (* starts that were not refused                          *)
  newest,          (* the last frame queued                                 *)
  last             (* the last frame each thread was given                  *)

historyVars == <<session, newest, last>>
tearVars    == <<interrupts, torn>>
vars == <<viewVars, lock, handle, caller, thread, tearVars, historyVars>>

Frames   == [session : 1 .. MaxStarts, sequence : 1 .. MaxCallbacks]
NoFrame  == [session |-> 0, sequence |-> 0]
Later(f, g) ==
  \/ g.session > f.session
  \/ (g.session = f.session /\ g.sequence > f.sequence)

Resting ==
  [at |-> "idle", call |-> "none", since |-> 0, seen |-> NoFrame]
At(t)   == thread[t].at
Call(t) == thread[t].call

Reads  == {"wait", "read", "drain"}
Native == {"start", "attach", "device_start", "detach", "settle", "poll"}
Sites == Native \cup {"idle", "acquire", "close", "destroy", "freed", "ask",
                       "sleep"}

TypeOK ==
  /\ ViewTypeOK
  /\ lock \in Threads \cup {None}
  /\ handle \in BOOLEAN
  /\ caller \in {"start", "stop", "close", "destroy"}
  /\ thread \in [Threads -> [at : Sites, call : Calls \cup {"none"},
                              since : 0 .. MaxStarts,
                              seen : Frames \cup {NoFrame}]]
  /\ interrupts \in 0 .. MaxInterrupts /\ torn \in BOOLEAN
  /\ session \in 0 .. MaxStarts
  /\ newest \in Frames \cup {NoFrame}
  /\ last \in [Threads -> Frames \cup {NoFrame}]

\* The constructor has returned.
Init ==
  /\ live = TRUE /\ running = FALSE /\ registered = FALSE
  /\ accepting = FALSE
  /\ inside = Nobody /\ counts = NoCounts /\ queue = <<>>
  /\ lock = None /\ handle = TRUE /\ caller = "stop"
  /\ thread = [t \in Threads |-> Resting]
  /\ interrupts = 0 /\ torn = FALSE
  /\ session = 0 /\ newest = NoFrame
  /\ last = [t \in Threads |-> NoFrame]

-------------------------------------------------------------------------------
(***************************************************************************)
(* Callbacks, one at a time (docs/ABI_VERIFICATION.md:40).                 *)
(***************************************************************************)

\* queue_mutex may be held by a poll.
QueueMayBeBusy == \E t \in Threads : At(t) = "poll"

Callback ==
  /\ \/ /\ Admit
        /\ Quiet /\ counts["callback"] < MaxCallbacks
        /\ UNCHANGED newest
     \/ FindAccepting /\ UNCHANGED newest
     \/ FindClosed /\ UNCHANGED newest
     \/ Number /\ UNCHANGED newest
     \/ QueueMayBeBusy /\ DropFrame /\ UNCHANGED newest
     \/ /\ newest' = [session |-> session, sequence |-> counts["callback"]]
        /\ Enqueue(newest')
     \/ Leave /\ UNCHANGED newest
  /\ UNCHANGED <<lock, handle, caller, thread, tearVars, session, last>>

-------------------------------------------------------------------------------
(***************************************************************************)
(* The lock, the handle, and the calls that need both.                     *)
(***************************************************************************)

Go(t, to) ==
  thread' = [thread EXCEPT ![t] = IF to = "idle" THEN Resting
                                  ELSE [@ EXCEPT !.at = to]]

\* It has found no frame.
GoOn(t, to) ==
  thread' = [thread EXCEPT ![t] = IF to = "idle" THEN Resting
                                  ELSE [@ EXCEPT !.at = to, !.seen = newest]]

\* A fault: a read asks is_running before it polls.
AsksFirst(c) == IF c \in {"wait", "read"} THEN "ask" ELSE "acquire"
FirstSite(c) == "acquire"

Begin(t, c) ==
  /\ At(t) = "idle" /\ ~ torn
  /\ thread' = [thread EXCEPT ![t] = [at |-> FirstSite(c), call |-> c,
                                      since |-> session, seen |-> newest]]
  /\ UNCHANGED <<viewVars, lock, handle, caller, tearVars, historyVars>>

\* A fault: no lock.
NoLock(t) == TRUE
LockIsFree(t) == lock \in {None, t}

UnderLock(c) == CASE c = "start" -> "start" [] c = "stop" -> "detach"
                  [] c = "close" -> "close" [] c \in Reads -> "poll"

Take(t) ==
  /\ At(t) = "acquire" /\ LockIsFree(t) /\ handle /\ ~ torn
  /\ lock' = t
  /\ Go(t, UnderLock(Call(t)))
  /\ caller' = IF Call(t) = "stop" THEN "stop" ELSE caller
  /\ UNCHANGED <<viewVars, handle, tearVars, historyVars>>

\* A fault: only the passing of the timeout ends a read.
OnlyTimeoutEnds == TRUE
ReadGoesOn == handle /\ running

\* Without a capture start and stop raise, close has nothing to do, and a poll
\* finds no frame; a read that found none asks is_running.
FindNoHandle(t) ==
  /\ At(t) = "acquire" /\ LockIsFree(t) /\ ~ handle
  /\ GoOn(t, IF Call(t) \in {"wait", "read"} THEN "ask" ELSE "idle")
  /\ UNCHANGED <<viewVars, lock, handle, caller, tearVars, historyVars>>

\* The binding's call ends, and with it every "with self._lock" of it.
Leaves(t, to) == lock' = None /\ Go(t, to)

\* mt_phase1_capture_start: it is refused, or the registration fails,
StartFails(t) ==
  /\ At(t) \in {"start", "attach"}
  /\ Leaves(t, "idle")
  /\ UNCHANGED <<viewVars, handle, caller, tearVars, historyVars>>

StartResets(t) ==
  /\ At(t) = "start" /\ session < MaxStarts
  /\ Reset
  /\ session' = session + 1
  /\ Go(t, "attach")
  /\ UNCHANGED <<lock, handle, caller, tearVars, newest, last>>

\* or it goes on, as Register and Open say,
StartAttaches(t) ==
  /\ At(t) = "attach"
  /\ registered' = TRUE /\ accepting' = TRUE
  /\ Go(t, "device_start")
  /\ UNCHANGED <<live, running, inside, counts, queue, lock, handle, caller,
                 tearVars, historyVars>>

DeviceStarts(t) ==
  /\ At(t) = "device_start"
  /\ StartDevice
  /\ Leaves(t, "idle")
  /\ UNCHANGED <<handle, caller, tearVars, historyVars>>

\* to the device, which may not start.
DeviceStartFails(t) ==
  /\ At(t) = "device_start"
  /\ caller' = "start"
  /\ Go(t, "detach")
  /\ UNCHANGED <<viewVars, lock, handle, tearVars, historyVars>>

\* close holds the lock, and asks is_running, which takes it again.
CloseAsks(t) ==
  /\ At(t) = "close" /\ LockIsFree(t)
  /\ IF running THEN caller' = "close" /\ Go(t, "detach")
                ELSE Go(t, "destroy") /\ UNCHANGED caller
  /\ UNCHANGED <<viewVars, lock, handle, tearVars, historyVars>>

\* Its stop, if it had to make one, has returned; the lock is held on.
CloseDestroys(t) ==
  /\ At(t) = "destroy"
  /\ caller' = "destroy"
  /\ Go(t, "detach")
  /\ UNCHANGED <<viewVars, lock, handle, tearVars, historyVars>>

Detach(t) ==
  /\ At(t) = "detach"
  /\ Shut
  /\ Go(t, "settle")
  /\ UNCHANGED <<lock, handle, caller, tearVars, historyVars>>

CleanedUp == ~ running' /\ ~ registered' /\ Quiet

\* The rest of the cleanup.  The framework may refuse to stop the device or to
\* unregister the callback; the wait ends with callbacks still inside or not.
\* close raises when its stop fails, and goes on to destroy when not.
Settle(t) ==
  /\ At(t) = "settle"
  /\ running' \in {FALSE, running} /\ registered' \in {FALSE, registered}
  /\ IF CleanedUp /\ caller \in {"close", "destroy"}
     THEN /\ live' = (caller = "close")
          /\ Go(t, IF caller = "close" THEN "destroy" ELSE "freed")
          /\ UNCHANGED lock
     ELSE Leaves(t, "idle") /\ UNCHANGED live
  /\ UNCHANGED <<accepting, inside, counts, queue, handle, caller, tearVars,
                 historyVars>>

\* A fault: close does not clear the handle.
CloseForgets(t) ==
  /\ At(t) = "freed"
  /\ Leaves(t, "idle")
  /\ UNCHANGED <<viewVars, handle, caller, tearVars, historyVars>>

CloseEnds(t) ==
  /\ At(t) = "freed"
  /\ handle' = FALSE
  /\ Leaves(t, "idle")
  /\ UNCHANGED <<viewVars, caller, tearVars, historyVars>>

-------------------------------------------------------------------------------
(***************************************************************************)
(* read_frame and drain.                                                   *)
(***************************************************************************)

GivesFrame(t) ==
  /\ At(t) = "poll"
  /\ Poll
  /\ last' = [last EXCEPT ![t] = Head(queue)]
  /\ Leaves(t, IF Call(t) = "drain" THEN "acquire" ELSE "idle")
  /\ UNCHANGED <<handle, caller, tearVars, session, newest>>

FindsNoFrame(t) ==
  /\ At(t) = "poll" /\ queue = <<>>
  /\ lock' = None
  /\ GoOn(t, IF Call(t) = "drain" THEN "idle" ELSE "ask")
  /\ UNCHANGED <<viewVars, handle, caller, tearVars, historyVars>>

\* is_running; between the poll and it the lock was free.
AskRunning(t) ==
  /\ At(t) = "ask" /\ LockIsFree(t) /\ ~ torn
  /\ Go(t, IF ReadGoesOn THEN "sleep" ELSE "idle")
  /\ UNCHANGED <<viewVars, lock, handle, caller, tearVars, historyVars>>

Wake(t) ==
  /\ At(t) = "sleep"
  /\ Go(t, "acquire")
  /\ UNCHANGED <<viewVars, lock, handle, caller, tearVars, historyVars>>

Timeout(t) ==
  /\ At(t) = "sleep" /\ Call(t) = "read"
  /\ Go(t, "idle")
  /\ UNCHANGED <<viewVars, lock, handle, caller, tearVars, historyVars>>

\* It leaves the with statements: between a close's stop and its destroy the
\* capture as well as the handle, after the destroy the handle.
Interrupt ==
  /\ At(MainThread) \notin Native \cup {"idle"}
  /\ interrupts < MaxInterrupts
  /\ interrupts' = interrupts + 1
  /\ torn' = (torn \/ At(MainThread) = "freed")
  /\ lock' = IF lock = MainThread THEN None ELSE lock
  /\ Go(MainThread, "idle")
  /\ UNCHANGED <<viewVars, handle, caller, historyVars>>

\* A step that needs the lock, and one that does not.
LockStep(t) == Take(t) \/ FindNoHandle(t) \/ AskRunning(t)
OwnStep(t) ==
  \/ StartFails(t) \/ StartResets(t) \/ StartAttaches(t)
  \/ DeviceStarts(t) \/ DeviceStartFails(t)
  \/ CloseAsks(t) \/ CloseDestroys(t)
  \/ Detach(t) \/ Settle(t) \/ CloseEnds(t)
  \/ GivesFrame(t) \/ FindsNoFrame(t) \/ Wake(t) \/ Timeout(t)

Next ==
  \/ Callback \/ Interrupt
  \/ \E t \in Threads : LockStep(t) \/ OwnStep(t)
  \/ \E t \in Threads, c \in Calls : Begin(t, c)

Spec == Init /\ [][Next]_vars

\* A thread that is not blocked runs on, a lock that others keep taking comes
\* to each in turn (a reader sleeps between two polls), and a deadline passes.
FairSpec ==
  /\ Spec
  /\ \A t \in Threads :
       WF_vars(OwnStep(t)) /\ SF_vars(LockStep(t)) /\ SF_vars(Timeout(t))

-------------------------------------------------------------------------------
\* "Lifecycle/control calls for one capture must be serialized by the caller"
\* (mt_phase1.h:21): one thread at a time is in a native call of the capture,
\* and none after the capture was freed.  CaptureBridge builds on it.
CallsAreSerialized ==
  \A t \in Threads : At(t) \in Native =>
    /\ live
    /\ \A u \in Threads : At(u) \in Native => u = t

\* A close that raises leaves a capture that can be closed again, and one that
\* returns leaves none: while no call is in progress there is a handle if and
\* only if there is a capture.  The exception is a KeyboardInterrupt between
\* the native destroy and the clearing of the handle (native_bridge.py:299).
HandleIsOfACapture == lock = None /\ ~ torn => handle = live

\* What a thread reads is in the order of the callbacks, over restarts by other
\* threads, too, and never from a session over when the read began.
ReadsAreInOrder ==
  [][\A t \in Threads : last'[t] # last[t] =>
       Later(last[t], last'[t]) /\ last'[t].session >= thread[t].since]_vars

\* A read that returns None leaves no frame that was there when it began or
\* when it looked last, unless a close gave it up; a frame queued between the
\* poll and is_running may stay (sensor.py:31, 34).
NoneLeavesNothingSeen ==
  [][\A t \in Threads :
       handle /\ At(t) \in {"ask", "sleep"} /\ At(t)' = "idle" =>
         \A i \in DOMAIN queue : Later(thread[t].seen, queue[i])]_vars

\* Every call returns, but for a drain that a fast device keeps busy, and a
\* read_frame(None) of a capture that runs or, its stop having failed, still
\* counts as running: one that waits learns of a stop or close by another
\* thread, and a close takes a lock that it holds already.
CallsReturn ==
  \A t \in Threads :
    At(t) # "idle" /\ Call(t) # "drain" ~>
      At(t) = "idle" \/ (Call(t) = "wait" /\ running)
===============================================================================
