--------------------------- MODULE BridgeProperties ---------------------------
(***************************************************************************)
(* What the native bridge must do.  The hazards are those of its callback: *)
(* it runs on a thread the bridge does not control, at any moment of any   *)
(* lifecycle call, and may come with a refcon of a session long over.      *)
(***************************************************************************)
EXTENDS CaptureBridge

\* The callbacks that may still touch capture c.
Inside(c) == {t \in Threads : cb[t] \in Admitted /\ target[t] = c}

\* No callback touches a freed capture, nor a capture that has moved on to
\* another session than the one its refcon belongs to: a restart, or another
\* capture allocated at the same address (mt_phase1.c:98, README.md:37).
NoStaleAccess ==
  \A t \in Threads : cb[t] \in Admitted =>
    /\ ctl[target[t]] # "absent"
    /\ context[target[t]] = refcon[t]

\* in_flight_callback_count is the number of callbacks inside the capture:
\* every path through the callback gives back the one it took, and the reset
\* of a restart forgets none.
InFlightIsExact == \A c \in Captures : in_flight[c] = Cardinality(Inside(c))

\* Whoever is about to attach finds the gate vacant and a token in hand: the
\* branch of mt_phase1_capture_start that calls the gate "unexpectedly
\* occupied" (mt_phase1.c:592) is never taken.
GateIsVacantForAttach ==
  \A c \in Captures : ctl[c] = "attach" => ~ GateOccupied(c)

\* g_active_capture names the one capture that the framework, the gate or a
\* callback can still reach; everything else is free to be started or freed.
OnlyActiveIsReachable ==
  \A c \in Captures :
    registered[c] \/ running[c] \/ gCapture = c \/ Inside(c) # {} =>
      gActive = c

\* A session is registered with a refcon of its own: an element of the pool
\* that the framework was never given before, in a session of this or of any
\* other capture, freed or not, so that a late callback carries the mark of
\* its session for good; and no two captures hold the same one at a time.
RefconsAreNotShared ==
  \A c \in Captures :
    /\ ctl[c] = "start_register" => context[c] \in Contexts \ refcons
    /\ \A d \in Captures :
         /\ c # d /\ ctl[c] # "absent" /\ ctl[d] # "absent"
         /\ context[c] # NoContext
         => context[c] # context[d]

\* Whatever a poll can hand out was recorded in the session the capture is in,
\* or, after a stop, was in last.
QueueIsOfSession ==
  \A c \in Captures : ctl[c] # "absent" =>
    \A i \in DOMAIN queue[c] : queue[c][i].refcon = context[c]

\* Every callback that was numbered is accounted for once: stored, dropped for
\* contention, or still on its way (the identity behind native_drop_count).
Undecided(c) == {t \in Inside(c) : cb[t] \in Numbered}
CallbacksAddUp ==
  \A c \in Captures :
    count[c].callback = count[c].enqueued + count[c].contention
                          + Cardinality(Undecided(c))

\* What a returned OK promises the owner.  Of a start, until the next call:
\* the capture is open to callbacks.  Of a stop: neither the framework nor the
\* gate nor a callback can reach it, so that its last frames can be drained and
\* its counters read.  Of a destroy: it freed the capture, and the same holds
\* of the address until the next create; while the capture is still there, a
\* destroy has not returned OK.
OutOfReach(c) ==
  /\ gActive # c /\ gCapture # c
  /\ ~ running[c] /\ ~ registered[c]
  /\ Inside(c) = {}
StatusIsTruthful ==
  \A c \in Captures :
    /\ ctl[c] = "idle" /\ status[c] = "OK" =>
         /\ call[c] = "start" => /\ gActive = c /\ gCapture = c
                                 /\ accepting[c] /\ running[c] /\ registered[c]
         /\ call[c] = "stop" => OutOfReach(c)
         /\ call[c] # "destroy"
    /\ ctl[c] = "absent" => OutOfReach(c)

\* While a capture is not the active one and its owner is not in a call, no
\* step of anybody changes it: neither a callback that outlived its session
\* nor the cleanup of another capture.
Bystander(c) == gActive # c /\ ctl[c] = "idle"
IsUntouched(c) ==
  /\ in_flight'[c] = in_flight[c] /\ count'[c] = count[c]
  /\ queue'[c] = queue[c] /\ queue_mutex'[c] = queue_mutex[c]
  /\ context'[c] = context[c] /\ accepting'[c] = accepting[c]
InactiveIsUntouched ==
  [][\A c \in Captures : Bystander(c) /\ Bystander(c)' => IsUntouched(c)]_vars

\* The frames that polls hand out in one session are in the order of their
\* callbacks.  This rests on the framework running the callbacks of a device
\* one at a time (docs/ABI_VERIFICATION.md:40): the number is taken before the
\* queue is locked (mt_phase1.c:297, :319).
PollsAreInOrder ==
  [][\A c \in Captures :
       /\ out_frame'[c] # out_frame[c]
       /\ out_frame'[c].refcon = out_frame[c].refcon
       => out_frame'[c].sequence > out_frame[c].sequence]_vars

-------------------------------------------------------------------------------
(***************************************************************************)
(* The abstract specification: locks, counters and tokens implement a      *)
(* session that is run down before it is over.                             *)
(***************************************************************************)
Live == {c \in Captures : ctl[c] # "absent"}
Phase ==
  CASE gActive = None   -> "vacant"
    [] gCapture # None  -> "open"
    [] OTHER            -> IF ctl[gActive] \in {"attach_lock", "attach"}
                           THEN "claimed" ELSE "shut"
InsideOf == [t \in Threads |-> IF cb[t] \in Admitted THEN target[t] ELSE None]

Rundown == INSTANCE SessionRundown
             WITH live <- Live, owner <- gActive, phase <- Phase,
                  inside <- InsideOf

\* A session never reopens, is over only when its last callback has left, and
\* no capture is freed during its session, whichever way the calls fail.
ImplementsRundown == Rundown!Spec

-------------------------------------------------------------------------------
(***************************************************************************)
(* Liveness.  A thread that is not blocked keeps running, but the owner of *)
(* a capture need not call anything and the framework need not deliver.    *)
(***************************************************************************)

\* Only the callbacks' threads are sure to run: a control thread may stop
\* for good, even inside a critical section.
CallbacksRun == \A t \in Threads : WF_vars(CallbackStep(t))

\* A callback returns whatever the control threads do: it never waits for a
\* mutex (README: "records and drops a frame instead of waiting").
CallbackReturns ==
  CallbacksRun => \A t \in Threads : cb[t] # "idle" ~> cb[t] = "idle"

\* Only the control threads are sure to run, and a callback to leave a
\* critical section it is in; it may stay inside its capture for good, as in
\* test_pause_after_admission of callback_gate_stress.c.
ControlRuns ==
  /\ \A c \in Captures : WF_vars(ControlStep(c))
  /\ \A t \in Threads : WF_vars(Admit(t) \/ Refuse(t) \/ Enqueue(t))

\* Every call returns: the wait for quiescence is bounded, and no call waits
\* for a callback in any other way ("bounded shutdown wait", mt_phase1.c:673).
CallsReturn ==
  ControlRuns =>
    \A c \in Captures :
      ctl[c] \notin {"absent", "idle"} ~> ctl[c] \in {"absent", "idle"}
===============================================================================
