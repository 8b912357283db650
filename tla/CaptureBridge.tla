---------------------------- MODULE CaptureBridge ----------------------------
(***************************************************************************)
(* The native bridge native/src/mt_phase1.c: the lifecycle calls of the    *)
(* captures (create, start, stop, destroy, poll), the frame callback that  *)
(* the framework runs on threads of its own, and the two process-wide      *)
(* mutexes, the admission gate and the refcon tokens that keep the two     *)
(* apart.                                                                  *)
(*                                                                         *)
(* A capture stands for an address: after a destroy, calloc may hand the   *)
(* same address to the next create.  The calls on one capture are          *)
(* serialized by its caller (mt_phase1.h:21; the binding holds its RLock   *)
(* around each), so each capture has one control thread, named by the      *)
(* capture; calls on different captures interleave.  Every atomic or       *)
(* mutex operation another thread can notice is a step of its own.         *)
(***************************************************************************)
EXTENDS FrameQueue, FiniteSets, Integers

CONSTANTS
  Captures,        (* addresses calloc can return for a capture             *)
  Threads,         (* framework threads that run mt_phase1_raw_callback     *)
  None,            (* the NULL capture; also the holder of a free mutex     *)
  ContextCapacity, (* MT_PHASE1_CONTEXT_CAPACITY                            *)
  QuiescencePolls, (* MT_PHASE1_QUIESCENCE_POLLS                            *)
  Calls,           (* the calls the captures' owners make                   *)
  MaxCallbacks     (* bound: how many callbacks the framework delivers      *)

ASSUME BridgeAssumption ==
  /\ None \notin Captures \cup Threads
  /\ Captures \cap Threads = {}
  /\ IsFiniteSet(Threads)
  /\ ContextCapacity \in Nat
  /\ QuiescencePolls \in Nat \ {0}
  /\ MaxCallbacks \in Nat

VARIABLES
  (* Process-wide state. *)
  gActiveMutex,    (* holder of g_active_capture_mutex                      *)
  gActive,         (* g_active_capture                                      *)
  gGateMutex,      (* holder of g_callback_gate_mutex                       *)
  gCapture,        (* g_callback_capture                                    *)
  gContext,        (* g_callback_context                                    *)
  gNextContext,    (* g_next_callback_context                               *)
  gRejected,       (* g_rejected_callback_count                             *)
  (* Fields of struct mt_phase1_capture. *)
  context,         (* callback_context                                      *)
  registered,
  running,
  accepting,       (* accepting_callbacks                                   *)
  in_flight,       (* in_flight_callback_count                              *)
  baseline,        (* rejected_callback_baseline                            *)
  count,           (* the counters the statistics report                    *)
  queue,
  queue_mutex,     (* holder of queue_mutex                                 *)
  (* The control thread of a capture. *)
  ctl,             (* where its call stands; "absent": nothing allocated    *)
  call,            (* the call it is in or was in last                      *)
  status,          (* the status that call returns                          *)
  polls,           (* attempt of wait_for_callbacks_to_quiesce              *)
  out_frame,       (* what the last poll stored through its out_frame       *)
  (* A callback. *)
  cb,              (* where it stands                                       *)
  refcon,          (* its refcon argument                                   *)
  target,          (* its local variable capture                            *)
  sequence,        (* its local variable sequence                           *)
  (* The framework. *)
  refcons,         (* refcons it accepted a registration with               *)
  invoked          (* callbacks it has delivered                            *)

globalVars  == <<gActiveMutex, gActive, gNextContext>>
gateVars    == <<gGateMutex, gCapture, gContext>>
sessionVars == <<context, registered, running, baseline>>
queueVars   == <<queue, queue_mutex>>
controlVars == <<ctl, call, status, polls, out_frame>>
threadVars  == <<cb, refcon, target, sequence>>
worldVars   == <<refcons, invoked>>
lifecycleVars == <<globalVars, sessionVars, accepting, controlVars>>
bridgeVars    == <<globalVars, gateVars, sessionVars, accepting, in_flight>>
recordVars    == <<count, queueVars, out_frame>>
callbackVars  == <<gRejected, threadVars, worldVars>>
vars == <<globalVars, gateVars, gRejected, sessionVars, accepting, in_flight,
          count, queueVars, controlVars, threadVars, worldVars>>

-------------------------------------------------------------------------------
\* A refcon is the address of an element of g_callback_context_pool: the
\* position of the element, counted from 1.  NoContext is the NULL refcon.
NoContext == 0
Contexts  == 1 .. ContextCapacity

\* What Phase 1 keeps of a callback: its number, and, so that a property can
\* speak of it, the refcon that brought it.
Frames  == [sequence : Nat \ {0}, refcon : Contexts]
NoFrame == [sequence |-> 0, refcon |-> NoContext]

Counters == [callback : Nat, enqueued : Nat, overwrite : Nat,
             contention : Nat, late : Nat]
NoCounts == [callback |-> 0, enqueued |-> 0, overwrite |-> 0,
             contention |-> 0, late |-> 0]

Statuses == {"OK", "ALREADY_ACTIVE", "CALLBACK_REGISTRATION", "DEVICE_START",
             "DEVICE_STOP", "CALLBACK_UNREGISTER", "CALLBACK_QUIESCENCE",
             "INTERNAL"}

\* Where a control thread holds g_active_capture_mutex, and the gate's mutex.
AtDetach == {"detach_lock", "detach", "device_stop", "unregister", "quiesce",
             "quiesced", "timed_out"}
AtStart  == {"start_reset", "start_token", "start_register", "attach_lock",
             "attach", "device_start"}
HoldsActive == AtStart \cup AtDetach
HoldsGate   == {"attach", "detach"}
ControlStates ==
  HoldsActive \cup {"absent", "idle", "start_lock", "stop_lock",
                    "destroy_check", "poll_lock", "poll"}

\* Where a callback may touch the capture it was admitted to.
Numbered == {"numbered", "contended", "enqueue"}
Admitted == Numbered \cup {"admitted", "accepted", "finish"}
CallbackStates == Admitted \cup {"idle", "enter", "gate", "reject"}

GlobalTypes ==
  /\ gActiveMutex \in Captures \cup {None}
  /\ gActive \in Captures \cup {None}
  /\ gGateMutex \in Captures \cup Threads \cup {None}
  /\ gCapture \in Captures \cup {None}
  /\ gContext \in Contexts \cup {NoContext}
  /\ gNextContext \in 0 .. ContextCapacity
  /\ gRejected \in Nat
  /\ refcons \in SUBSET Contexts
  /\ invoked \in 0 .. MaxCallbacks

SessionTypes ==
  /\ context \in [Captures -> Contexts \cup {NoContext}]
  /\ registered \in [Captures -> BOOLEAN]
  /\ running \in [Captures -> BOOLEAN]
  /\ accepting \in [Captures -> BOOLEAN]
  /\ in_flight \in [Captures -> Int]
  /\ baseline \in [Captures -> Nat]

RecordTypes ==
  /\ count \in [Captures -> Counters]
  /\ queue \in [Captures -> Seq(Frames)]
  /\ queue_mutex \in [Captures -> Captures \cup Threads \cup {None}]
  /\ out_frame \in [Captures -> Frames \cup {NoFrame}]

ControlTypes ==
  /\ ctl \in [Captures -> ControlStates]
  /\ call \in [Captures -> {"create", "start", "stop", "destroy", "poll"}]
  /\ status \in [Captures -> Statuses]
  /\ polls \in [Captures -> 0 .. QuiescencePolls]

ThreadTypes ==
  /\ cb \in [Threads -> CallbackStates]
  /\ refcon \in [Threads -> Contexts \cup {NoContext}]
  /\ target \in [Threads -> Captures \cup {None}]
  /\ sequence \in [Threads -> Nat]

TypeOK ==
  GlobalTypes /\ SessionTypes /\ RecordTypes /\ ControlTypes /\ ThreadTypes

Init ==
  /\ gActiveMutex = None /\ gActive = None
  /\ gGateMutex = None /\ gCapture = None /\ gContext = NoContext
  /\ gNextContext = 0 /\ gRejected = 0
  /\ context = [c \in Captures |-> NoContext]
  /\ registered = [c \in Captures |-> FALSE]
  /\ running = [c \in Captures |-> FALSE]
  /\ accepting = [c \in Captures |-> FALSE]
  /\ in_flight = [c \in Captures |-> 0]
  /\ baseline = [c \in Captures |-> 0]
  /\ count = [c \in Captures |-> NoCounts]
  /\ queue = [c \in Captures |-> <<>>]
  /\ queue_mutex = [c \in Captures |-> None]
  /\ ctl = [c \in Captures |-> "absent"]
  /\ call = [c \in Captures |-> "create"]
  /\ status = [c \in Captures |-> "OK"]
  /\ polls = [c \in Captures |-> 0]
  /\ out_frame = [c \in Captures |-> NoFrame]
  /\ cb = [t \in Threads |-> "idle"]
  /\ refcon = [t \in Threads |-> NoContext]
  /\ target = [t \in Threads |-> None]
  /\ sequence = [t \in Threads |-> 0]
  /\ refcons = {} /\ invoked = 0

-------------------------------------------------------------------------------
(***************************************************************************)
(* The callback.  It never waits: both mutexes are taken by trylock.       *)
(***************************************************************************)

\* The framework calls the callback on an idle thread, with a refcon it was
\* ever given: mt_phase1.h:97 allows for an undocumented late callback, so an
\* unregistration does not keep the refcon from coming back.
Deliver(t) ==
  /\ cb[t] = "idle" /\ invoked < MaxCallbacks
  /\ \E x \in refcons : refcon' = [refcon EXCEPT ![t] = x]
  /\ cb' = [cb EXCEPT ![t] = "enter"]
  /\ invoked' = invoked + 1
  /\ UNCHANGED <<lifecycleVars, gateVars, gRejected, in_flight, count,
                 queueVars, target, sequence, refcons>>

TryGate(t) ==
  /\ cb[t] = "enter"
  /\ gGateMutex = None
  /\ gGateMutex' = t
  /\ cb' = [cb EXCEPT ![t] = "gate"]
  /\ UNCHANGED <<lifecycleVars, gCapture, gContext, gRejected, in_flight,
                 count, queueVars, refcon, target, sequence, worldVars>>

GateBusy(t) ==
  /\ cb[t] = "enter"
  /\ gGateMutex # None
  /\ cb' = [cb EXCEPT ![t] = "reject"]
  /\ UNCHANGED <<lifecycleVars, gateVars, gRejected, in_flight, count,
                 queueVars, refcon, target, sequence, worldVars>>

\* A fault: the refcon is not compared with the context of the session.
GateAdmitsAnyRefcon(x) == gCapture # None

\* Whether the gate admits a callback with refcon x.
GateAdmits(x) == gCapture # None /\ x = gContext

Admit(t) ==
  /\ cb[t] = "gate"
  /\ GateAdmits(refcon[t])
  /\ target' = [target EXCEPT ![t] = gCapture]
  /\ in_flight' = [in_flight EXCEPT ![gCapture] = @ + 1]
  /\ gGateMutex' = None
  /\ cb' = [cb EXCEPT ![t] = "admitted"]
  /\ UNCHANGED <<lifecycleVars, gCapture, gContext, gRejected, count,
                 queueVars, refcon, sequence, worldVars>>

Refuse(t) ==
  /\ cb[t] = "gate"
  /\ ~ GateAdmits(refcon[t])
  /\ gGateMutex' = None
  /\ cb' = [cb EXCEPT ![t] = "reject"]
  /\ UNCHANGED <<lifecycleVars, gCapture, gContext, gRejected, in_flight,
                 count, queueVars, refcon, target, sequence, worldVars>>

\* reject_callback_without_capture, and return.
Reject(t) ==
  /\ cb[t] = "reject"
  /\ gRejected' = gRejected + 1
  /\ cb' = [cb EXCEPT ![t] = "idle"]
  /\ refcon' = [refcon EXCEPT ![t] = NoContext]
  /\ UNCHANGED <<lifecycleVars, gateVars, in_flight, count, queueVars, target,
                 sequence, worldVars>>

\* A callback that reaches its capture only changes its counters, its queue
\* and, at the end, in_flight.
InCapture == UNCHANGED <<lifecycleVars, gateVars, gRejected, worldVars>>

FindAccepting(t) ==
  /\ cb[t] = "admitted"
  /\ accepting[target[t]]
  /\ cb' = [cb EXCEPT ![t] = "accepted"]
  /\ UNCHANGED <<in_flight, count, queueVars, refcon, target, sequence>>
  /\ InCapture

\* A fault: the early return forgets finish_callback.
FindClosedForgets(t) ==
  /\ cb[t] = "admitted"
  /\ ~ accepting[target[t]]
  /\ count' = [count EXCEPT ![target[t]].late = @ + 1]
  /\ cb' = [cb EXCEPT ![t] = "idle"]
  /\ refcon' = [refcon EXCEPT ![t] = NoContext]
  /\ target' = [target EXCEPT ![t] = None]
  /\ UNCHANGED <<in_flight, queueVars, sequence>>
  /\ InCapture

FindClosed(t) ==
  /\ cb[t] = "admitted"
  /\ ~ accepting[target[t]]
  /\ count' = [count EXCEPT ![target[t]].late = @ + 1]
  /\ cb' = [cb EXCEPT ![t] = "finish"]
  /\ UNCHANGED <<in_flight, queueVars, refcon, target, sequence>>
  /\ InCapture

\* Whether the callback came for the capture's device is only counted, by a
\* counter no other code reads back; that counter is left out.
Number(t) ==
  /\ cb[t] = "accepted"
  /\ count' = [count EXCEPT ![target[t]].callback = @ + 1]
  /\ sequence' = [sequence EXCEPT ![t] = count[target[t]].callback + 1]
  /\ cb' = [cb EXCEPT ![t] = "numbered"]
  /\ UNCHANGED <<in_flight, queueVars, refcon, target>>
  /\ InCapture

TryQueue(t) ==
  /\ cb[t] = "numbered"
  /\ queue_mutex[target[t]] = None
  /\ queue_mutex' = [queue_mutex EXCEPT ![target[t]] = t]
  /\ cb' = [cb EXCEPT ![t] = "enqueue"]
  /\ UNCHANGED <<in_flight, count, queue, refcon, target, sequence>>
  /\ InCapture

\* A fault: the callback spins on queue_mutex.
QueueBusySpins(t) ==
  /\ cb[t] = "numbered"
  /\ queue_mutex[target[t]] # None
  /\ UNCHANGED vars

QueueBusy(t) ==
  /\ cb[t] = "numbered"
  /\ queue_mutex[target[t]] # None
  /\ cb' = [cb EXCEPT ![t] = "contended"]
  /\ UNCHANGED <<in_flight, count, queueVars, refcon, target, sequence>>
  /\ InCapture

\* A fault: a frame lost to contention is not counted.
DropFrameUncounted(t) ==
  /\ cb[t] = "contended"
  /\ cb' = [cb EXCEPT ![t] = "finish"]
  /\ UNCHANGED <<in_flight, count, queueVars, refcon, target, sequence>>
  /\ InCapture

DropFrame(t) ==
  /\ cb[t] = "contended"
  /\ count' = [count EXCEPT ![target[t]].contention = @ + 1]
  /\ cb' = [cb EXCEPT ![t] = "finish"]
  /\ UNCHANGED <<in_flight, queueVars, refcon, target, sequence>>
  /\ InCapture

\* The critical section of queue_mutex, up to its unlock.
Enqueue(t) ==
  /\ cb[t] = "enqueue"
  /\ LET c == target[t]
         f == [sequence |-> sequence[t], refcon |-> refcon[t]]
     IN /\ queue' = [queue EXCEPT ![c] = Push(@, f)]
        /\ count' = [count EXCEPT ![c].enqueued = @ + 1,
                                  ![c].overwrite = IF IsFull(queue[c])
                                                   THEN @ + 1 ELSE @]
        /\ queue_mutex' = [queue_mutex EXCEPT ![c] = None]
  /\ cb' = [cb EXCEPT ![t] = "finish"]
  /\ UNCHANGED <<in_flight, refcon, target, sequence>>
  /\ InCapture

\* finish_callback, and return: the last access of a callback to its capture.
Finish(t) ==
  /\ cb[t] = "finish"
  /\ in_flight' = [in_flight EXCEPT ![target[t]] = @ - 1]
  /\ cb' = [cb EXCEPT ![t] = "idle"]
  /\ refcon' = [refcon EXCEPT ![t] = NoContext]
  /\ target' = [target EXCEPT ![t] = None]
  /\ sequence' = [sequence EXCEPT ![t] = 0]
  /\ UNCHANGED <<count, queueVars>>
  /\ InCapture

-------------------------------------------------------------------------------
(***************************************************************************)
(* The lifecycle calls.  A control thread blocks on a held mutex.          *)
(***************************************************************************)

Goto(c, place) == ctl' = [ctl EXCEPT ![c] = place]

\* The call on c returns: s is what it returns.
Return(c, s) == Goto(c, "idle") /\ status' = [status EXCEPT ![c] = s]

\* mt_phase1_capture_create: calloc, and the fields it sets.  A create that
\* fails releases all it took and leaves the address as it was.
Create(c) ==
  /\ ctl[c] = "absent"
  /\ context' = [context EXCEPT ![c] = NoContext]
  /\ registered' = [registered EXCEPT ![c] = FALSE]
  /\ running' = [running EXCEPT ![c] = FALSE]
  /\ baseline' = [baseline EXCEPT ![c] = 0]
  /\ accepting' = [accepting EXCEPT ![c] = FALSE]
  /\ in_flight' = [in_flight EXCEPT ![c] = 0]
  /\ count' = [count EXCEPT ![c] = NoCounts]
  /\ queue' = [queue EXCEPT ![c] = <<>>]
  /\ call' = [call EXCEPT ![c] = "create"]
  /\ out_frame' = [out_frame EXCEPT ![c] = NoFrame]
  /\ Return(c, "OK")
  /\ UNCHANGED <<globalVars, gateVars, callbackVars, queue_mutex, polls>>

\* The owner of capture c begins the call named name.
Begin(c, name) ==
  /\ ctl[c] = "idle"
  /\ name \in Calls
  /\ call' = [call EXCEPT ![c] = name]
  /\ UNCHANGED <<bridgeVars, callbackVars, recordVars, polls>>

\* mt_phase1_capture_start, before it takes the mutex.
StartRefused(c) ==
  /\ Begin(c, "start")
  /\ running[c] \/ registered[c]
  /\ Return(c, "ALREADY_ACTIVE")

StartCalled(c) ==
  /\ Begin(c, "start")
  /\ ~ (running[c] \/ registered[c])
  /\ Goto(c, "start_lock")
  /\ UNCHANGED status

\* Locks and unlocks, because another capture is active or not yet cleaned up.
StartBlocked(c) ==
  /\ ctl[c] = "start_lock"
  /\ gActiveMutex = None
  /\ gActive # None
  /\ Return(c, "ALREADY_ACTIVE")
  /\ UNCHANGED <<bridgeVars, callbackVars, recordVars, call, polls>>

StartLock(c) ==
  /\ ctl[c] = "start_lock"
  /\ gActiveMutex = None
  /\ gActive = None
  /\ gActiveMutex' = c
  /\ Goto(c, "start_reset")
  /\ UNCHANGED <<gActive, gNextContext, gateVars, callbackVars, sessionVars,
                 accepting, in_flight, recordVars, call, status, polls>>

\* A fault: a restart keeps the frames of the session before.
KeepQueue(c) == UNCHANGED queue
EmptyQueue(c) == queue' = [queue EXCEPT ![c] = <<>>]

\* Empties the queue under queue_mutex and clears the counters.
StartReset(c) ==
  /\ ctl[c] = "start_reset"
  /\ queue_mutex[c] = None
  /\ EmptyQueue(c)
  /\ count' = [count EXCEPT ![c] = NoCounts]
  /\ in_flight' = [in_flight EXCEPT ![c] = 0]
  /\ Goto(c, "start_token")
  /\ UNCHANGED <<globalVars, gateVars, callbackVars, sessionVars, accepting,
                 queue_mutex, call, status, polls, out_frame>>

\* A fault: the test of the pool's end is one too late.
PoolHasRun == gNextContext > ContextCapacity
PoolIsExhausted == gNextContext = ContextCapacity

PoolExhausted(c) ==
  /\ ctl[c] = "start_token"
  /\ PoolIsExhausted
  /\ gActiveMutex' = None
  /\ Return(c, "INTERNAL")
  /\ UNCHANGED <<gActive, gNextContext, gateVars, callbackVars, sessionVars,
                 accepting, in_flight, recordVars, call, polls>>

\* A fault: the next start is given the same token.
ReuseToken(c) ==
  /\ context' = [context EXCEPT ![c] = gNextContext + 1]
  /\ UNCHANGED gNextContext
TakeToken(c) ==
  /\ context' = [context EXCEPT ![c] = gNextContext + 1]
  /\ gNextContext' = gNextContext + 1

\* A fault: the rejections of sessions before are not set aside.
TakeNoBaseline(c) == UNCHANGED baseline
TakeBaseline(c)   == baseline' = [baseline EXCEPT ![c] = gRejected]

StartToken(c) ==
  /\ ctl[c] = "start_token"
  /\ ~ PoolIsExhausted
  /\ TakeToken(c)
  /\ TakeBaseline(c)
  /\ Goto(c, "start_register")
  /\ UNCHANGED <<gActiveMutex, gActive, gateVars, callbackVars, registered,
                 running, accepting, in_flight, recordVars, call, status,
                 polls>>

\* The framework refuses the registration (it returns 0).
RegisterFails(c) ==
  /\ ctl[c] = "start_register"
  /\ gActiveMutex' = None
  /\ Return(c, "CALLBACK_REGISTRATION")
  /\ UNCHANGED <<gActive, gNextContext, gateVars, callbackVars, sessionVars,
                 accepting, in_flight, recordVars, call, polls>>

\* The framework accepts it: from here on it may deliver callbacks.
Register(c) ==
  /\ ctl[c] = "start_register"
  /\ refcons' = refcons \cup {context[c]}
  /\ registered' = [registered EXCEPT ![c] = TRUE]
  /\ gActive' = c
  /\ Goto(c, "attach_lock")
  /\ UNCHANGED <<gActiveMutex, gNextContext, gateVars, gRejected, context,
                 running, baseline, accepting, in_flight, recordVars, call,
                 status, polls, threadVars, invoked>>

\* Takes the mutex of the gate, to attach or to detach.
GateLock(c, from, to) ==
  /\ ctl[c] = from
  /\ gGateMutex = None
  /\ gGateMutex' = c
  /\ Goto(c, to)
  /\ UNCHANGED <<globalVars, gCapture, gContext, callbackVars, sessionVars,
                 accepting, in_flight, recordVars, call, status, polls>>

AttachLock(c) == GateLock(c, "attach_lock", "attach")
DetachLock(c) == GateLock(c, "detach_lock", "detach")

GateOccupied(c) ==
  gCapture # None \/ gContext # NoContext \/ context[c] = NoContext

\* attach_callback_capture, and the cleanup that follows when it fails.
Attach(c) ==
  /\ ctl[c] = "attach"
  /\ gGateMutex' = None
  /\ IF GateOccupied(c)
     THEN /\ \/ /\ registered' = [registered EXCEPT ![c] = FALSE]
                /\ gActive' = None
             \/ UNCHANGED <<registered, gActive>>
          /\ gActiveMutex' = None
          /\ Return(c, "INTERNAL")
          /\ UNCHANGED <<accepting, gContext, gCapture>>
     ELSE /\ accepting' = [accepting EXCEPT ![c] = TRUE]
          /\ gContext' = context[c]
          /\ gCapture' = c
          /\ Goto(c, "device_start")
          /\ UNCHANGED <<status, registered, gActive, gActiveMutex>>
  /\ UNCHANGED <<gNextContext, callbackVars, context, running, baseline,
                 in_flight, recordVars, call, polls>>

DeviceStart(c) ==
  /\ ctl[c] = "device_start"
  /\ running' = [running EXCEPT ![c] = TRUE]
  /\ gActiveMutex' = None
  /\ Return(c, "OK")
  /\ UNCHANGED <<gActive, gNextContext, gateVars, callbackVars, context,
                 registered, baseline, accepting, in_flight, recordVars, call,
                 polls>>

DeviceStartFails(c) ==
  /\ ctl[c] = "device_start"
  /\ status' = [status EXCEPT ![c] = "DEVICE_START"]
  /\ Goto(c, "detach_lock")
  /\ UNCHANGED <<bridgeVars, callbackVars, recordVars, call, polls>>

\* mt_phase1_capture_stop, called or made by mt_phase1_capture_destroy.
StopCalled(c, name) ==
  /\ Begin(c, name)
  /\ status' = [status EXCEPT ![c] = "OK"]
  /\ Goto(c, "stop_lock")

StopLock(c) ==
  /\ ctl[c] = "stop_lock"
  /\ gActiveMutex = None
  /\ gActiveMutex' = c
  /\ Goto(c, "detach_lock")
  /\ UNCHANGED <<gActive, gNextContext, gateVars, callbackVars, sessionVars,
                 accepting, in_flight, recordVars, call, status, polls>>

\* The cleanup steps left after the gate, or after the device, is dealt with.
AfterDevice(c) == IF registered[c] THEN "unregister" ELSE "quiesce"
AfterDetach(c) == IF running[c] THEN "device_stop" ELSE AfterDevice(c)

\* A fault: the gate's context stays set.
ShutGateHalfway(c) ==
  /\ gCapture' = IF gCapture = c THEN None ELSE gCapture
  /\ UNCHANGED gContext
ShutGate(c) ==
  /\ gCapture' = IF gCapture = c THEN None ELSE gCapture
  /\ gContext' = IF gCapture = c THEN NoContext ELSE gContext

\* detach_callback_capture, up to its unlock.
Detach(c) ==
  /\ ctl[c] = "detach"
  /\ accepting' = [accepting EXCEPT ![c] = FALSE]
  /\ ShutGate(c)
  /\ gGateMutex' = None
  /\ Goto(c, AfterDetach(c))
  /\ polls' = [polls EXCEPT ![c] = 0]
  /\ UNCHANGED <<globalVars, callbackVars, sessionVars, in_flight, recordVars,
                 call, status>>

\* The status of the call after a step of it failed: the first failure counts.
Failed(c, s) == [status EXCEPT ![c] = IF @ = "OK" THEN s ELSE @]

DeviceStop(c) ==
  /\ ctl[c] = "device_stop"
  /\ running' = [running EXCEPT ![c] = FALSE]
  /\ Goto(c, AfterDevice(c))
  /\ UNCHANGED <<globalVars, gateVars, callbackVars, context, registered,
                 baseline, accepting, in_flight, recordVars, call, status,
                 polls>>

DeviceStopFails(c) ==
  /\ ctl[c] = "device_stop"
  /\ status' = Failed(c, "DEVICE_STOP")
  /\ Goto(c, AfterDevice(c))
  /\ UNCHANGED <<bridgeVars, callbackVars, recordVars, call, polls>>

Unregister(c) ==
  /\ ctl[c] = "unregister"
  /\ registered' = [registered EXCEPT ![c] = FALSE]
  /\ Goto(c, "quiesce")
  /\ UNCHANGED <<globalVars, gateVars, callbackVars, context, running,
                 baseline, accepting, in_flight, recordVars, call, status,
                 polls>>

\* The framework does not find the callback.
UnregisterFails(c) ==
  /\ ctl[c] = "unregister"
  /\ status' = Failed(c, "CALLBACK_UNREGISTER")
  /\ Goto(c, "quiesce")
  /\ UNCHANGED <<bridgeVars, callbackVars, recordVars, call, polls>>

\* One attempt of wait_for_callbacks_to_quiesce.
FindQuiesced(c) ==
  /\ ctl[c] = "quiesce"
  /\ in_flight[c] = 0
  /\ Goto(c, "quiesced")
  /\ UNCHANGED <<bridgeVars, callbackVars, recordVars, call, status, polls>>

\* A fault: a wait that ran out passes for success.
AfterAttemptQuietly(c) ==
  IF polls[c] + 1 < QuiescencePolls THEN "quiesce" ELSE "quiesced"
AfterAttempt(c) ==
  IF polls[c] + 1 < QuiescencePolls THEN "quiesce" ELSE "timed_out"

\* A fault: the wait never runs out.
FindBusyForever(c) ==
  /\ ctl[c] = "quiesce"
  /\ in_flight[c] # 0
  /\ UNCHANGED vars

FindBusy(c) ==
  /\ ctl[c] = "quiesce"
  /\ in_flight[c] # 0
  /\ polls' = [polls EXCEPT ![c] = @ + 1]
  /\ Goto(c, AfterAttempt(c))
  /\ UNCHANGED <<bridgeVars, callbackVars, recordVars, call, status>>

\* A fault: the cleanup does not ask whether the callbacks have left.
CleanedUpUnquiesced(c) ==
  gActive = c /\ ~ running[c] /\ ~ registered[c]

\* Whether the cleanup of c leaves nothing that could still reach it.
CleanedUp(c) ==
  gActive = c /\ ~ running[c] /\ ~ registered[c] /\ ctl[c] = "quiesced"

\* A fault: a stop whose wait ran out returns what it would have returned.
QuietStatus(c) == status
SettledStatus(c) ==
  IF ctl[c] = "quiesced" THEN status ELSE Failed(c, "CALLBACK_QUIESCENCE")

\* The end of a stop, and of a start whose device did not start.
Settle(c) ==
  /\ ctl[c] \in {"quiesced", "timed_out"}
  /\ gActive' = IF CleanedUp(c) THEN None ELSE gActive
  /\ gActiveMutex' = None
  /\ status' = SettledStatus(c)
  /\ Goto(c, IF call[c] = "destroy" THEN "destroy_check" ELSE "idle")
  /\ UNCHANGED <<gNextContext, gateVars, callbackVars, sessionVars, accepting,
                 in_flight, recordVars, call, polls>>

MayFree(c) ==
  status[c] = "OK" /\ ~ running[c] /\ ~ registered[c] /\ in_flight[c] = 0

\* mt_phase1_capture_destroy after its stop: it leaves the capture allocated,
DestroyRefused(c) ==
  /\ ctl[c] = "destroy_check"
  /\ ~ MayFree(c)
  /\ Return(c, Failed(c, "CALLBACK_QUIESCENCE")[c])
  /\ UNCHANGED <<bridgeVars, callbackVars, recordVars, call, polls>>

\* or frees it.
Free(c) ==
  /\ ctl[c] = "destroy_check"
  /\ MayFree(c)
  /\ Goto(c, "absent")
  /\ UNCHANGED <<bridgeVars, callbackVars, recordVars, call, status, polls>>

\* mt_phase1_capture_poll.
PollCalled(c) ==
  /\ Begin(c, "poll")
  /\ Goto(c, "poll_lock")
  /\ UNCHANGED status

PollLock(c) ==
  /\ ctl[c] = "poll_lock"
  /\ queue_mutex[c] = None
  /\ queue_mutex' = [queue_mutex EXCEPT ![c] = c]
  /\ Goto(c, "poll")
  /\ UNCHANGED <<bridgeVars, callbackVars, count, queue, call, status, polls,
                 out_frame>>

\* A fault: a poll takes the newest frame.
TakeNewest(c) ==
  /\ out_frame' = [out_frame EXCEPT ![c] = queue[c][Len(queue[c])]]
  /\ queue' = [queue EXCEPT ![c] = SubSeq(@, 1, Len(@) - 1)]
TakeFrame(c) ==
  /\ out_frame' = [out_frame EXCEPT ![c] = Head(queue[c])]
  /\ queue' = [queue EXCEPT ![c] = Tail(@)]

Poll(c) ==
  /\ ctl[c] = "poll"
  /\ IF queue[c] = <<>> THEN UNCHANGED <<queue, out_frame>> ELSE TakeFrame(c)
  /\ queue_mutex' = [queue_mutex EXCEPT ![c] = None]
  /\ Goto(c, "idle")
  /\ UNCHANGED <<bridgeVars, callbackVars, count, call, status, polls>>

-------------------------------------------------------------------------------
CallbackStep(t) ==
  \/ TryGate(t) \/ GateBusy(t) \/ Admit(t) \/ Refuse(t) \/ Reject(t)
  \/ FindAccepting(t) \/ FindClosed(t) \/ Number(t)
  \/ TryQueue(t) \/ QueueBusy(t) \/ DropFrame(t) \/ Enqueue(t) \/ Finish(t)

CallStep(c) ==
  \/ Create(c) \/ StartRefused(c) \/ StartCalled(c) \/ PollCalled(c)
  \/ \E name \in {"stop", "destroy"} : StopCalled(c, name)

ControlStep(c) ==
  \/ StartBlocked(c) \/ StartLock(c) \/ StartReset(c)
  \/ PoolExhausted(c) \/ StartToken(c) \/ RegisterFails(c) \/ Register(c)
  \/ AttachLock(c) \/ Attach(c) \/ DeviceStart(c) \/ DeviceStartFails(c)
  \/ StopLock(c) \/ DetachLock(c) \/ Detach(c)
  \/ DeviceStop(c) \/ DeviceStopFails(c) \/ Unregister(c) \/ UnregisterFails(c)
  \/ FindQuiesced(c) \/ FindBusy(c) \/ Settle(c)
  \/ DestroyRefused(c) \/ Free(c) \/ PollLock(c) \/ Poll(c)

Next ==
  \/ \E t \in Threads : Deliver(t) \/ CallbackStep(t)
  \/ \E c \in Captures : CallStep(c) \/ ControlStep(c)

Spec == Init /\ [][Next]_vars
===============================================================================
