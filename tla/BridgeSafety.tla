----------------------------- MODULE BridgeSafety -----------------------------
(***************************************************************************)
(* The safety of the native bridge, for any number of captures, threads,   *)
(* tokens and queue slots: its types, the inductive invariant, its proof   *)
(* and what follows from it; then what the bridge records: its queues hold *)
(* frames of one session, in order, and its counters account for every     *)
(* callback; and that it implements SessionRundown.                        *)
(***************************************************************************)
EXTENDS BridgeProperties, QueueLemmas, FiniteSetTheorems,
        SequenceTheorems

USE DEF vars, globalVars, gateVars, sessionVars, queueVars, controlVars,
        threadVars, worldVars, lifecycleVars, bridgeVars, recordVars,
        callbackVars

-------------------------------------------------------------------------------
(***************************************************************************)
(* What a step leaves alone.                                               *)
(***************************************************************************)

\* A callback changes neither the lifecycle of a capture nor its owner's call.
LEMMA CallbackFrame ==
  ASSUME NEW t \in Threads, Deliver(t) \/ CallbackStep(t)
  PROVE  UNCHANGED <<globalVars, gCapture, gContext, sessionVars, accepting,
                     controlVars, refcons>>
  BY DEF CallbackStep, InCapture, Deliver, TryGate, GateBusy, Admit, Refuse,
       Reject, FindAccepting, FindClosed, Number, TryQueue, QueueBusy,
       DropFrame, Enqueue, Finish

\* A lifecycle call changes no callback.
LEMMA ControlFrame ==
  ASSUME NEW c \in Captures, CallStep(c) \/ ControlStep(c)
  PROVE  UNCHANGED <<threadVars, gRejected, invoked>>
  BY DEF CallStep, ControlStep, GateLock, Begin, StopCalled, Create,
       StartRefused, StartCalled, PollCalled, StartBlocked, StartLock,
       StartReset, PoolExhausted, StartToken, RegisterFails, Register,
       AttachLock, Attach, DeviceStart, DeviceStartFails, StopLock,
       DetachLock, Detach, DeviceStop, DeviceStopFails, Unregister,
       UnregisterFails, FindQuiesced, FindBusy, Settle, DestroyRefused, Free,
       PollLock, Poll

-------------------------------------------------------------------------------
(***************************************************************************)
(* Types.                                                                  *)
(***************************************************************************)

\* What the steps need to know, beyond TypeOK, to preserve it.
ThreadBounds ==
  \A t \in Threads :
    /\ cb[t] # "idle" => refcon[t] \in Contexts
    /\ cb[t] \in Admitted => target[t] \in Captures
    /\ cb[t] \in Numbered => sequence[t] \in Nat \ {0}
ControlBounds ==
  \A c \in Captures :
    /\ ctl[c] = "start_register" => context[c] \in Contexts
    /\ ctl[c] \in {"device_stop", "unregister", "quiesce"} =>
         polls[c] < QuiescencePolls

TypeInv == TypeOK /\ ThreadBounds /\ ControlBounds

\* The process-wide state keeps its type.
LEMMA GlobalTypesStep == TypeInv /\ [Next]_vars => GlobalTypes'
<1> SUFFICES ASSUME TypeInv, [Next]_vars
             PROVE  GlobalTypes'
  OBVIOUS
<1> USE DEF TypeInv, TypeOK, GlobalTypes
<1>1. ASSUME NEW t \in Threads, TryGate(t)
      PROVE  GlobalTypes'
  BY <1>1 DEF TryGate
<1>2. ASSUME NEW t \in Threads, Admit(t)
      PROVE  GlobalTypes'
  BY <1>2 DEF Admit, GateAdmits
<1>3. ASSUME NEW t \in Threads, Refuse(t)
      PROVE  GlobalTypes'
  BY <1>3 DEF Refuse, GateAdmits
<1>4. ASSUME NEW t \in Threads, Reject(t)
      PROVE  GlobalTypes'
  BY <1>4 DEF Reject
<1>5. ASSUME NEW t \in Threads, Deliver(t)
      PROVE  GlobalTypes'
  BY <1>5, BridgeAssumption DEF Deliver
<1>6. ASSUME NEW t \in Threads,
             GateBusy(t) \/ FindAccepting(t) \/ FindClosed(t)
             \/ Number(t) \/ TryQueue(t) \/ QueueBusy(t) \/ DropFrame(t)
             \/ Enqueue(t) \/ Finish(t)
      PROVE  UNCHANGED <<globalVars, gateVars, gRejected, worldVars>>
  BY <1>6 DEF GateBusy, FindAccepting, InCapture, FindClosed, Number,
       TryQueue, QueueBusy, DropFrame, Enqueue, Finish
<1>7. ASSUME NEW c \in Captures, StartLock(c)
      PROVE  GlobalTypes'
  BY <1>7 DEF StartLock, Goto
<1>8. ASSUME NEW c \in Captures, PoolExhausted(c)
      PROVE  GlobalTypes'
  BY <1>8 DEF PoolExhausted, PoolIsExhausted, Return, Goto
<1>9. ASSUME NEW c \in Captures, StartToken(c)
      PROVE  GlobalTypes'
  BY <1>9, BridgeAssumption DEF StartToken, PoolIsExhausted, TakeToken,
          TakeBaseline, Goto
<1>10. ASSUME NEW c \in Captures, RegisterFails(c)
      PROVE  GlobalTypes'
  BY <1>10 DEF RegisterFails, Return, Goto
<1>11. ASSUME NEW c \in Captures, Register(c)
      PROVE  GlobalTypes'
  BY <1>11 DEF Register, Goto, ControlBounds
<1>12. ASSUME NEW c \in Captures, AttachLock(c)
      PROVE  GlobalTypes'
  BY <1>12 DEF AttachLock, GateLock, Goto
<1>13. ASSUME NEW c \in Captures, Attach(c)
      PROVE  GlobalTypes'
  BY <1>13 DEF Attach, GateOccupied, Return, Goto, SessionTypes
<1>14. ASSUME NEW c \in Captures, DeviceStart(c)
      PROVE  GlobalTypes'
  BY <1>14 DEF DeviceStart, Return, Goto
<1>15. ASSUME NEW c \in Captures, StopLock(c)
      PROVE  GlobalTypes'
  BY <1>15 DEF StopLock, Goto
<1>16. ASSUME NEW c \in Captures, DetachLock(c)
      PROVE  GlobalTypes'
  BY <1>16 DEF DetachLock, GateLock, Goto
<1>17. ASSUME NEW c \in Captures, Detach(c)
      PROVE  GlobalTypes'
  BY <1>17 DEF Detach, ShutGate, AfterDetach, AfterDevice, Goto
<1>18. ASSUME NEW c \in Captures, Settle(c)
      PROVE  GlobalTypes'
  BY <1>18 DEF Settle, CleanedUp, SettledStatus, Failed, Goto
<1>19. ASSUME NEW c \in Captures, NEW name \in {"stop", "destroy"},
             StopCalled(c, name)
      PROVE  UNCHANGED <<globalVars, gateVars, gRejected, worldVars>>
  BY <1>19 DEF StopCalled, Begin
<1>20. ASSUME NEW c \in Captures,
             Create(c) \/ StartRefused(c) \/ StartCalled(c)
             \/ PollCalled(c) \/ StartBlocked(c) \/ StartReset(c)
             \/ DeviceStartFails(c) \/ DeviceStop(c)
             \/ DeviceStopFails(c) \/ Unregister(c) \/ UnregisterFails(c)
             \/ FindQuiesced(c) \/ FindBusy(c) \/ DestroyRefused(c)
             \/ Free(c) \/ PollLock(c) \/ Poll(c)
      PROVE  UNCHANGED <<globalVars, gateVars, gRejected, worldVars>>
  BY <1>20 DEF Create, Return, Goto, StartRefused, Begin, StartCalled,
       PollCalled, StartBlocked, StartReset, DeviceStartFails, DeviceStop,
       DeviceStopFails, Unregister, UnregisterFails, FindQuiesced, FindBusy,
       DestroyRefused, Free, PollLock, Poll
<1> QED BY <1>1, <1>2, <1>3, <1>4, <1>5, <1>6, <1>7, <1>8, <1>9, <1>10, <1>11,
     <1>12, <1>13, <1>14, <1>15, <1>16, <1>17, <1>18, <1>19, <1>20
      DEF Next, CallbackStep, CallStep, ControlStep

\* So do the fields of a capture that its lifecycle is kept in.
LEMMA SessionTypesStep == TypeInv /\ [Next]_vars => SessionTypes'
<1> SUFFICES ASSUME TypeInv, [Next]_vars
             PROVE  SessionTypes'
  OBVIOUS
<1> USE DEF TypeInv, TypeOK, SessionTypes
<1>1. ASSUME NEW t \in Threads, Admit(t)
      PROVE  SessionTypes'
  BY <1>1 DEF Admit, GateAdmits, GlobalTypes
<1>2. ASSUME NEW t \in Threads, Finish(t)
      PROVE  SessionTypes'
  BY <1>2 DEF Finish, InCapture, ThreadBounds, Admitted
<1>3. ASSUME NEW t \in Threads,
             Deliver(t) \/ TryGate(t) \/ GateBusy(t) \/ Refuse(t)
             \/ Reject(t) \/ FindAccepting(t) \/ FindClosed(t)
             \/ Number(t) \/ TryQueue(t) \/ QueueBusy(t) \/ DropFrame(t)
             \/ Enqueue(t)
      PROVE  UNCHANGED <<sessionVars, accepting, in_flight>>
  BY <1>3 DEF Deliver, TryGate, GateBusy, Refuse, Reject, FindAccepting,
       InCapture, FindClosed, Number, TryQueue, QueueBusy, DropFrame, Enqueue
<1>4. ASSUME NEW c \in Captures, Create(c)
      PROVE  SessionTypes'
  BY <1>4 DEF Create, Return, Goto
<1>5. ASSUME NEW c \in Captures, StartReset(c)
      PROVE  SessionTypes'
  BY <1>5 DEF StartReset, EmptyQueue, Goto
<1>6. ASSUME NEW c \in Captures, StartToken(c)
      PROVE  SessionTypes'
  BY <1>6, BridgeAssumption DEF StartToken, PoolIsExhausted, TakeToken,
          TakeBaseline, Goto,
       GlobalTypes, Contexts
<1>7. ASSUME NEW c \in Captures, Register(c)
      PROVE  SessionTypes'
  BY <1>7 DEF Register, Goto
<1>8. ASSUME NEW c \in Captures, Attach(c)
      PROVE  SessionTypes'
  BY <1>8 DEF Attach, GateOccupied, Return, Goto
<1>9. ASSUME NEW c \in Captures, DeviceStart(c)
      PROVE  SessionTypes'
  BY <1>9 DEF DeviceStart, Return, Goto
<1>10. ASSUME NEW c \in Captures, Detach(c)
      PROVE  SessionTypes'
  BY <1>10 DEF Detach, ShutGate, AfterDetach, AfterDevice, Goto
<1>11. ASSUME NEW c \in Captures, DeviceStop(c)
      PROVE  SessionTypes'
  BY <1>11 DEF DeviceStop, AfterDevice, Goto
<1>12. ASSUME NEW c \in Captures, Unregister(c)
      PROVE  SessionTypes'
  BY <1>12 DEF Unregister, Goto
<1>13. ASSUME NEW c \in Captures, NEW name \in {"stop", "destroy"},
             StopCalled(c, name)
      PROVE  UNCHANGED <<sessionVars, accepting, in_flight>>
  BY <1>13 DEF StopCalled, Begin
<1>14. ASSUME NEW c \in Captures,
             StartRefused(c) \/ StartCalled(c) \/ PollCalled(c)
             \/ StartBlocked(c) \/ StartLock(c) \/ PoolExhausted(c)
             \/ RegisterFails(c) \/ AttachLock(c) \/ DeviceStartFails(c)
             \/ StopLock(c) \/ DetachLock(c) \/ DeviceStopFails(c)
             \/ UnregisterFails(c) \/ FindQuiesced(c) \/ FindBusy(c)
             \/ Settle(c) \/ DestroyRefused(c) \/ Free(c) \/ PollLock(c)
             \/ Poll(c)
      PROVE  UNCHANGED <<sessionVars, accepting, in_flight>>
  BY <1>14 DEF StartRefused, Begin, Return, Goto, StartCalled, PollCalled,
       StartBlocked, StartLock, PoolExhausted, RegisterFails, AttachLock,
       GateLock, DeviceStartFails, StopLock, DetachLock, DeviceStopFails,
       UnregisterFails, FindQuiesced, FindBusy, Settle, DestroyRefused, Free,
       PollLock, Poll
<1> QED BY <1>1, <1>2, <1>3, <1>4, <1>5, <1>6, <1>7, <1>8, <1>9, <1>10, <1>11,
     <1>12, <1>13, <1>14
      DEF Next, CallbackStep, CallStep, ControlStep

\* Counting one more callback keeps the counters counters.
LEMMA CountedOnce ==
  ASSUME count \in [Captures -> Counters], NEW c \in Captures
  PROVE  /\ [count EXCEPT ![c].callback = @ + 1] \in [Captures -> Counters]
         /\ [count EXCEPT ![c].contention = @ + 1] \in [Captures -> Counters]
         /\ [count EXCEPT ![c].late = @ + 1] \in [Captures -> Counters]
<1>1. count[c] \in Counters
  OBVIOUS
<1>2. /\ [count[c] EXCEPT !.callback = @ + 1] \in Counters
      /\ [count[c] EXCEPT !.contention = @ + 1] \in Counters
      /\ [count[c] EXCEPT !.late = @ + 1] \in Counters
  BY <1>1 DEF Counters
<1> QED
  BY <1>2

\* So does what a session records.
LEMMA RecordTypesStep == TypeInv /\ [Next]_vars => RecordTypes'
<1> SUFFICES ASSUME TypeInv, [Next]_vars
             PROVE  RecordTypes'
  OBVIOUS
<1> USE DEF TypeInv, TypeOK, RecordTypes, ThreadBounds, Admitted, Numbered
<1>1. ASSUME NEW t \in Threads, FindClosed(t)
      PROVE  RecordTypes'
  <2>1. target[t] \in Captures
    BY <1>1 DEF FindClosed
  <2>2. count' \in [Captures -> Counters]
    BY <1>1, <2>1, CountedOnce DEF FindClosed
  <2> QED
    BY <1>1, <2>2 DEF FindClosed, InCapture
<1>2. ASSUME NEW t \in Threads, Number(t)
      PROVE  RecordTypes'
  <2>1. target[t] \in Captures
    BY <1>2 DEF Number
  <2>2. count' \in [Captures -> Counters]
    BY <1>2, <2>1, CountedOnce DEF Number
  <2> QED
    BY <1>2, <2>2 DEF Number, InCapture
<1>3. ASSUME NEW t \in Threads, TryQueue(t)
      PROVE  RecordTypes'
  BY <1>3 DEF TryQueue, InCapture
<1>4. ASSUME NEW t \in Threads, DropFrame(t)
      PROVE  RecordTypes'
  <2>1. target[t] \in Captures
    BY <1>4 DEF DropFrame
  <2>2. count' \in [Captures -> Counters]
    BY <1>4, <2>1, CountedOnce DEF DropFrame
  <2> QED
    BY <1>4, <2>2 DEF DropFrame, InCapture
<1>5. ASSUME NEW t \in Threads, Enqueue(t)
      PROVE  RecordTypes'
  <2> DEFINE c == target[t]
             f == [sequence |-> sequence[t], refcon |-> refcon[t]]
             n == count[c].enqueued + 1
             o == IF IsFull(queue[c]) THEN count[c].overwrite + 1
                                      ELSE count[c].overwrite
  <2>1. c \in Captures /\ f \in Frames
    BY <1>5 DEF Enqueue, Frames
  <2>2. count[c] \in Counters
    BY <2>1
  <2>3. n \in Nat /\ o \in Nat
    BY <2>2 DEF Counters
  <2>4. count' = [count EXCEPT ![c].enqueued = n, ![c].overwrite = o]
    BY <1>5 DEF Enqueue
  <2>5. count' \in [Captures -> Counters]
    <3> HIDE DEF n, o, c
    <3>1. [count[c] EXCEPT !.enqueued = n, !.overwrite = o] \in Counters
      BY <2>2, <2>3 DEF Counters
    <3>2. count' = [count EXCEPT ![c] = [count[c] EXCEPT !.enqueued = n,
                                                         !.overwrite = o]]
      BY <2>1, <2>2, <2>4 DEF Counters
    <3> QED
      BY <2>1, <3>1, <3>2
  <2>6. queue' \in [Captures -> Seq(Frames)]
    BY <1>5, <2>1, PushElements DEF Enqueue
  <2> QED
    BY <1>5, <2>1, <2>5, <2>6 DEF Enqueue, InCapture
<1>6. ASSUME NEW t \in Threads,
             Deliver(t) \/ TryGate(t) \/ GateBusy(t) \/ Admit(t)
             \/ Refuse(t) \/ Reject(t) \/ FindAccepting(t)
             \/ QueueBusy(t) \/ Finish(t)
      PROVE  UNCHANGED <<count, queueVars, out_frame>>
  BY <1>6 DEF Deliver, TryGate, GateBusy, Admit, Refuse, Reject,
       FindAccepting, InCapture, QueueBusy, Finish
<1>7. ASSUME NEW c \in Captures, Create(c)
      PROVE  RecordTypes'
  BY <1>7 DEF Create, Return, Goto, Counters, NoCounts
<1>8. ASSUME NEW c \in Captures, StartReset(c)
      PROVE  RecordTypes'
  BY <1>8 DEF StartReset, EmptyQueue, Goto, Counters, NoCounts
<1>9. ASSUME NEW c \in Captures, PollLock(c)
      PROVE  RecordTypes'
  BY <1>9 DEF PollLock, Goto
<1>10. ASSUME NEW c \in Captures, Poll(c)
      PROVE  RecordTypes'
  <2>1. CASE queue[c] = <<>>
    BY <1>10, <2>1 DEF Poll, TakeFrame
  <2>2. CASE queue[c] # <<>>
    <3>1. Head(queue[c]) \in Frames /\ Tail(queue[c]) \in Seq(Frames)
      BY <2>2, HeadTailProperties
    <3> QED
      BY <1>10, <2>2, <3>1 DEF Poll, TakeFrame
  <2> QED
    BY <2>1, <2>2
<1>11. ASSUME NEW c \in Captures, NEW name \in {"stop", "destroy"},
             StopCalled(c, name)
      PROVE  UNCHANGED <<count, queueVars, out_frame>>
  BY <1>11 DEF StopCalled, Begin
<1>12. ASSUME NEW c \in Captures,
             StartRefused(c) \/ StartCalled(c) \/ PollCalled(c)
             \/ StartBlocked(c) \/ StartLock(c) \/ PoolExhausted(c)
             \/ StartToken(c) \/ RegisterFails(c) \/ Register(c)
             \/ AttachLock(c) \/ Attach(c) \/ DeviceStart(c)
             \/ DeviceStartFails(c) \/ StopLock(c) \/ DetachLock(c)
             \/ Detach(c) \/ DeviceStop(c) \/ DeviceStopFails(c)
             \/ Unregister(c) \/ UnregisterFails(c) \/ FindQuiesced(c)
             \/ FindBusy(c) \/ Settle(c) \/ DestroyRefused(c) \/ Free(c)
      PROVE  UNCHANGED <<count, queueVars, out_frame>>
  BY <1>12 DEF StartRefused, Begin, Return, Goto, StartCalled, PollCalled,
       StartBlocked, StartLock, PoolExhausted, StartToken, RegisterFails,
       Register, AttachLock, GateLock, Attach, DeviceStart, DeviceStartFails,
       StopLock, DetachLock, Detach, DeviceStop, DeviceStopFails, Unregister,
       UnregisterFails, FindQuiesced, FindBusy, Settle, DestroyRefused, Free
<1> QED BY <1>1, <1>2, <1>3, <1>4, <1>5, <1>6, <1>7, <1>8, <1>9, <1>10, <1>11,
     <1>12
      DEF Next, CallbackStep, CallStep, ControlStep

\* So does what the calls keep.
LEMMA ControlTypesStep == TypeInv /\ [Next]_vars => ControlTypes'
<1> SUFFICES ASSUME TypeInv, [Next]_vars
             PROVE  ControlTypes'
  OBVIOUS
<1> USE DEF TypeInv, TypeOK, ControlTypes, ControlStates, HoldsActive,
     AtStart, AtDetach, Statuses
<1>1. ASSUME NEW t \in Threads, Deliver(t) \/ CallbackStep(t)
      PROVE  ControlTypes'
  BY <1>1, CallbackFrame
<1>2. ASSUME NEW c \in Captures, Create(c)
      PROVE  ControlTypes'
  BY <1>2 DEF Create, Return, Goto
<1>3. ASSUME NEW c \in Captures, StartRefused(c)
      PROVE  ControlTypes'
  BY <1>3 DEF StartRefused, Begin, Return, Goto
<1>4. ASSUME NEW c \in Captures, StartCalled(c)
      PROVE  ControlTypes'
  BY <1>4 DEF StartCalled, Begin, Goto
<1>5. ASSUME NEW c \in Captures, PollCalled(c)
      PROVE  ControlTypes'
  BY <1>5 DEF PollCalled, Begin, Goto
<1>6. ASSUME NEW c \in Captures, StartBlocked(c)
      PROVE  ControlTypes'
  BY <1>6 DEF StartBlocked, Return, Goto
<1>7. ASSUME NEW c \in Captures, StartLock(c)
      PROVE  ControlTypes'
  BY <1>7 DEF StartLock, Goto
<1>8. ASSUME NEW c \in Captures, StartReset(c)
      PROVE  ControlTypes'
  BY <1>8 DEF StartReset, EmptyQueue, Goto
<1>9. ASSUME NEW c \in Captures, PoolExhausted(c)
      PROVE  ControlTypes'
  BY <1>9 DEF PoolExhausted, PoolIsExhausted, Return, Goto
<1>10. ASSUME NEW c \in Captures, StartToken(c)
      PROVE  ControlTypes'
  BY <1>10 DEF StartToken, PoolIsExhausted, TakeToken,
          TakeBaseline, Goto
<1>11. ASSUME NEW c \in Captures, RegisterFails(c)
      PROVE  ControlTypes'
  BY <1>11 DEF RegisterFails, Return, Goto
<1>12. ASSUME NEW c \in Captures, Register(c)
      PROVE  ControlTypes'
  BY <1>12 DEF Register, Goto
<1>13. ASSUME NEW c \in Captures, AttachLock(c)
      PROVE  ControlTypes'
  BY <1>13 DEF AttachLock, GateLock, Goto
<1>14. ASSUME NEW c \in Captures, Attach(c)
      PROVE  ControlTypes'
  BY <1>14 DEF Attach, GateOccupied, Return, Goto
<1>15. ASSUME NEW c \in Captures, DeviceStart(c)
      PROVE  ControlTypes'
  BY <1>15 DEF DeviceStart, Return, Goto
<1>16. ASSUME NEW c \in Captures, DeviceStartFails(c)
      PROVE  ControlTypes'
  BY <1>16 DEF DeviceStartFails, Goto
<1>17. ASSUME NEW c \in Captures, StopLock(c)
      PROVE  ControlTypes'
  BY <1>17 DEF StopLock, Goto
<1>18. ASSUME NEW c \in Captures, DetachLock(c)
      PROVE  ControlTypes'
  BY <1>18 DEF DetachLock, GateLock, Goto
<1>19. ASSUME NEW c \in Captures, Detach(c)
      PROVE  ControlTypes'
  BY <1>19, BridgeAssumption DEF Detach, ShutGate, AfterDetach, AfterDevice,
       Goto
<1>20. ASSUME NEW c \in Captures, DeviceStop(c)
      PROVE  ControlTypes'
  BY <1>20 DEF DeviceStop, AfterDevice, Goto
<1>21. ASSUME NEW c \in Captures, DeviceStopFails(c)
      PROVE  ControlTypes'
  BY <1>21 DEF DeviceStopFails, AfterDevice, Failed, Goto
<1>22. ASSUME NEW c \in Captures, Unregister(c)
      PROVE  ControlTypes'
  BY <1>22 DEF Unregister, Goto
<1>23. ASSUME NEW c \in Captures, UnregisterFails(c)
      PROVE  ControlTypes'
  BY <1>23 DEF UnregisterFails, Failed, Goto
<1>24. ASSUME NEW c \in Captures, FindQuiesced(c)
      PROVE  ControlTypes'
  BY <1>24 DEF FindQuiesced, Goto
<1>25. ASSUME NEW c \in Captures, FindBusy(c)
      PROVE  ControlTypes'
  BY <1>25, BridgeAssumption DEF FindBusy, AfterAttempt, Goto, ControlBounds
<1>26. ASSUME NEW c \in Captures, Settle(c)
      PROVE  ControlTypes'
  BY <1>26 DEF Settle, CleanedUp, SettledStatus, Failed, Goto
<1>27. ASSUME NEW c \in Captures, DestroyRefused(c)
      PROVE  ControlTypes'
  BY <1>27 DEF DestroyRefused, Failed, MayFree, Return, Goto
<1>28. ASSUME NEW c \in Captures, Free(c)
      PROVE  ControlTypes'
  BY <1>28 DEF Free, MayFree, Goto
<1>29. ASSUME NEW c \in Captures, PollLock(c)
      PROVE  ControlTypes'
  BY <1>29 DEF PollLock, Goto
<1>30. ASSUME NEW c \in Captures, Poll(c)
      PROVE  ControlTypes'
  BY <1>30 DEF Poll, TakeFrame, Goto
<1>31. ASSUME NEW c \in Captures, NEW name \in {"stop", "destroy"},
             StopCalled(c, name)
      PROVE  ControlTypes'
  BY <1>31 DEF StopCalled, Begin, Goto
<1> QED BY <1>1, <1>2, <1>3, <1>4, <1>5, <1>6, <1>7, <1>8, <1>9, <1>10, <1>11,
     <1>12, <1>13, <1>14, <1>15, <1>16, <1>17, <1>18, <1>19, <1>20, <1>21,
     <1>22, <1>23, <1>24, <1>25, <1>26, <1>27, <1>28, <1>29, <1>30, <1>31
      DEF Next, CallStep, ControlStep

\* So does what the callbacks keep.
LEMMA ThreadTypesStep == TypeInv /\ [Next]_vars => ThreadTypes'
<1> SUFFICES ASSUME TypeInv, [Next]_vars
             PROVE  ThreadTypes'
  OBVIOUS
<1> USE DEF TypeInv, TypeOK, ThreadTypes, CallbackStates, Admitted, Numbered
<1>1. ASSUME NEW t \in Threads, Deliver(t)
      PROVE  ThreadTypes'
  BY <1>1 DEF Deliver, GlobalTypes
<1>2. ASSUME NEW t \in Threads, TryGate(t)
      PROVE  ThreadTypes'
  BY <1>2 DEF TryGate
<1>3. ASSUME NEW t \in Threads, GateBusy(t)
      PROVE  ThreadTypes'
  BY <1>3 DEF GateBusy
<1>4. ASSUME NEW t \in Threads, Admit(t)
      PROVE  ThreadTypes'
  BY <1>4 DEF Admit, GateAdmits, GlobalTypes
<1>5. ASSUME NEW t \in Threads, Refuse(t)
      PROVE  ThreadTypes'
  BY <1>5 DEF Refuse, GateAdmits
<1>6. ASSUME NEW t \in Threads, Reject(t)
      PROVE  ThreadTypes'
  BY <1>6 DEF Reject
<1>7. ASSUME NEW t \in Threads, FindAccepting(t)
      PROVE  ThreadTypes'
  BY <1>7 DEF FindAccepting, InCapture
<1>8. ASSUME NEW t \in Threads, FindClosed(t)
      PROVE  ThreadTypes'
  BY <1>8 DEF FindClosed, InCapture
<1>9. ASSUME NEW t \in Threads, Number(t)
      PROVE  ThreadTypes'
  BY <1>9 DEF Number, InCapture, RecordTypes, ThreadBounds, Counters
<1>10. ASSUME NEW t \in Threads, TryQueue(t)
      PROVE  ThreadTypes'
  BY <1>10 DEF TryQueue, InCapture
<1>11. ASSUME NEW t \in Threads, QueueBusy(t)
      PROVE  ThreadTypes'
  BY <1>11 DEF QueueBusy, InCapture
<1>12. ASSUME NEW t \in Threads, DropFrame(t)
      PROVE  ThreadTypes'
  BY <1>12 DEF DropFrame, InCapture
<1>13. ASSUME NEW t \in Threads, Enqueue(t)
      PROVE  ThreadTypes'
  BY <1>13 DEF Enqueue, InCapture
<1>14. ASSUME NEW t \in Threads, Finish(t)
      PROVE  ThreadTypes'
  BY <1>14 DEF Finish, InCapture
<1>15. ASSUME NEW c \in Captures, CallStep(c) \/ ControlStep(c)
      PROVE  ThreadTypes'
  BY <1>15, ControlFrame
<1> QED BY <1>1, <1>2, <1>3, <1>4, <1>5, <1>6, <1>7, <1>8, <1>9, <1>10, <1>11,
     <1>12, <1>13, <1>14, <1>15
      DEF Next, CallbackStep

\* A callback has a refcon, and inside a capture it knows which.
LEMMA ThreadBoundsStep == TypeInv /\ [Next]_vars => ThreadBounds'
<1> SUFFICES ASSUME TypeInv, [Next]_vars
             PROVE  ThreadBounds'
  OBVIOUS
<1> USE DEF TypeInv, TypeOK, ThreadTypes, ThreadBounds, Admitted, Numbered
<1>1. ASSUME NEW t \in Threads, Deliver(t)
      PROVE  ThreadBounds'
  BY <1>1 DEF Deliver, GlobalTypes
<1>2. ASSUME NEW t \in Threads, TryGate(t)
      PROVE  ThreadBounds'
  BY <1>2 DEF TryGate
<1>3. ASSUME NEW t \in Threads, GateBusy(t)
      PROVE  ThreadBounds'
  BY <1>3 DEF GateBusy
<1>4. ASSUME NEW t \in Threads, Admit(t)
      PROVE  ThreadBounds'
  BY <1>4 DEF Admit, GateAdmits, GlobalTypes
<1>5. ASSUME NEW t \in Threads, Refuse(t)
      PROVE  ThreadBounds'
  BY <1>5 DEF Refuse, GateAdmits
<1>6. ASSUME NEW t \in Threads, Reject(t)
      PROVE  ThreadBounds'
  BY <1>6 DEF Reject
<1>7. ASSUME NEW t \in Threads, FindAccepting(t)
      PROVE  ThreadBounds'
  BY <1>7 DEF FindAccepting, InCapture
<1>8. ASSUME NEW t \in Threads, FindClosed(t)
      PROVE  ThreadBounds'
  BY <1>8 DEF FindClosed, InCapture
<1>9. ASSUME NEW t \in Threads, Number(t)
      PROVE  ThreadBounds'
  BY <1>9 DEF Number, InCapture, RecordTypes, Counters
<1>10. ASSUME NEW t \in Threads, TryQueue(t)
      PROVE  ThreadBounds'
  BY <1>10 DEF TryQueue, InCapture
<1>11. ASSUME NEW t \in Threads, QueueBusy(t)
      PROVE  ThreadBounds'
  BY <1>11 DEF QueueBusy, InCapture
<1>12. ASSUME NEW t \in Threads, DropFrame(t)
      PROVE  ThreadBounds'
  BY <1>12 DEF DropFrame, InCapture
<1>13. ASSUME NEW t \in Threads, Enqueue(t)
      PROVE  ThreadBounds'
  BY <1>13 DEF Enqueue, InCapture
<1>14. ASSUME NEW t \in Threads, Finish(t)
      PROVE  ThreadBounds'
  BY <1>14 DEF Finish, InCapture
<1>15. ASSUME NEW c \in Captures, CallStep(c) \/ ControlStep(c)
      PROVE  ThreadBounds'
  BY <1>15, ControlFrame
<1> QED BY <1>1, <1>2, <1>3, <1>4, <1>5, <1>6, <1>7, <1>8, <1>9, <1>10, <1>11,
     <1>12, <1>13, <1>14, <1>15
      DEF Next, CallbackStep

\* A start that registers has a token, and a wait has attempts left.
LEMMA ControlBoundsStep == TypeInv /\ [Next]_vars => ControlBounds'
<1> SUFFICES ASSUME TypeInv, [Next]_vars
             PROVE  ControlBounds'
  OBVIOUS
<1> USE DEF TypeInv, TypeOK, ControlTypes, ControlBounds
<1>1. ASSUME NEW t \in Threads, Deliver(t) \/ CallbackStep(t)
      PROVE  ControlBounds'
  BY <1>1, CallbackFrame
<1>2. ASSUME NEW c \in Captures, Create(c)
      PROVE  ControlBounds'
  BY <1>2 DEF Create, Return, Goto
<1>3. ASSUME NEW c \in Captures, StartRefused(c)
      PROVE  ControlBounds'
  BY <1>3 DEF StartRefused, Begin, Return, Goto
<1>4. ASSUME NEW c \in Captures, StartCalled(c)
      PROVE  ControlBounds'
  BY <1>4 DEF StartCalled, Begin, Goto
<1>5. ASSUME NEW c \in Captures, PollCalled(c)
      PROVE  ControlBounds'
  BY <1>5 DEF PollCalled, Begin, Goto
<1>6. ASSUME NEW c \in Captures, StartBlocked(c)
      PROVE  ControlBounds'
  BY <1>6 DEF StartBlocked, Return, Goto
<1>7. ASSUME NEW c \in Captures, StartLock(c)
      PROVE  ControlBounds'
  BY <1>7 DEF StartLock, Goto
<1>8. ASSUME NEW c \in Captures, StartReset(c)
      PROVE  ControlBounds'
  BY <1>8 DEF StartReset, EmptyQueue, Goto
<1>9. ASSUME NEW c \in Captures, PoolExhausted(c)
      PROVE  ControlBounds'
  BY <1>9 DEF PoolExhausted, PoolIsExhausted, Return, Goto
<1>10. ASSUME NEW c \in Captures, StartToken(c)
      PROVE  ControlBounds'
  BY <1>10, BridgeAssumption DEF StartToken, PoolIsExhausted, TakeToken,
          TakeBaseline, Goto,
       GlobalTypes, SessionTypes, Contexts
<1>11. ASSUME NEW c \in Captures, RegisterFails(c)
      PROVE  ControlBounds'
  BY <1>11 DEF RegisterFails, Return, Goto
<1>12. ASSUME NEW c \in Captures, Register(c)
      PROVE  ControlBounds'
  BY <1>12 DEF Register, Goto
<1>13. ASSUME NEW c \in Captures, AttachLock(c)
      PROVE  ControlBounds'
  BY <1>13 DEF AttachLock, GateLock, Goto
<1>14. ASSUME NEW c \in Captures, Attach(c)
      PROVE  ControlBounds'
  BY <1>14 DEF Attach, GateOccupied, Return, Goto
<1>15. ASSUME NEW c \in Captures, DeviceStart(c)
      PROVE  ControlBounds'
  BY <1>15 DEF DeviceStart, Return, Goto
<1>16. ASSUME NEW c \in Captures, DeviceStartFails(c)
      PROVE  ControlBounds'
  BY <1>16 DEF DeviceStartFails, Goto
<1>17. ASSUME NEW c \in Captures, StopLock(c)
      PROVE  ControlBounds'
  BY <1>17 DEF StopLock, Goto
<1>18. ASSUME NEW c \in Captures, DetachLock(c)
      PROVE  ControlBounds'
  BY <1>18 DEF DetachLock, GateLock, Goto
<1>19. ASSUME NEW c \in Captures, Detach(c)
      PROVE  ControlBounds'
  BY <1>19, BridgeAssumption DEF Detach, ShutGate, AfterDetach, AfterDevice,
       Goto
<1>20. ASSUME NEW c \in Captures, DeviceStop(c)
      PROVE  ControlBounds'
  BY <1>20 DEF DeviceStop, AfterDevice, Goto
<1>21. ASSUME NEW c \in Captures, DeviceStopFails(c)
      PROVE  ControlBounds'
  BY <1>21 DEF DeviceStopFails, AfterDevice, Failed, Goto
<1>22. ASSUME NEW c \in Captures, Unregister(c)
      PROVE  ControlBounds'
  BY <1>22 DEF Unregister, Goto
<1>23. ASSUME NEW c \in Captures, UnregisterFails(c)
      PROVE  ControlBounds'
  BY <1>23 DEF UnregisterFails, Failed, Goto
<1>24. ASSUME NEW c \in Captures, FindQuiesced(c)
      PROVE  ControlBounds'
  BY <1>24 DEF FindQuiesced, Goto
<1>25. ASSUME NEW c \in Captures, FindBusy(c)
      PROVE  ControlBounds'
  BY <1>25 DEF FindBusy, AfterAttempt, Goto
<1>26. ASSUME NEW c \in Captures, Settle(c)
      PROVE  ControlBounds'
  BY <1>26 DEF Settle, CleanedUp, SettledStatus, Failed, Goto
<1>27. ASSUME NEW c \in Captures, DestroyRefused(c)
      PROVE  ControlBounds'
  BY <1>27 DEF DestroyRefused, Failed, MayFree, Return, Goto
<1>28. ASSUME NEW c \in Captures, Free(c)
      PROVE  ControlBounds'
  BY <1>28 DEF Free, MayFree, Goto
<1>29. ASSUME NEW c \in Captures, PollLock(c)
      PROVE  ControlBounds'
  BY <1>29 DEF PollLock, Goto
<1>30. ASSUME NEW c \in Captures, Poll(c)
      PROVE  ControlBounds'
  BY <1>30 DEF Poll, TakeFrame, Goto
<1>31. ASSUME NEW c \in Captures, NEW name \in {"stop", "destroy"},
             StopCalled(c, name)
      PROVE  ControlBounds'
  BY <1>31 DEF StopCalled, Begin, Goto
<1> QED BY <1>1, <1>2, <1>3, <1>4, <1>5, <1>6, <1>7, <1>8, <1>9, <1>10, <1>11,
     <1>12, <1>13, <1>14, <1>15, <1>16, <1>17, <1>18, <1>19, <1>20, <1>21,
     <1>22, <1>23, <1>24, <1>25, <1>26, <1>27, <1>28, <1>29, <1>30, <1>31
      DEF Next, CallStep, ControlStep

\* The initial states are typed,
LEMMA TypeInit == Init => TypeInv
  BY BridgeAssumption
  DEF Init, TypeInv, TypeOK, GlobalTypes, SessionTypes, RecordTypes,
      ControlTypes, ThreadTypes, ThreadBounds, ControlBounds, ControlStates,
      CallbackStates, Admitted, Numbered, Statuses, Counters, NoCounts,
      NoContext, NoFrame

\* and every step keeps them so.
LEMMA TypeStep == TypeInv /\ [Next]_vars => TypeInv'
  BY GlobalTypesStep, SessionTypesStep, RecordTypesStep, ControlTypesStep,
     ThreadTypesStep, ThreadBoundsStep, ControlBoundsStep DEF TypeInv, TypeOK

\* The bridge keeps every variable within its type: in particular a restart
\* never takes a token past the end of the pool, and a wait never exceeds its
\* attempts.
THEOREM TypeCorrect == Spec => []TypeOK
<1>1. TypeInv => TypeOK
  BY DEF TypeInv
<1> QED
  BY <1>1, TypeInit, TypeStep, PTL DEF Spec

-------------------------------------------------------------------------------
(***************************************************************************)
(* The inductive invariant.                                                *)
(***************************************************************************)

\* Who holds a mutex is at a place where it holds it.
Locks ==
  /\ \A c \in Captures :
       /\ ctl[c] \in HoldsActive <=> gActiveMutex = c
       /\ ctl[c] \in HoldsGate <=> gGateMutex = c
  /\ \A t \in Threads : cb[t] = "gate" <=> gGateMutex = t

\* An open gate leads to the active capture, and carries its token.
Gate ==
  /\ gCapture = None <=> gContext = NoContext
  /\ gCapture # None => /\ gActive = gCapture
                        /\ gContext = context[gCapture]
                        /\ accepting[gCapture]

\* How far a call has come tells what is active, and what the gate leads to.
Passed == {"device_stop", "unregister", "quiesce", "quiesced", "timed_out"}
Active ==
  \A c \in Captures :
    /\ registered[c] \/ running[c] => gActive = c
    /\ ctl[c] = "absent" => gActive # c
    /\ ctl[c] \in {"start_reset", "start_token", "start_register"} =>
         gActive = None
    /\ ctl[c] \in {"attach_lock", "attach"} =>
         /\ gActive = c /\ gCapture = None
         /\ context[c] # NoContext /\ registered[c]
    /\ ctl[c] = "device_start" => gCapture = c /\ registered[c]
    /\ ctl[c] \in Passed => gCapture # c
    /\ ctl[c] = "destroy_check" /\ status[c] = "OK"
         /\ ~ running[c] /\ ~ registered[c] => gActive # c

\* A callback inside a capture is inside the active one, by its token.
Callbacks ==
  \A t \in Threads : cb[t] \in Admitted =>
    gActive = target[t] /\ context[target[t]] = refcon[t]

\* A wait that found nobody inside is not overtaken by an admission.
Quiet == \A c \in Captures : ctl[c] = "quiesced" => Inside(c) = {}

\* Tokens are handed out in order, each once, and a session registers with one
\* that no session before it, of whatever capture, has registered with.
Tokens ==
  /\ \A x \in refcons : x <= gNextContext
  /\ \A c \in Captures :
       /\ context[c] <= gNextContext
       /\ \A d \in Captures :
            c # d /\ context[c] # NoContext => context[c] # context[d]
       /\ ctl[c] = "start_register" =>
            context[c] # NoContext /\ context[c] \notin refcons

\* What an OK that was returned says of the capture's own session.  That the
\* rest of StatusIsTruthful follows is shown below: what is not active is out
\* of everybody's reach.
Promised ==
  \A c \in Captures : ctl[c] = "idle" /\ status[c] = "OK" =>
    /\ call[c] = "start" => /\ gActive = c /\ gCapture = c /\ accepting[c]
                            /\ running[c] /\ registered[c]
    /\ call[c] = "stop" => gActive # c
    /\ call[c] # "destroy"

\* Which call a place belongs to, and what its status says already.
Returns ==
  \A c \in Captures :
    /\ ctl[c] \in AtStart \cup {"start_lock"} => call[c] = "start"
    /\ ctl[c] = "stop_lock" => call[c] # "start"
    /\ ctl[c] = "destroy_check" => call[c] = "destroy"
    /\ ctl[c] \in {"poll_lock", "poll"} => call[c] = "poll"
    /\ ctl[c] \in AtDetach /\ call[c] = "start" => status[c] # "OK"
    /\ ctl[c] = "unregister" /\ status[c] = "OK" => ~ running[c]
    /\ ctl[c] \in {"quiesce", "quiesced"} /\ status[c] = "OK" =>
         ~ running[c] /\ ~ registered[c]

IInv ==
  /\ TypeInv /\ Locks /\ Gate /\ Active /\ Callbacks /\ Quiet
  /\ InFlightIsExact /\ Tokens /\ Returns /\ Promised

-------------------------------------------------------------------------------
(***************************************************************************)
(* Each step preserves each part of it.                                    *)
(***************************************************************************)

\* A mutex is taken only when it is free, and released by its holder.
LEMMA LocksStep == IInv /\ [Next]_vars => Locks'
<1> SUFFICES ASSUME IInv, [Next]_vars
             PROVE  Locks'
  OBVIOUS
<1> USE BridgeAssumption DEF IInv, TypeInv, TypeOK, ControlTypes, ThreadTypes,
     Locks, HoldsActive, HoldsGate, AtStart, AtDetach
<1>1. ASSUME NEW t \in Threads, TryGate(t)
      PROVE  Locks'
  BY <1>1 DEF TryGate
<1>2. ASSUME NEW t \in Threads, GateBusy(t)
      PROVE  Locks'
  BY <1>2 DEF GateBusy
<1>3. ASSUME NEW t \in Threads, Admit(t)
      PROVE  Locks'
  BY <1>3 DEF Admit, GateAdmits
<1>4. ASSUME NEW t \in Threads, Refuse(t)
      PROVE  Locks'
  BY <1>4 DEF Refuse, GateAdmits
<1>5. ASSUME NEW t \in Threads, Reject(t)
      PROVE  Locks'
  BY <1>5 DEF Reject
<1>6. ASSUME NEW t \in Threads, Deliver(t)
      PROVE  Locks'
  BY <1>6 DEF Deliver
<1>7. ASSUME NEW t \in Threads, FindAccepting(t)
      PROVE  Locks'
  BY <1>7 DEF FindAccepting, InCapture
<1>8. ASSUME NEW t \in Threads, FindClosed(t)
      PROVE  Locks'
  BY <1>8 DEF FindClosed, InCapture
<1>9. ASSUME NEW t \in Threads, Number(t)
      PROVE  Locks'
  BY <1>9 DEF Number, InCapture
<1>10. ASSUME NEW t \in Threads, TryQueue(t)
      PROVE  Locks'
  BY <1>10 DEF TryQueue, InCapture
<1>11. ASSUME NEW t \in Threads, QueueBusy(t)
      PROVE  Locks'
  BY <1>11 DEF QueueBusy, InCapture
<1>12. ASSUME NEW t \in Threads, DropFrame(t)
      PROVE  Locks'
  BY <1>12 DEF DropFrame, InCapture
<1>13. ASSUME NEW t \in Threads, Enqueue(t)
      PROVE  Locks'
  BY <1>13 DEF Enqueue, InCapture
<1>14. ASSUME NEW t \in Threads, Finish(t)
      PROVE  Locks'
  BY <1>14 DEF Finish, InCapture
<1>15. ASSUME NEW c \in Captures, Create(c)
      PROVE  Locks'
  BY <1>15 DEF Create, Return, Goto
<1>16. ASSUME NEW c \in Captures, StartRefused(c)
      PROVE  Locks'
  BY <1>16 DEF StartRefused, Begin, Return, Goto
<1>17. ASSUME NEW c \in Captures, StartCalled(c)
      PROVE  Locks'
  BY <1>17 DEF StartCalled, Begin, Goto
<1>18. ASSUME NEW c \in Captures, PollCalled(c)
      PROVE  Locks'
  BY <1>18 DEF PollCalled, Begin, Goto
<1>19. ASSUME NEW c \in Captures, StartBlocked(c)
      PROVE  Locks'
  BY <1>19 DEF StartBlocked, Return, Goto
<1>20. ASSUME NEW c \in Captures, StartLock(c)
      PROVE  Locks'
  BY <1>20 DEF StartLock, Goto
<1>21. ASSUME NEW c \in Captures, StartReset(c)
      PROVE  Locks'
  BY <1>21 DEF StartReset, EmptyQueue, Goto
<1>22. ASSUME NEW c \in Captures, PoolExhausted(c)
      PROVE  Locks'
  BY <1>22 DEF PoolExhausted, PoolIsExhausted, Return, Goto
<1>23. ASSUME NEW c \in Captures, StartToken(c)
      PROVE  Locks'
  BY <1>23 DEF StartToken, PoolIsExhausted, TakeToken, Goto
<1>24. ASSUME NEW c \in Captures, RegisterFails(c)
      PROVE  Locks'
  BY <1>24 DEF RegisterFails, Return, Goto
<1>25. ASSUME NEW c \in Captures, Register(c)
      PROVE  Locks'
  BY <1>25 DEF Register, Goto
<1>26. ASSUME NEW c \in Captures, AttachLock(c)
      PROVE  Locks'
  BY <1>26 DEF AttachLock, GateLock, Goto
<1>27. ASSUME NEW c \in Captures, Attach(c)
      PROVE  Locks'
  BY <1>27 DEF Attach, GateOccupied, Return, Goto
<1>28. ASSUME NEW c \in Captures, DeviceStart(c)
      PROVE  Locks'
  BY <1>28 DEF DeviceStart, Return, Goto
<1>29. ASSUME NEW c \in Captures, DeviceStartFails(c)
      PROVE  Locks'
  BY <1>29 DEF DeviceStartFails, Goto
<1>30. ASSUME NEW c \in Captures, StopLock(c)
      PROVE  Locks'
  BY <1>30 DEF StopLock, Goto
<1>31. ASSUME NEW c \in Captures, DetachLock(c)
      PROVE  Locks'
  BY <1>31 DEF DetachLock, GateLock, Goto
<1>32. ASSUME NEW c \in Captures, Detach(c)
      PROVE  Locks'
  BY <1>32 DEF Detach, ShutGate, AfterDetach, AfterDevice, Goto
<1>33. ASSUME NEW c \in Captures, DeviceStop(c)
      PROVE  Locks'
  BY <1>33 DEF DeviceStop, AfterDevice, Goto
<1>34. ASSUME NEW c \in Captures, DeviceStopFails(c)
      PROVE  Locks'
  BY <1>34 DEF DeviceStopFails, AfterDevice, Failed, Goto
<1>35. ASSUME NEW c \in Captures, Unregister(c)
      PROVE  Locks'
  BY <1>35 DEF Unregister, Goto
<1>36. ASSUME NEW c \in Captures, UnregisterFails(c)
      PROVE  Locks'
  BY <1>36 DEF UnregisterFails, Failed, Goto
<1>37. ASSUME NEW c \in Captures, FindQuiesced(c)
      PROVE  Locks'
  BY <1>37 DEF FindQuiesced, Goto
<1>38. ASSUME NEW c \in Captures, FindBusy(c)
      PROVE  Locks'
  BY <1>38 DEF FindBusy, AfterAttempt, Goto
<1>39. ASSUME NEW c \in Captures, Settle(c)
      PROVE  Locks'
  BY <1>39 DEF Settle, CleanedUp, SettledStatus, Failed, Goto
<1>40. ASSUME NEW c \in Captures, DestroyRefused(c)
      PROVE  Locks'
  BY <1>40 DEF DestroyRefused, Failed, MayFree, Return, Goto
<1>41. ASSUME NEW c \in Captures, Free(c)
      PROVE  Locks'
  BY <1>41 DEF Free, MayFree, Goto
<1>42. ASSUME NEW c \in Captures, PollLock(c)
      PROVE  Locks'
  BY <1>42 DEF PollLock, Goto
<1>43. ASSUME NEW c \in Captures, Poll(c)
      PROVE  Locks'
  BY <1>43 DEF Poll, TakeFrame, Goto
<1>44. ASSUME NEW c \in Captures, NEW name \in {"stop", "destroy"},
             StopCalled(c, name)
      PROVE  Locks'
  BY <1>44 DEF StopCalled, Begin, Goto
<1> QED BY <1>1, <1>2, <1>3, <1>4, <1>5, <1>6, <1>7, <1>8, <1>9, <1>10, <1>11,
     <1>12, <1>13, <1>14, <1>15, <1>16, <1>17, <1>18, <1>19, <1>20, <1>21,
     <1>22, <1>23, <1>24, <1>25, <1>26, <1>27, <1>28, <1>29, <1>30, <1>31,
     <1>32, <1>33, <1>34, <1>35, <1>36, <1>37, <1>38, <1>39, <1>40, <1>41,
     <1>42, <1>43, <1>44
      DEF Next, CallbackStep, CallStep, ControlStep

\* The gate opens onto the active capture, and is shut before that changes.
LEMMA GateStep == IInv /\ [Next]_vars => Gate'
<1> SUFFICES ASSUME IInv, [Next]_vars
             PROVE  Gate'
  OBVIOUS
<1> USE BridgeAssumption DEF IInv, TypeInv, TypeOK, GlobalTypes, SessionTypes,
     Gate, Active
<1>1. ASSUME NEW t \in Threads, Deliver(t) \/ CallbackStep(t)
      PROVE  Gate'
  BY <1>1, CallbackFrame
<1>2. ASSUME NEW c \in Captures, Create(c)
      PROVE  Gate'
  BY <1>2 DEF Create, Return, Goto
<1>3. ASSUME NEW c \in Captures, StartToken(c)
      PROVE  Gate'
  BY <1>3 DEF StartToken, PoolIsExhausted, TakeToken, Goto
<1>4. ASSUME NEW c \in Captures, Register(c)
      PROVE  Gate'
  BY <1>4 DEF Register, Goto
<1>5. ASSUME NEW c \in Captures, Attach(c)
      PROVE  Gate'
  BY <1>5 DEF Attach, GateOccupied, Return, Goto, NoContext
<1>6. ASSUME NEW c \in Captures, Detach(c)
      PROVE  Gate'
  BY <1>6 DEF Detach, ShutGate, AfterDetach, AfterDevice, Goto
<1>7. ASSUME NEW c \in Captures, Settle(c)
      PROVE  Gate'
  BY <1>7 DEF Settle, CleanedUp, SettledStatus, Failed, Goto, Passed
<1>8. ASSUME NEW c \in Captures, NEW name \in {"stop", "destroy"},
             StopCalled(c, name)
      PROVE  UNCHANGED <<gActive, gCapture, gContext, context, accepting>>
  BY <1>8 DEF StopCalled, Begin
<1>9. ASSUME NEW c \in Captures,
             StartRefused(c) \/ StartCalled(c) \/ PollCalled(c)
             \/ StartBlocked(c) \/ StartLock(c) \/ StartReset(c)
             \/ PoolExhausted(c) \/ RegisterFails(c) \/ AttachLock(c)
             \/ DeviceStart(c) \/ DeviceStartFails(c) \/ StopLock(c)
             \/ DetachLock(c) \/ DeviceStop(c) \/ DeviceStopFails(c)
             \/ Unregister(c) \/ UnregisterFails(c) \/ FindQuiesced(c)
             \/ FindBusy(c) \/ DestroyRefused(c) \/ Free(c)
             \/ PollLock(c) \/ Poll(c)
      PROVE  UNCHANGED <<gActive, gCapture, gContext, context, accepting>>
  BY <1>9 DEF StartRefused, Begin, Return, Goto, StartCalled, PollCalled,
       StartBlocked, StartLock, StartReset, PoolExhausted, RegisterFails,
       AttachLock, GateLock, DeviceStart, DeviceStartFails, StopLock,
       DetachLock, DeviceStop, DeviceStopFails, Unregister, UnregisterFails,
       FindQuiesced, FindBusy, DestroyRefused, Free, PollLock, Poll
<1> QED BY <1>1, <1>2, <1>3, <1>4, <1>5, <1>6, <1>7, <1>8, <1>9
      DEF Next, CallStep, ControlStep

\* Only one capture at a time is past its start and before its cleanup.
LEMMA ActiveStep == IInv /\ [Next]_vars => Active'
<1> SUFFICES ASSUME IInv, [Next]_vars
             PROVE  Active'
  OBVIOUS
<1> USE BridgeAssumption DEF IInv, TypeInv, TypeOK, GlobalTypes, SessionTypes,
     ControlTypes, Active, Locks, Passed, HoldsActive, HoldsGate, AtStart,
     AtDetach
<1>1. ASSUME NEW t \in Threads, Deliver(t) \/ CallbackStep(t)
      PROVE  Active'
  BY <1>1, CallbackFrame
<1>2. ASSUME NEW c \in Captures, Create(c)
      PROVE  Active'
  BY <1>2 DEF Create, Return, Goto
<1>3. ASSUME NEW c \in Captures, StartRefused(c)
      PROVE  Active'
  BY <1>3 DEF StartRefused, Begin, Return, Goto
<1>4. ASSUME NEW c \in Captures, StartCalled(c)
      PROVE  Active'
  BY <1>4 DEF StartCalled, Begin, Goto
<1>5. ASSUME NEW c \in Captures, PollCalled(c)
      PROVE  Active'
  BY <1>5 DEF PollCalled, Begin, Goto
<1>6. ASSUME NEW c \in Captures, StartBlocked(c)
      PROVE  Active'
  BY <1>6 DEF StartBlocked, Return, Goto
<1>7. ASSUME NEW c \in Captures, StartLock(c)
      PROVE  Active'
  BY <1>7 DEF StartLock, Goto, Gate
<1>8. ASSUME NEW c \in Captures, StartReset(c)
      PROVE  Active'
  BY <1>8 DEF StartReset, EmptyQueue, Goto
<1>9. ASSUME NEW c \in Captures, PoolExhausted(c)
      PROVE  Active'
  BY <1>9 DEF PoolExhausted, PoolIsExhausted, Return, Goto
<1>10. ASSUME NEW c \in Captures, StartToken(c)
      PROVE  Active'
  BY <1>10 DEF StartToken, PoolIsExhausted, TakeToken, Goto
<1>11. ASSUME NEW c \in Captures, RegisterFails(c)
      PROVE  Active'
  BY <1>11 DEF RegisterFails, Return, Goto
<1>12. ASSUME NEW c \in Captures, Register(c)
      PROVE  Active'
  BY <1>12 DEF Register, Goto, Gate, ControlBounds, Contexts, NoContext
<1>13. ASSUME NEW c \in Captures, AttachLock(c)
      PROVE  Active'
  BY <1>13 DEF AttachLock, GateLock, Goto
<1>14. ASSUME NEW c \in Captures, Attach(c)
      PROVE  Active'
  BY <1>14 DEF Attach, GateOccupied, Return, Goto, Gate
<1>15. ASSUME NEW c \in Captures, DeviceStart(c)
      PROVE  Active'
  BY <1>15 DEF DeviceStart, Return, Goto
<1>16. ASSUME NEW c \in Captures, DeviceStartFails(c)
      PROVE  Active'
  BY <1>16 DEF DeviceStartFails, Goto
<1>17. ASSUME NEW c \in Captures, StopLock(c)
      PROVE  Active'
  BY <1>17 DEF StopLock, Goto
<1>18. ASSUME NEW c \in Captures, DetachLock(c)
      PROVE  Active'
  BY <1>18 DEF DetachLock, GateLock, Goto
<1>19. ASSUME NEW c \in Captures, Detach(c)
      PROVE  Active'
  BY <1>19 DEF Detach, ShutGate, AfterDetach, AfterDevice, Goto
<1>20. ASSUME NEW c \in Captures, DeviceStop(c)
      PROVE  Active'
  BY <1>20 DEF DeviceStop, AfterDevice, Goto
<1>21. ASSUME NEW c \in Captures, DeviceStopFails(c)
      PROVE  Active'
  BY <1>21 DEF DeviceStopFails, AfterDevice, Failed, Goto
<1>22. ASSUME NEW c \in Captures, Unregister(c)
      PROVE  Active'
  BY <1>22 DEF Unregister, Goto
<1>23. ASSUME NEW c \in Captures, UnregisterFails(c)
      PROVE  Active'
  BY <1>23 DEF UnregisterFails, Failed, Goto
<1>24. ASSUME NEW c \in Captures, FindQuiesced(c)
      PROVE  Active'
  BY <1>24 DEF FindQuiesced, Goto
<1>25. ASSUME NEW c \in Captures, FindBusy(c)
      PROVE  Active'
  BY <1>25 DEF FindBusy, AfterAttempt, Goto
<1>26. ASSUME NEW c \in Captures, Settle(c)
      PROVE  Active'
  BY <1>26 DEF Settle, CleanedUp, SettledStatus, Failed, Goto, Gate
<1>27. ASSUME NEW c \in Captures, DestroyRefused(c)
      PROVE  Active'
  BY <1>27 DEF DestroyRefused, Failed, MayFree, Return, Goto
<1>28. ASSUME NEW c \in Captures, Free(c)
      PROVE  Active'
  BY <1>28 DEF Free, MayFree, Goto
<1>29. ASSUME NEW c \in Captures, PollLock(c)
      PROVE  Active'
  BY <1>29 DEF PollLock, Goto
<1>30. ASSUME NEW c \in Captures, Poll(c)
      PROVE  Active'
  BY <1>30 DEF Poll, TakeFrame, Goto
<1>31. ASSUME NEW c \in Captures, NEW name \in {"stop", "destroy"},
             StopCalled(c, name)
      PROVE  Active'
  BY <1>31 DEF StopCalled, Begin, Goto
<1> QED BY <1>1, <1>2, <1>3, <1>4, <1>5, <1>6, <1>7, <1>8, <1>9, <1>10, <1>11,
     <1>12, <1>13, <1>14, <1>15, <1>16, <1>17, <1>18, <1>19, <1>20, <1>21,
     <1>22, <1>23, <1>24, <1>25, <1>26, <1>27, <1>28, <1>29, <1>30, <1>31
      DEF Next, CallStep, ControlStep

\* A callback is admitted by the token of the active session, and that session
\* lasts until the callback has left.
LEMMA CallbacksStep == IInv /\ [Next]_vars => Callbacks'
<1> SUFFICES ASSUME IInv, [Next]_vars
             PROVE  Callbacks'
  OBVIOUS
<1> USE BridgeAssumption DEF IInv, TypeInv, TypeOK, ThreadTypes, ThreadBounds,
     Callbacks, Admitted, Numbered
<1>1. ASSUME NEW t \in Threads, Deliver(t)
      PROVE  Callbacks'
  BY <1>1 DEF Deliver
<1>2. ASSUME NEW t \in Threads, TryGate(t)
      PROVE  Callbacks'
  BY <1>2 DEF TryGate
<1>3. ASSUME NEW t \in Threads, GateBusy(t)
      PROVE  Callbacks'
  BY <1>3 DEF GateBusy
<1>4. ASSUME NEW t \in Threads, Admit(t)
      PROVE  Callbacks'
  BY <1>4 DEF Admit, GateAdmits, Gate, GlobalTypes
<1>5. ASSUME NEW t \in Threads, Refuse(t)
      PROVE  Callbacks'
  BY <1>5 DEF Refuse, GateAdmits
<1>6. ASSUME NEW t \in Threads, Reject(t)
      PROVE  Callbacks'
  BY <1>6 DEF Reject
<1>7. ASSUME NEW t \in Threads, FindAccepting(t)
      PROVE  Callbacks'
  BY <1>7 DEF FindAccepting, InCapture
<1>8. ASSUME NEW t \in Threads, FindClosed(t)
      PROVE  Callbacks'
  BY <1>8 DEF FindClosed, InCapture
<1>9. ASSUME NEW t \in Threads, Number(t)
      PROVE  Callbacks'
  BY <1>9 DEF Number, InCapture
<1>10. ASSUME NEW t \in Threads, TryQueue(t)
      PROVE  Callbacks'
  BY <1>10 DEF TryQueue, InCapture
<1>11. ASSUME NEW t \in Threads, QueueBusy(t)
      PROVE  Callbacks'
  BY <1>11 DEF QueueBusy, InCapture
<1>12. ASSUME NEW t \in Threads, DropFrame(t)
      PROVE  Callbacks'
  BY <1>12 DEF DropFrame, InCapture
<1>13. ASSUME NEW t \in Threads, Enqueue(t)
      PROVE  Callbacks'
  BY <1>13 DEF Enqueue, InCapture
<1>14. ASSUME NEW t \in Threads, Finish(t)
      PROVE  Callbacks'
  BY <1>14 DEF Finish, InCapture
<1>15. ASSUME NEW c \in Captures, Create(c)
      PROVE  Callbacks'
  BY <1>15 DEF Create, Return, Goto, Active, SessionTypes
<1>16. ASSUME NEW c \in Captures, StartToken(c)
      PROVE  Callbacks'
  BY <1>16 DEF StartToken, PoolIsExhausted, TakeToken, Goto, Active,
       SessionTypes
<1>17. ASSUME NEW c \in Captures, Register(c)
      PROVE  Callbacks'
  BY <1>17 DEF Register, Goto, Active
<1>18. ASSUME NEW c \in Captures, Attach(c)
      PROVE  Callbacks'
  BY <1>18 DEF Attach, GateOccupied, Return, Goto, Active, Gate
<1>19. ASSUME NEW c \in Captures, Settle(c)
      PROVE  Callbacks'
  BY <1>19 DEF Settle, CleanedUp, SettledStatus, Failed, Goto, Quiet, Inside
<1>20. ASSUME NEW c \in Captures, NEW name \in {"stop", "destroy"},
             StopCalled(c, name)
      PROVE  UNCHANGED <<gActive, context, cb, refcon, target>>
  BY <1>20 DEF StopCalled, Begin
<1>21. ASSUME NEW c \in Captures,
             StartRefused(c) \/ StartCalled(c) \/ PollCalled(c)
             \/ StartBlocked(c) \/ StartLock(c) \/ StartReset(c)
             \/ PoolExhausted(c) \/ RegisterFails(c) \/ AttachLock(c)
             \/ DeviceStart(c) \/ DeviceStartFails(c) \/ StopLock(c)
             \/ DetachLock(c) \/ Detach(c) \/ DeviceStop(c)
             \/ DeviceStopFails(c) \/ Unregister(c) \/ UnregisterFails(c)
             \/ FindQuiesced(c) \/ FindBusy(c) \/ DestroyRefused(c)
             \/ Free(c) \/ PollLock(c) \/ Poll(c)
      PROVE  UNCHANGED <<gActive, context, cb, refcon, target>>
  BY <1>21 DEF StartRefused, Begin, Return, Goto, StartCalled, PollCalled,
       StartBlocked, StartLock, StartReset, PoolExhausted, RegisterFails,
       AttachLock, GateLock, DeviceStart, DeviceStartFails, StopLock,
       DetachLock, Detach, DeviceStop, DeviceStopFails, Unregister,
       UnregisterFails, FindQuiesced, FindBusy, DestroyRefused, Free,
       PollLock, Poll
<1> QED BY <1>1, <1>2, <1>3, <1>4, <1>5, <1>6, <1>7, <1>8, <1>9, <1>10, <1>11,
     <1>12, <1>13, <1>14, <1>15, <1>16, <1>17, <1>18, <1>19, <1>20, <1>21
      DEF Next, CallbackStep, CallStep, ControlStep

\* Nobody enters a capture that is past its detach.
LEMMA QuietStep == IInv /\ [Next]_vars => Quiet'
<1> SUFFICES ASSUME IInv, [Next]_vars
             PROVE  Quiet'
  OBVIOUS
<1> USE DEF IInv, TypeInv, TypeOK, ThreadTypes, ThreadBounds, ControlTypes,
     Quiet, Inside, Admitted, Numbered
<1>1. ASSUME NEW t \in Threads, Deliver(t)
      PROVE  Quiet'
  BY <1>1 DEF Deliver
<1>2. ASSUME NEW t \in Threads, TryGate(t)
      PROVE  Quiet'
  BY <1>2 DEF TryGate
<1>3. ASSUME NEW t \in Threads, GateBusy(t)
      PROVE  Quiet'
  BY <1>3 DEF GateBusy
<1>4. ASSUME NEW t \in Threads, Admit(t)
      PROVE  Quiet'
  BY <1>4 DEF Admit, GateAdmits, Gate, Active, Passed, GlobalTypes
<1>5. ASSUME NEW t \in Threads, Refuse(t)
      PROVE  Quiet'
  BY <1>5 DEF Refuse, GateAdmits
<1>6. ASSUME NEW t \in Threads, Reject(t)
      PROVE  Quiet'
  BY <1>6 DEF Reject
<1>7. ASSUME NEW t \in Threads, FindAccepting(t)
      PROVE  Quiet'
  BY <1>7 DEF FindAccepting, InCapture
<1>8. ASSUME NEW t \in Threads, FindClosed(t)
      PROVE  Quiet'
  BY <1>8 DEF FindClosed, InCapture
<1>9. ASSUME NEW t \in Threads, Number(t)
      PROVE  Quiet'
  BY <1>9 DEF Number, InCapture
<1>10. ASSUME NEW t \in Threads, TryQueue(t)
      PROVE  Quiet'
  BY <1>10 DEF TryQueue, InCapture
<1>11. ASSUME NEW t \in Threads, QueueBusy(t)
      PROVE  Quiet'
  BY <1>11 DEF QueueBusy, InCapture
<1>12. ASSUME NEW t \in Threads, DropFrame(t)
      PROVE  Quiet'
  BY <1>12 DEF DropFrame, InCapture
<1>13. ASSUME NEW t \in Threads, Enqueue(t)
      PROVE  Quiet'
  BY <1>13 DEF Enqueue, InCapture
<1>14. ASSUME NEW t \in Threads, Finish(t)
      PROVE  Quiet'
  BY <1>14 DEF Finish, InCapture
<1>15. ASSUME NEW c \in Captures, Create(c)
      PROVE  Quiet'
  BY <1>15 DEF Create, Return, Goto
<1>16. ASSUME NEW c \in Captures, StartRefused(c)
      PROVE  Quiet'
  BY <1>16 DEF StartRefused, Begin, Return, Goto
<1>17. ASSUME NEW c \in Captures, StartCalled(c)
      PROVE  Quiet'
  BY <1>17 DEF StartCalled, Begin, Goto
<1>18. ASSUME NEW c \in Captures, PollCalled(c)
      PROVE  Quiet'
  BY <1>18 DEF PollCalled, Begin, Goto
<1>19. ASSUME NEW c \in Captures, StartBlocked(c)
      PROVE  Quiet'
  BY <1>19 DEF StartBlocked, Return, Goto
<1>20. ASSUME NEW c \in Captures, StartLock(c)
      PROVE  Quiet'
  BY <1>20 DEF StartLock, Goto
<1>21. ASSUME NEW c \in Captures, StartReset(c)
      PROVE  Quiet'
  BY <1>21 DEF StartReset, EmptyQueue, Goto
<1>22. ASSUME NEW c \in Captures, PoolExhausted(c)
      PROVE  Quiet'
  BY <1>22 DEF PoolExhausted, PoolIsExhausted, Return, Goto
<1>23. ASSUME NEW c \in Captures, StartToken(c)
      PROVE  Quiet'
  BY <1>23 DEF StartToken, PoolIsExhausted, TakeToken, Goto
<1>24. ASSUME NEW c \in Captures, RegisterFails(c)
      PROVE  Quiet'
  BY <1>24 DEF RegisterFails, Return, Goto
<1>25. ASSUME NEW c \in Captures, Register(c)
      PROVE  Quiet'
  BY <1>25 DEF Register, Goto
<1>26. ASSUME NEW c \in Captures, AttachLock(c)
      PROVE  Quiet'
  BY <1>26 DEF AttachLock, GateLock, Goto
<1>27. ASSUME NEW c \in Captures, Attach(c)
      PROVE  Quiet'
  BY <1>27 DEF Attach, GateOccupied, Return, Goto
<1>28. ASSUME NEW c \in Captures, DeviceStart(c)
      PROVE  Quiet'
  BY <1>28 DEF DeviceStart, Return, Goto
<1>29. ASSUME NEW c \in Captures, DeviceStartFails(c)
      PROVE  Quiet'
  BY <1>29 DEF DeviceStartFails, Goto
<1>30. ASSUME NEW c \in Captures, StopLock(c)
      PROVE  Quiet'
  BY <1>30 DEF StopLock, Goto
<1>31. ASSUME NEW c \in Captures, DetachLock(c)
      PROVE  Quiet'
  BY <1>31 DEF DetachLock, GateLock, Goto
<1>32. ASSUME NEW c \in Captures, Detach(c)
      PROVE  Quiet'
  BY <1>32 DEF Detach, ShutGate, AfterDetach, AfterDevice, Goto
<1>33. ASSUME NEW c \in Captures, DeviceStop(c)
      PROVE  Quiet'
  BY <1>33 DEF DeviceStop, AfterDevice, Goto
<1>34. ASSUME NEW c \in Captures, DeviceStopFails(c)
      PROVE  Quiet'
  BY <1>34 DEF DeviceStopFails, AfterDevice, Failed, Goto
<1>35. ASSUME NEW c \in Captures, Unregister(c)
      PROVE  Quiet'
  BY <1>35 DEF Unregister, Goto
<1>36. ASSUME NEW c \in Captures, UnregisterFails(c)
      PROVE  Quiet'
  BY <1>36 DEF UnregisterFails, Failed, Goto
<1>37. ASSUME NEW c \in Captures, FindQuiesced(c)
      PROVE  Quiet'
  <2>1. Inside(c) = {}
    <3>1. IsFiniteSet(Inside(c))
      BY BridgeAssumption, FS_Subset DEF Inside
    <3>2. Cardinality(Inside(c)) = 0
      BY <1>37 DEF FindQuiesced, InFlightIsExact
    <3> QED
      BY <3>1, <3>2, FS_EmptySet
  <2> QED
    BY <1>37, <2>1 DEF FindQuiesced, Goto
<1>38. ASSUME NEW c \in Captures, FindBusy(c)
      PROVE  Quiet'
  BY <1>38 DEF FindBusy, AfterAttempt, Goto
<1>39. ASSUME NEW c \in Captures, Settle(c)
      PROVE  Quiet'
  BY <1>39 DEF Settle, CleanedUp, SettledStatus, Failed, Goto
<1>40. ASSUME NEW c \in Captures, DestroyRefused(c)
      PROVE  Quiet'
  BY <1>40 DEF DestroyRefused, Failed, MayFree, Return, Goto
<1>41. ASSUME NEW c \in Captures, Free(c)
      PROVE  Quiet'
  BY <1>41 DEF Free, MayFree, Goto
<1>42. ASSUME NEW c \in Captures, PollLock(c)
      PROVE  Quiet'
  BY <1>42 DEF PollLock, Goto
<1>43. ASSUME NEW c \in Captures, Poll(c)
      PROVE  Quiet'
  BY <1>43 DEF Poll, TakeFrame, Goto
<1>44. ASSUME NEW c \in Captures, NEW name \in {"stop", "destroy"},
             StopCalled(c, name)
      PROVE  Quiet'
  BY <1>44 DEF StopCalled, Begin, Goto
<1> QED BY <1>1, <1>2, <1>3, <1>4, <1>5, <1>6, <1>7, <1>8, <1>9, <1>10, <1>11,
     <1>12, <1>13, <1>14, <1>15, <1>16, <1>17, <1>18, <1>19, <1>20, <1>21,
     <1>22, <1>23, <1>24, <1>25, <1>26, <1>27, <1>28, <1>29, <1>30, <1>31,
     <1>32, <1>33, <1>34, <1>35, <1>36, <1>37, <1>38, <1>39, <1>40, <1>41,
     <1>42, <1>43, <1>44
      DEF Next, CallbackStep, CallStep, ControlStep

\* A start takes a token that no capture has had, and no registration either.
LEMMA TokensStep == IInv /\ [Next]_vars => Tokens'
<1> SUFFICES ASSUME IInv, [Next]_vars
             PROVE  Tokens'
  OBVIOUS
<1> USE BridgeAssumption DEF IInv, TypeInv, TypeOK, GlobalTypes, SessionTypes,
     ControlTypes, Tokens, Contexts, NoContext
<1>1. ASSUME NEW t \in Threads, Deliver(t) \/ CallbackStep(t)
      PROVE  Tokens'
  BY <1>1, CallbackFrame DEF controlVars
<1>2. ASSUME NEW c \in Captures, Create(c)
      PROVE  Tokens'
  BY <1>2 DEF Create, Return, Goto
<1>3. ASSUME NEW c \in Captures, StartToken(c)
      PROVE  Tokens'
  <2>1. gNextContext + 1 \notin refcons
    OBVIOUS
  <2> QED
    BY <1>3, <2>1 DEF StartToken, PoolIsExhausted, TakeToken, Goto
<1>4. ASSUME NEW c \in Captures, Register(c)
      PROVE  Tokens'
  BY <1>4 DEF Register, Goto
<1>5. ASSUME NEW c \in Captures, NEW name \in {"stop", "destroy"},
             StopCalled(c, name)
      PROVE  Tokens'
  BY <1>5 DEF StopCalled, Begin, Goto
<1>6. ASSUME UNCHANGED <<context, gNextContext, refcons>>,
             NEW c \in Captures, NEW place, place # "start_register",
             Goto(c, place)
      PROVE  Tokens'
  BY <1>6 DEF Goto
<1>7. ASSUME NEW c \in Captures,
             StartRefused(c) \/ StartCalled(c) \/ PollCalled(c)
             \/ StartBlocked(c) \/ StartLock(c) \/ StartReset(c)
             \/ PoolExhausted(c) \/ RegisterFails(c) \/ AttachLock(c)
             \/ Attach(c) \/ DeviceStart(c) \/ DeviceStartFails(c)
             \/ StopLock(c) \/ DetachLock(c) \/ Detach(c) \/ DeviceStop(c)
             \/ DeviceStopFails(c) \/ Unregister(c) \/ UnregisterFails(c)
             \/ FindQuiesced(c) \/ FindBusy(c) \/ Settle(c)
             \/ DestroyRefused(c) \/ Free(c) \/ PollLock(c) \/ Poll(c)
      PROVE  Tokens'
  <2>1. UNCHANGED <<context, gNextContext, refcons>>
    BY <1>7 DEF StartRefused, Begin, StartCalled, PollCalled, StartBlocked,
         StartLock, StartReset, PoolExhausted, RegisterFails, AttachLock,
         GateLock, Attach, DeviceStart, DeviceStartFails, StopLock,
         DetachLock, Detach, DeviceStop, DeviceStopFails, Unregister,
         UnregisterFails, FindQuiesced, FindBusy, Settle, DestroyRefused,
         Free, PollLock, Poll
  <2>2. \E place : place # "start_register" /\ Goto(c, place)
    <3>1. CASE \/ StartRefused(c) \/ StartCalled(c) \/ PollCalled(c)
               \/ StartBlocked(c) \/ StartLock(c) \/ StartReset(c)
               \/ PoolExhausted(c) \/ RegisterFails(c) \/ AttachLock(c)
      BY <3>1 DEF StartRefused, Return, StartCalled, PollCalled,
           StartBlocked, StartLock, StartReset, PoolExhausted, RegisterFails,
           AttachLock, GateLock
    <3>2. CASE Attach(c)
      BY <3>2 DEF Attach, Return
    <3>3. CASE DeviceStart(c) \/ DeviceStartFails(c) \/ StopLock(c)
               \/ DetachLock(c) \/ Unregister(c) \/ UnregisterFails(c)
               \/ FindQuiesced(c) \/ DestroyRefused(c) \/ Free(c)
               \/ PollLock(c) \/ Poll(c)
      BY <3>3 DEF DeviceStart, DeviceStartFails, StopLock, DetachLock,
           GateLock, Unregister, UnregisterFails, FindQuiesced,
           DestroyRefused, Free, PollLock, Poll, Return
    <3>4. CASE Detach(c)
      BY <3>4 DEF Detach, AfterDetach, AfterDevice
    <3>5. CASE DeviceStop(c) \/ DeviceStopFails(c)
      BY <3>5 DEF DeviceStop, DeviceStopFails, AfterDevice
    <3>6. CASE FindBusy(c)
      BY <3>6 DEF FindBusy, AfterAttempt
    <3>7. CASE Settle(c)
      BY <3>7 DEF Settle
    <3> QED
      BY <1>7, <3>1, <3>2, <3>3, <3>4, <3>5, <3>6, <3>7
  <2> QED
    BY <1>6, <2>1, <2>2
<1>8. ASSUME UNCHANGED vars
      PROVE  Tokens'
  BY <1>8 DEF vars, globalVars, sessionVars, controlVars, worldVars
<1> QED BY <1>1, <1>2, <1>3, <1>4, <1>5, <1>7, <1>8
      DEF Next, CallStep, ControlStep

\* A call does not forget what it was, nor a failure it has had.
LEMMA ReturnsStep == IInv /\ [Next]_vars => Returns'
<1> SUFFICES ASSUME IInv, [Next]_vars
             PROVE  Returns'
  OBVIOUS
<1> USE DEF IInv, TypeInv, TypeOK, SessionTypes, ControlTypes, Statuses,
     Returns, AtStart, AtDetach
<1>1. ASSUME NEW t \in Threads, Deliver(t) \/ CallbackStep(t)
      PROVE  Returns'
  BY <1>1, CallbackFrame
<1>2. ASSUME NEW c \in Captures, Create(c)
      PROVE  Returns'
  BY <1>2 DEF Create, Return, Goto
<1>3. ASSUME NEW c \in Captures, StartRefused(c)
      PROVE  Returns'
  BY <1>3 DEF StartRefused, Begin, Return, Goto
<1>4. ASSUME NEW c \in Captures, StartCalled(c)
      PROVE  Returns'
  BY <1>4 DEF StartCalled, Begin, Goto
<1>5. ASSUME NEW c \in Captures, PollCalled(c)
      PROVE  Returns'
  BY <1>5 DEF PollCalled, Begin, Goto
<1>6. ASSUME NEW c \in Captures, StartBlocked(c)
      PROVE  Returns'
  BY <1>6 DEF StartBlocked, Return, Goto
<1>7. ASSUME NEW c \in Captures, StartLock(c)
      PROVE  Returns'
  BY <1>7 DEF StartLock, Goto
<1>8. ASSUME NEW c \in Captures, StartReset(c)
      PROVE  Returns'
  BY <1>8 DEF StartReset, EmptyQueue, Goto
<1>9. ASSUME NEW c \in Captures, PoolExhausted(c)
      PROVE  Returns'
  BY <1>9 DEF PoolExhausted, PoolIsExhausted, Return, Goto
<1>10. ASSUME NEW c \in Captures, StartToken(c)
      PROVE  Returns'
  BY <1>10 DEF StartToken, PoolIsExhausted, TakeToken, Goto
<1>11. ASSUME NEW c \in Captures, RegisterFails(c)
      PROVE  Returns'
  BY <1>11 DEF RegisterFails, Return, Goto
<1>12. ASSUME NEW c \in Captures, Register(c)
      PROVE  Returns'
  BY <1>12 DEF Register, Goto
<1>13. ASSUME NEW c \in Captures, AttachLock(c)
      PROVE  Returns'
  BY <1>13 DEF AttachLock, GateLock, Goto
<1>14. ASSUME NEW c \in Captures, Attach(c)
      PROVE  Returns'
  BY <1>14 DEF Attach, GateOccupied, Return, Goto
<1>15. ASSUME NEW c \in Captures, DeviceStart(c)
      PROVE  Returns'
  BY <1>15 DEF DeviceStart, Return, Goto
<1>16. ASSUME NEW c \in Captures, DeviceStartFails(c)
      PROVE  Returns'
  BY <1>16 DEF DeviceStartFails, Goto
<1>17. ASSUME NEW c \in Captures, StopLock(c)
      PROVE  Returns'
  BY <1>17 DEF StopLock, Goto
<1>18. ASSUME NEW c \in Captures, DetachLock(c)
      PROVE  Returns'
  BY <1>18 DEF DetachLock, GateLock, Goto
<1>19. ASSUME NEW c \in Captures, Detach(c)
      PROVE  Returns'
  BY <1>19 DEF Detach, ShutGate, AfterDetach, AfterDevice, Goto
<1>20. ASSUME NEW c \in Captures, DeviceStop(c)
      PROVE  Returns'
  BY <1>20 DEF DeviceStop, AfterDevice, Goto
<1>21. ASSUME NEW c \in Captures, DeviceStopFails(c)
      PROVE  Returns'
  BY <1>21 DEF DeviceStopFails, AfterDevice, Failed, Goto
<1>22. ASSUME NEW c \in Captures, Unregister(c)
      PROVE  Returns'
  BY <1>22 DEF Unregister, Goto
<1>23. ASSUME NEW c \in Captures, UnregisterFails(c)
      PROVE  Returns'
  BY <1>23 DEF UnregisterFails, Failed, Goto
<1>24. ASSUME NEW c \in Captures, FindQuiesced(c)
      PROVE  Returns'
  BY <1>24 DEF FindQuiesced, Goto
<1>25. ASSUME NEW c \in Captures, FindBusy(c)
      PROVE  Returns'
  BY <1>25 DEF FindBusy, AfterAttempt, Goto
<1>26. ASSUME NEW c \in Captures, Settle(c)
      PROVE  Returns'
  BY <1>26 DEF Settle, CleanedUp, SettledStatus, Failed, Goto
<1>27. ASSUME NEW c \in Captures, DestroyRefused(c)
      PROVE  Returns'
  BY <1>27 DEF DestroyRefused, Failed, MayFree, Return, Goto
<1>28. ASSUME NEW c \in Captures, Free(c)
      PROVE  Returns'
  BY <1>28 DEF Free, MayFree, Goto
<1>29. ASSUME NEW c \in Captures, PollLock(c)
      PROVE  Returns'
  BY <1>29 DEF PollLock, Goto
<1>30. ASSUME NEW c \in Captures, Poll(c)
      PROVE  Returns'
  BY <1>30 DEF Poll, TakeFrame, Goto
<1>31. ASSUME NEW c \in Captures, NEW name \in {"stop", "destroy"},
             StopCalled(c, name)
      PROVE  Returns'
  BY <1>31 DEF StopCalled, Begin, Goto
<1> QED BY <1>1, <1>2, <1>3, <1>4, <1>5, <1>6, <1>7, <1>8, <1>9, <1>10, <1>11,
     <1>12, <1>13, <1>14, <1>15, <1>16, <1>17, <1>18, <1>19, <1>20, <1>21,
     <1>22, <1>23, <1>24, <1>25, <1>26, <1>27, <1>28, <1>29, <1>30, <1>31
      DEF Next, CallStep, ControlStep

\* OK is returned only for a session that is fully open or fully closed, and
\* nobody else changes that.
LEMMA StatusStep == IInv /\ [Next]_vars => Promised'
<1> SUFFICES ASSUME IInv, [Next]_vars
             PROVE  Promised'
  OBVIOUS
<1> USE BridgeAssumption DEF IInv, TypeInv, TypeOK, GlobalTypes, SessionTypes,
     ControlTypes, Promised, Returns, Active, Gate
<1>1. ASSUME NEW t \in Threads, Deliver(t) \/ CallbackStep(t)
      PROVE  Promised'
  BY <1>1, CallbackFrame
<1>2. ASSUME NEW c \in Captures, Create(c)
      PROVE  Promised'
  BY <1>2 DEF Create, Return, Goto
<1>3. ASSUME NEW c \in Captures, StartRefused(c)
      PROVE  Promised'
  BY <1>3 DEF StartRefused, Begin, Return, Goto
<1>4. ASSUME NEW c \in Captures, StartCalled(c)
      PROVE  Promised'
  BY <1>4 DEF StartCalled, Begin, Goto
<1>5. ASSUME NEW c \in Captures, PollCalled(c)
      PROVE  Promised'
  BY <1>5 DEF PollCalled, Begin, Goto
<1>6. ASSUME NEW c \in Captures, StartBlocked(c)
      PROVE  Promised'
  BY <1>6 DEF StartBlocked, Return, Goto
<1>7. ASSUME NEW c \in Captures, StartLock(c)
      PROVE  Promised'
  BY <1>7 DEF StartLock, Goto
<1>8. ASSUME NEW c \in Captures, StartReset(c)
      PROVE  Promised'
  BY <1>8 DEF StartReset, EmptyQueue, Goto
<1>9. ASSUME NEW c \in Captures, PoolExhausted(c)
      PROVE  Promised'
  BY <1>9 DEF PoolExhausted, PoolIsExhausted, Return, Goto
<1>10. ASSUME NEW c \in Captures, StartToken(c)
      PROVE  Promised'
  BY <1>10 DEF StartToken, PoolIsExhausted, TakeToken, Goto
<1>11. ASSUME NEW c \in Captures, RegisterFails(c)
      PROVE  Promised'
  BY <1>11 DEF RegisterFails, Return, Goto
<1>12. ASSUME NEW c \in Captures, Register(c)
      PROVE  Promised'
  BY <1>12 DEF Register, Goto
<1>13. ASSUME NEW c \in Captures, AttachLock(c)
      PROVE  Promised'
  BY <1>13 DEF AttachLock, GateLock, Goto
<1>14. ASSUME NEW c \in Captures, Attach(c)
      PROVE  Promised'
  BY <1>14 DEF Attach, GateOccupied, Return, Goto
<1>15. ASSUME NEW c \in Captures, DeviceStart(c)
      PROVE  Promised'
  BY <1>15 DEF DeviceStart, Return, Goto, AtStart
<1>16. ASSUME NEW c \in Captures, DeviceStartFails(c)
      PROVE  Promised'
  BY <1>16 DEF DeviceStartFails, Goto
<1>17. ASSUME NEW c \in Captures, StopLock(c)
      PROVE  Promised'
  BY <1>17 DEF StopLock, Goto
<1>18. ASSUME NEW c \in Captures, DetachLock(c)
      PROVE  Promised'
  BY <1>18 DEF DetachLock, GateLock, Goto
<1>19. ASSUME NEW c \in Captures, Detach(c)
      PROVE  Promised'
  BY <1>19 DEF Detach, ShutGate, AfterDetach, AfterDevice, Goto
<1>20. ASSUME NEW c \in Captures, DeviceStop(c)
      PROVE  Promised'
  BY <1>20 DEF DeviceStop, AfterDevice, Goto
<1>21. ASSUME NEW c \in Captures, DeviceStopFails(c)
      PROVE  Promised'
  BY <1>21 DEF DeviceStopFails, AfterDevice, Failed, Goto
<1>22. ASSUME NEW c \in Captures, Unregister(c)
      PROVE  Promised'
  BY <1>22 DEF Unregister, Goto
<1>23. ASSUME NEW c \in Captures, UnregisterFails(c)
      PROVE  Promised'
  BY <1>23 DEF UnregisterFails, Failed, Goto
<1>24. ASSUME NEW c \in Captures, FindQuiesced(c)
      PROVE  Promised'
  BY <1>24 DEF FindQuiesced, Goto
<1>25. ASSUME NEW c \in Captures, FindBusy(c)
      PROVE  Promised'
  BY <1>25 DEF FindBusy, AfterAttempt, Goto
<1>26. ASSUME NEW c \in Captures, Settle(c)
      PROVE  Promised'
  BY <1>26 DEF Settle, CleanedUp, SettledStatus, Failed, Goto, AtDetach
<1>27. ASSUME NEW c \in Captures, DestroyRefused(c)
      PROVE  Promised'
  BY <1>27 DEF DestroyRefused, Failed, MayFree, Return, Goto
<1>28. ASSUME NEW c \in Captures, Free(c)
      PROVE  Promised'
  BY <1>28 DEF Free, MayFree, Goto
<1>29. ASSUME NEW c \in Captures, PollLock(c)
      PROVE  Promised'
  BY <1>29 DEF PollLock, Goto
<1>30. ASSUME NEW c \in Captures, Poll(c)
      PROVE  Promised'
  BY <1>30 DEF Poll, TakeFrame, Goto
<1>31. ASSUME NEW c \in Captures, NEW name \in {"stop", "destroy"},
             StopCalled(c, name)
      PROVE  Promised'
  BY <1>31 DEF StopCalled, Begin, Goto
<1> QED BY <1>1, <1>2, <1>3, <1>4, <1>5, <1>6, <1>7, <1>8, <1>9, <1>10, <1>11,
     <1>12, <1>13, <1>14, <1>15, <1>16, <1>17, <1>18, <1>19, <1>20, <1>21,
     <1>22, <1>23, <1>24, <1>25, <1>26, <1>27, <1>28, <1>29, <1>30, <1>31
      DEF Next, CallStep, ControlStep

\* in_flight_callback_count follows the callbacks in and out.
LEMMA InFlightStep == IInv /\ [Next]_vars => InFlightIsExact'
<1> SUFFICES ASSUME IInv, [Next]_vars
             PROVE  InFlightIsExact'
  OBVIOUS
<1> USE DEF IInv, TypeInv, TypeOK, InFlightIsExact
<1>1. \A c \in Captures : IsFiniteSet(Inside(c))
  BY BridgeAssumption, FS_Subset DEF Inside
<1>2. ASSUME NEW t \in Threads, Admit(t)
      PROVE  InFlightIsExact'
  <2>1. PICK g \in Captures : g = gCapture
    BY <1>2 DEF Admit, GateAdmits, GlobalTypes
  <2>2. in_flight' = [in_flight EXCEPT ![g] = @ + 1]
    BY <1>2, <2>1 DEF Admit
  <2>3. t \notin Inside(g)
    BY <1>2 DEF Admit, Inside, Admitted, Numbered
  <2>4. Inside(g)' = Inside(g) \cup {t}
    BY <1>2, <2>1 DEF Admit, ThreadTypes, Inside, Admitted
  <2>5. \A c \in Captures \ {g} : Inside(c)' = Inside(c)
    BY <1>2, <2>1, <2>3 DEF Admit, ThreadTypes, Inside, Admitted, Numbered
  <2>6. Cardinality(Inside(g)') = Cardinality(Inside(g)) + 1
    BY <1>1, <2>3, <2>4, FS_AddElement
  <2>7. in_flight'[g] = Cardinality(Inside(g)')
    BY <2>2, <2>6 DEF SessionTypes
  <2>8. \A c \in Captures \ {g} : in_flight'[c] = Cardinality(Inside(c)')
    BY <2>2, <2>5 DEF SessionTypes
  <2> QED
    BY <2>7, <2>8
<1>3. ASSUME NEW t \in Threads, Finish(t)
      PROVE  InFlightIsExact'
  <2>1. PICK d \in Captures : d = target[t]
    BY <1>3 DEF Finish, ThreadBounds, Admitted
  <2>2. in_flight' = [in_flight EXCEPT ![d] = @ - 1]
    BY <1>3, <2>1 DEF Finish
  <2>3. t \in Inside(d)
    BY <1>3, <2>1 DEF Finish, Inside, Admitted
  <2>4. Inside(d)' = Inside(d) \ {t}
    BY <1>3 DEF Finish, ThreadTypes, Inside, Admitted, Numbered
  <2>5. \A c \in Captures \ {d} : Inside(c)' = Inside(c)
    BY <1>3, <2>1 DEF Finish, ThreadTypes, Inside, Admitted, Numbered
  <2>6. Cardinality(Inside(d)') = Cardinality(Inside(d)) - 1
    BY <1>1, <2>3, <2>4, FS_RemoveElement
  <2>7. in_flight'[d] = Cardinality(Inside(d)')
    BY <2>2, <2>6 DEF SessionTypes
  <2>8. \A c \in Captures \ {d} : in_flight'[c] = Cardinality(Inside(c)')
    BY <2>2, <2>5 DEF SessionTypes
  <2> QED
    BY <2>7, <2>8
<1>4. ASSUME NEW t \in Threads, Deliver(t)
      PROVE  /\ UNCHANGED in_flight
             /\ \A d \in Captures : Inside(d)' = Inside(d)
  BY <1>4 DEF Deliver, ThreadTypes, Inside, Admitted, Numbered
<1>5. ASSUME NEW t \in Threads, TryGate(t)
      PROVE  /\ UNCHANGED in_flight
             /\ \A d \in Captures : Inside(d)' = Inside(d)
  BY <1>5 DEF TryGate, ThreadTypes, Inside, Admitted, Numbered
<1>6. ASSUME NEW t \in Threads, GateBusy(t)
      PROVE  /\ UNCHANGED in_flight
             /\ \A d \in Captures : Inside(d)' = Inside(d)
  BY <1>6 DEF GateBusy, ThreadTypes, Inside, Admitted, Numbered
<1>7. ASSUME NEW t \in Threads, Refuse(t)
      PROVE  /\ UNCHANGED in_flight
             /\ \A d \in Captures : Inside(d)' = Inside(d)
  BY <1>7 DEF Refuse, GateAdmits, ThreadTypes, Inside, Admitted, Numbered
<1>8. ASSUME NEW t \in Threads, Reject(t)
      PROVE  /\ UNCHANGED in_flight
             /\ \A d \in Captures : Inside(d)' = Inside(d)
  BY <1>8 DEF Reject, ThreadTypes, Inside, Admitted, Numbered
<1>9. ASSUME NEW t \in Threads, FindAccepting(t)
      PROVE  /\ UNCHANGED in_flight
             /\ \A d \in Captures : Inside(d)' = Inside(d)
  BY <1>9 DEF FindAccepting, InCapture, ThreadTypes, Inside, Admitted,
       Numbered
<1>10. ASSUME NEW t \in Threads, FindClosed(t)
      PROVE  /\ UNCHANGED in_flight
             /\ \A d \in Captures : Inside(d)' = Inside(d)
  BY <1>10 DEF FindClosed, InCapture, ThreadTypes, Inside, Admitted, Numbered
<1>11. ASSUME NEW t \in Threads, Number(t)
      PROVE  /\ UNCHANGED in_flight
             /\ \A d \in Captures : Inside(d)' = Inside(d)
  BY <1>11 DEF Number, InCapture, ThreadTypes, Inside, Admitted, Numbered
<1>12. ASSUME NEW t \in Threads, TryQueue(t)
      PROVE  /\ UNCHANGED in_flight
             /\ \A d \in Captures : Inside(d)' = Inside(d)
  BY <1>12 DEF TryQueue, InCapture, ThreadTypes, Inside, Admitted, Numbered
<1>13. ASSUME NEW t \in Threads, QueueBusy(t)
      PROVE  /\ UNCHANGED in_flight
             /\ \A d \in Captures : Inside(d)' = Inside(d)
  BY <1>13 DEF QueueBusy, InCapture, ThreadTypes, Inside, Admitted, Numbered
<1>14. ASSUME NEW t \in Threads, DropFrame(t)
      PROVE  /\ UNCHANGED in_flight
             /\ \A d \in Captures : Inside(d)' = Inside(d)
  BY <1>14 DEF DropFrame, InCapture, ThreadTypes, Inside, Admitted, Numbered
<1>15. ASSUME NEW t \in Threads, Enqueue(t)
      PROVE  /\ UNCHANGED in_flight
             /\ \A d \in Captures : Inside(d)' = Inside(d)
  BY <1>15 DEF Enqueue, InCapture, ThreadTypes, Inside, Admitted, Numbered
<1>16. ASSUME NEW c \in Captures, Create(c)
      PROVE  InFlightIsExact'
  <2>1. Inside(c) = {}
    BY <1>16, BridgeAssumption
    DEF Create, Active, Callbacks, ThreadBounds, Inside
  <2>2. \A d \in Captures : Inside(d)' = Inside(d)
    BY <1>16 DEF Create, Inside
  <2>3. in_flight' = [in_flight EXCEPT ![c] = 0]
    BY <1>16 DEF Create
  <2> QED
    BY <2>1, <2>2, <2>3, FS_EmptySet DEF SessionTypes
<1>17. ASSUME NEW c \in Captures, StartReset(c)
      PROVE  InFlightIsExact'
  <2>1. Inside(c) = {}
    BY <1>17, BridgeAssumption
    DEF StartReset, Active, Callbacks, ThreadBounds, Inside
  <2>2. \A d \in Captures : Inside(d)' = Inside(d)
    BY <1>17 DEF StartReset, Inside
  <2>3. in_flight' = [in_flight EXCEPT ![c] = 0]
    BY <1>17 DEF StartReset
  <2> QED
    BY <2>1, <2>2, <2>3, FS_EmptySet DEF SessionTypes
<1>18. ASSUME NEW c \in Captures,
             StartRefused(c) \/ StartCalled(c) \/ PollCalled(c)
             \/ StartBlocked(c) \/ StartLock(c) \/ PoolExhausted(c)
             \/ StartToken(c) \/ RegisterFails(c) \/ Register(c)
             \/ AttachLock(c) \/ Attach(c) \/ DeviceStart(c)
             \/ DeviceStartFails(c) \/ StopLock(c) \/ DetachLock(c)
             \/ Detach(c) \/ DeviceStop(c) \/ DeviceStopFails(c)
             \/ Unregister(c) \/ UnregisterFails(c) \/ FindQuiesced(c)
             \/ FindBusy(c) \/ Settle(c) \/ DestroyRefused(c) \/ Free(c)
             \/ PollLock(c) \/ Poll(c)
      PROVE  UNCHANGED <<in_flight, cb, target>>
  BY <1>18 DEF StartRefused, Begin, StartCalled, PollCalled, StartBlocked,
       StartLock, PoolExhausted, StartToken, RegisterFails, Register,
       AttachLock, GateLock, Attach, DeviceStart, DeviceStartFails, StopLock,
       DetachLock, Detach, DeviceStop, DeviceStopFails, Unregister,
       UnregisterFails, FindQuiesced, FindBusy, Settle, DestroyRefused, Free,
       PollLock, Poll
<1>19. ASSUME NEW c \in Captures, NEW name \in {"stop", "destroy"},
             StopCalled(c, name)
      PROVE  UNCHANGED <<in_flight, cb, target>>
  BY <1>19 DEF StopCalled, Begin
<1>20. ASSUME UNCHANGED <<in_flight, cb, target>>
      PROVE  InFlightIsExact'
  <2>1. \A d \in Captures : Inside(d)' = Inside(d)
    BY <1>20 DEF Inside
  <2> QED
    BY <1>20, <2>1
<1>21. ASSUME UNCHANGED in_flight,
             \A d \in Captures : Inside(d)' = Inside(d)
      PROVE  InFlightIsExact'
  BY <1>21
<1> QED BY <1>2, <1>3, <1>4, <1>5, <1>6, <1>7, <1>8, <1>9, <1>10, <1>11,
     <1>12, <1>13, <1>14, <1>15, <1>16, <1>17, <1>18, <1>19, <1>20, <1>21
      DEF Next, CallbackStep, CallStep, ControlStep

-------------------------------------------------------------------------------
(***************************************************************************)
(* The theorems.                                                           *)
(***************************************************************************)

\* The invariant holds at first.
LEMMA InvariantInit == Init => IInv
<1> SUFFICES ASSUME Init
             PROVE  IInv
  OBVIOUS
<1>1. TypeInv
  BY TypeInit
<1>2. Locks /\ Gate /\ Active /\ Callbacks /\ Quiet
  BY BridgeAssumption
  DEF Init, Locks, Gate, Active, Callbacks, Quiet, HoldsActive, HoldsGate,
      AtStart, AtDetach, Admitted, Numbered, Passed
<1>3. InFlightIsExact
  <2>1. \A c \in Captures : Inside(c) = {}
    BY DEF Init, Inside, Admitted, Numbered
  <2> QED
    BY <2>1, FS_EmptySet DEF Init, InFlightIsExact
<1>4. Tokens /\ Returns /\ Promised
  BY DEF Init, Tokens, Returns, Promised, AtStart, AtDetach,
         NoContext
<1> QED
  BY <1>1, <1>2, <1>3, <1>4 DEF IInv

\* Every step preserves it.
LEMMA InvariantStep == IInv /\ [Next]_vars => IInv'
<1>1. IInv /\ [Next]_vars => TypeInv'
  BY TypeStep DEF IInv
<1> QED
  BY <1>1, LocksStep, GateStep, ActiveStep, CallbacksStep, QuietStep,
     InFlightStep, TokensStep, ReturnsStep, StatusStep DEF IInv

\* The invariant holds of every reachable state.
THEOREM Invariance == Spec => []IInv
  BY InvariantInit, InvariantStep, PTL DEF Spec

\* However late a callback comes and however calls interleave, it touches no
\* freed capture and no session but its own (mt_phase1_raw_callback against
\* mt_phase1_capture_destroy and _start).
THEOREM NoStaleAccessHolds == Spec => []NoStaleAccess
<1>1. IInv => NoStaleAccess
  BY BridgeAssumption
  DEF IInv, TypeInv, ThreadBounds, Active, Callbacks, NoStaleAccess
<1> QED
  BY <1>1, Invariance, PTL

\* in_flight_callback_count is exact, so a wait that reads 0 may rely on it.
THEOREM InFlightIsExactHolds == Spec => []InFlightIsExact
<1>1. IInv => InFlightIsExact
  BY DEF IInv
<1> QED
  BY <1>1, Invariance, PTL

\* A start that has registered always finds the gate vacant.
THEOREM GateIsVacantHolds == Spec => []GateIsVacantForAttach
<1>1. IInv => GateIsVacantForAttach
  BY DEF IInv, Gate, Active, GateIsVacantForAttach, GateOccupied
<1> QED
  BY <1>1, Invariance, PTL

\* Whatever the framework, the gate or a callback can reach is the one capture
\* that g_active_capture protects from a free and from another start.
THEOREM OnlyActiveIsReachableHolds == Spec => []OnlyActiveIsReachable
<1>1. IInv => OnlyActiveIsReachable
  BY BridgeAssumption
  DEF IInv, Gate, Active, Callbacks, Inside, OnlyActiveIsReachable
<1> QED
  BY <1>1, Invariance, PTL

\* A session registers with an element of the pool that no registration before
\* it was given, by whichever capture and however long ago, and no two captures
\* hold the same one: a refcon names one session for good
\* (mt_phase1_capture_start, mt_phase1.c:556).
THEOREM RefconsAreNotSharedHolds == Spec => []RefconsAreNotShared
<1>1. IInv => RefconsAreNotShared
  BY DEF IInv, TypeInv, TypeOK, SessionTypes, Tokens, RefconsAreNotShared
<1> QED
  BY <1>1, Invariance, PTL

\* What is not the active capture is out of reach of the framework, the gate
\* and the callbacks.
LEMMA InactiveIsOutOfReach ==
  ASSUME IInv, NEW c \in Captures, gActive # c
  PROVE  OutOfReach(c)
<1>1. gCapture # c
  BY BridgeAssumption DEF IInv, Gate
<1>2. ~ running[c] /\ ~ registered[c]
  BY DEF IInv, TypeInv, TypeOK, SessionTypes, Active
<1>3. Inside(c) = {}
  BY DEF IInv, Callbacks, Inside
<1> QED
  BY <1>1, <1>2, <1>3 DEF OutOfReach

\* A start that returns OK has opened the capture; a stop that returns OK has
\* put it out of reach of the framework, the gate and the callbacks; a destroy
\* returns OK only by freeing it, and then it is out of their reach as well
\* (mt_phase1_capture_start, _stop and _destroy).
THEOREM StatusIsTruthfulHolds == Spec => []StatusIsTruthful
<1>1. ASSUME IInv, NEW c \in Captures, ctl[c] = "absent"
      PROVE  OutOfReach(c)
  BY <1>1, InactiveIsOutOfReach DEF IInv, Active
<1>2. ASSUME IInv, NEW c \in Captures,
             ctl[c] = "idle", status[c] = "OK", call[c] = "stop"
      PROVE  OutOfReach(c)
  BY <1>2, InactiveIsOutOfReach DEF IInv, Promised
<1>3. IInv => StatusIsTruthful
  BY <1>1, <1>2 DEF IInv, Promised, StatusIsTruthful
<1> QED
  BY <1>3, Invariance, PTL

\* Who neither is active nor makes a call is left alone by a step.
LEMMA UntouchedStep ==
  ASSUME IInv, [Next]_vars,
         NEW d \in Captures, Bystander(d), Bystander(d)'
  PROVE  IsUntouched(d)
<1> USE DEF IInv, TypeInv, TypeOK, Bystander, IsUntouched
<1>1. ASSUME NEW t \in Threads, Admit(t)
      PROVE  IsUntouched(d)
  BY <1>1 DEF Admit, GateAdmits, Gate, GlobalTypes, SessionTypes
<1>2. ASSUME NEW t \in Threads, FindClosed(t)
      PROVE  IsUntouched(d)
  <2>1. target[t] \in Captures /\ target[t] # d
    BY <1>2 DEF FindClosed, ThreadBounds, Callbacks, Admitted, Numbered
  <2> QED
    BY <1>2, <2>1 DEF FindClosed, InCapture, SessionTypes, RecordTypes
<1>3. ASSUME NEW t \in Threads, Number(t)
      PROVE  IsUntouched(d)
  <2>1. target[t] \in Captures /\ target[t] # d
    BY <1>3 DEF Number, ThreadBounds, Callbacks, Admitted, Numbered
  <2> QED
    BY <1>3, <2>1 DEF Number, InCapture, SessionTypes, RecordTypes
<1>4. ASSUME NEW t \in Threads, TryQueue(t)
      PROVE  IsUntouched(d)
  <2>1. target[t] \in Captures /\ target[t] # d
    BY <1>4 DEF TryQueue, ThreadBounds, Callbacks, Admitted, Numbered
  <2> QED
    BY <1>4, <2>1 DEF TryQueue, InCapture, SessionTypes, RecordTypes
<1>5. ASSUME NEW t \in Threads, DropFrame(t)
      PROVE  IsUntouched(d)
  <2>1. target[t] \in Captures /\ target[t] # d
    BY <1>5 DEF DropFrame, ThreadBounds, Callbacks, Admitted, Numbered
  <2> QED
    BY <1>5, <2>1 DEF DropFrame, InCapture, SessionTypes, RecordTypes
<1>6. ASSUME NEW t \in Threads, Enqueue(t)
      PROVE  IsUntouched(d)
  <2>1. target[t] \in Captures /\ target[t] # d
    BY <1>6 DEF Enqueue, ThreadBounds, Callbacks, Admitted, Numbered
  <2> QED
    BY <1>6, <2>1 DEF Enqueue, InCapture, SessionTypes, RecordTypes
<1>7. ASSUME NEW t \in Threads, Finish(t)
      PROVE  IsUntouched(d)
  <2>1. target[t] \in Captures /\ target[t] # d
    BY <1>7 DEF Finish, ThreadBounds, Callbacks, Admitted, Numbered
  <2> QED
    BY <1>7, <2>1 DEF Finish, InCapture, SessionTypes, RecordTypes
<1>8. ASSUME NEW t \in Threads,
             Deliver(t) \/ TryGate(t) \/ GateBusy(t) \/ Refuse(t)
             \/ Reject(t) \/ FindAccepting(t) \/ QueueBusy(t)
      PROVE  UNCHANGED <<in_flight, count, queueVars, context, accepting>>
  BY <1>8 DEF Deliver, TryGate, GateBusy, Refuse, Reject, FindAccepting,
       QueueBusy, InCapture
<1>9. ASSUME NEW c \in Captures, Create(c)
      PROVE  IsUntouched(d)
  BY <1>9 DEF Create, Return, Goto, ControlTypes, SessionTypes, RecordTypes
<1>10. ASSUME NEW c \in Captures, StartReset(c)
      PROVE  IsUntouched(d)
  BY <1>10 DEF StartReset, EmptyQueue, Goto, ControlTypes, SessionTypes,
       RecordTypes
<1>11. ASSUME NEW c \in Captures, StartToken(c)
      PROVE  IsUntouched(d)
  BY <1>11 DEF StartToken, PoolIsExhausted, TakeToken, Goto, ControlTypes,
       SessionTypes, RecordTypes
<1>12. ASSUME NEW c \in Captures, Attach(c)
      PROVE  IsUntouched(d)
  BY <1>12 DEF Attach, GateOccupied, Return, Goto, ControlTypes,
       SessionTypes, RecordTypes
<1>13. ASSUME NEW c \in Captures, Detach(c)
      PROVE  IsUntouched(d)
  BY <1>13 DEF Detach, ShutGate, AfterDetach, AfterDevice, Goto,
       ControlTypes, SessionTypes, RecordTypes
<1>14. ASSUME NEW c \in Captures, PollLock(c)
      PROVE  IsUntouched(d)
  BY <1>14 DEF PollLock, Goto, ControlTypes, SessionTypes, RecordTypes
<1>15. ASSUME NEW c \in Captures, Poll(c)
      PROVE  IsUntouched(d)
  BY <1>15 DEF Poll, TakeFrame, Goto, ControlTypes, SessionTypes,
       RecordTypes
<1>16. ASSUME NEW c \in Captures,
             StartRefused(c) \/ StartCalled(c) \/ PollCalled(c)
             \/ StartBlocked(c) \/ StartLock(c) \/ PoolExhausted(c)
             \/ RegisterFails(c) \/ Register(c) \/ AttachLock(c)
             \/ DeviceStart(c) \/ DeviceStartFails(c) \/ StopLock(c)
             \/ DetachLock(c) \/ DeviceStop(c) \/ DeviceStopFails(c)
             \/ Unregister(c) \/ UnregisterFails(c) \/ FindQuiesced(c)
             \/ FindBusy(c) \/ Settle(c) \/ DestroyRefused(c)
             \/ Free(c)
      PROVE  UNCHANGED <<in_flight, count, queueVars, context, accepting>>
  BY <1>16 DEF StartRefused, StartCalled, PollCalled, StartBlocked,
       StartLock, PoolExhausted, RegisterFails, Register, AttachLock,
       DeviceStart, DeviceStartFails, StopLock, DetachLock, DeviceStop,
       DeviceStopFails, Unregister, UnregisterFails, FindQuiesced, FindBusy,
       Settle, DestroyRefused, Free, GateLock, Begin
<1>17. ASSUME NEW c \in Captures, NEW name \in {"stop", "destroy"},
             StopCalled(c, name)
      PROVE  UNCHANGED <<in_flight, count, queueVars, context, accepting>>
  BY <1>17 DEF StopCalled, Begin
<1> QED BY <1>1, <1>2, <1>3, <1>4, <1>5, <1>6, <1>7, <1>8, <1>9, <1>10,
     <1>11, <1>12, <1>13, <1>14, <1>15, <1>16, <1>17
      DEF Next, CallbackStep, CallStep, ControlStep

\* A step of one capture's session, or of a callback inside it, changes no
\* other capture that is at rest.
THEOREM InactiveIsUntouchedHolds == Spec => InactiveIsUntouched
<1> DEFINE Step == \A c \in Captures :
                      Bystander(c) /\ Bystander(c)' => IsUntouched(c)
<1>1. IInv /\ [Next]_vars => Step
  BY UntouchedStep
<1> QED
  BY <1>1, Invariance, PTL DEF Spec, InactiveIsUntouched

-------------------------------------------------------------------------------
(***************************************************************************)
(* Threads.                                                                *)
(***************************************************************************)

\* Sets of threads that differ at most in one thread are as large as each other,
\* or differ by one.
LEMMA OneThread ==
  ASSUME NEW S \in SUBSET Threads, NEW T \in SUBSET Threads,
         NEW t \in Threads, \A u \in Threads \ {t} : u \in S <=> u \in T
  PROVE  /\ Cardinality(S) \in Nat /\ Cardinality(T) \in Nat
         /\ t \notin S /\ t \in T => Cardinality(T) = Cardinality(S) + 1
         /\ t \in S /\ t \notin T => Cardinality(T) = Cardinality(S) - 1
         /\ (t \in S <=> t \in T) => Cardinality(T) = Cardinality(S)
<1>1. IsFiniteSet(S) /\ IsFiniteSet(T)
  BY BridgeAssumption, FS_Subset
<1>2. ASSUME t \notin S, t \in T
      PROVE  Cardinality(T) = Cardinality(S) + 1
  <2>1. T = S \cup {t}
    BY <1>2
  <2> QED
    BY <1>1, <1>2, <2>1, FS_AddElement
<1>3. ASSUME t \in S, t \notin T
      PROVE  Cardinality(T) = Cardinality(S) - 1
  <2>1. T = S \ {t}
    BY <1>3
  <2> QED
    BY <1>1, <1>3, <2>1, FS_RemoveElement
<1>4. ASSUME t \in S <=> t \in T
      PROVE  T = S
  BY <1>4
<1> QED
  BY <1>1, <1>2, <1>3, <1>4, FS_CardinalityType

\* A callback moves no other callback.
LEMMA OthersStay ==
  ASSUME TypeOK, NEW t \in Threads, Deliver(t) \/ CallbackStep(t),
         NEW u \in Threads \ {t}
  PROVE  /\ cb'[u] = cb[u] /\ refcon'[u] = refcon[u]
         /\ target'[u] = target[u] /\ sequence'[u] = sequence[u]
  BY DEF TypeOK, ThreadTypes, CallbackStep, InCapture, Deliver, TryGate,
     GateBusy, Admit, Refuse, Reject, FindAccepting, FindClosed, Number,
     TryQueue, QueueBusy, DropFrame, Enqueue, Finish

-------------------------------------------------------------------------------
(***************************************************************************)
(* What a step leaves alone of the records.                                *)
(***************************************************************************)

\* Where a start has emptied the queue and is about to begin a session.
Starting == {"start_token", "start_register"}

\* No call goes to p, which only some steps do.
NotEntered(p) == \A d \in Captures : ctl'[d] = p => ctl[d] = p

\* Only a create, a poll and the steps of a start that reset and take a token
\* change what an owner finds recorded, and only they lead to where the queue
\* is empty.
LEMMA RecordFrame ==
  ASSUME TypeOK, NEW c \in Captures, CallStep(c) \/ ControlStep(c),
         ~ Create(c), ~ StartReset(c), ~ StartToken(c), ~ Poll(c)
  PROVE  /\ UNCHANGED <<count, queue, context, out_frame, gNextContext>>
         /\ \A p \in Starting : NotEntered(p)
<1> USE DEF TypeOK, ControlTypes
<1>1. UNCHANGED <<count, queue, context, out_frame, gNextContext>>
  BY DEF CallStep, ControlStep, GateLock, Begin, StopCalled,
       StartRefused, StartCalled, PollCalled, StartBlocked, StartLock,
       PoolExhausted, RegisterFails, Register,
       AttachLock, Attach, DeviceStart, DeviceStartFails, StopLock,
       DetachLock, Detach, DeviceStop, DeviceStopFails, Unregister,
       UnregisterFails, FindQuiesced, FindBusy, Settle, DestroyRefused, Free,
       PollLock
<1>2. ASSUME NEW place, place \notin Starting, Goto(c, place)
      PROVE  \A p \in Starting : NotEntered(p)
  BY <1>2 DEF Goto, NotEntered
<1>3. \E place : place \notin Starting /\ Goto(c, place)
  <2> USE DEF Starting
  <2>1. CASE CallStep(c)
    BY <2>1 DEF CallStep, StopCalled, StartRefused, StartCalled, PollCalled,
         Return
  <2>2. CASE StartBlocked(c) \/ StartLock(c) \/ PoolExhausted(c)
             \/ RegisterFails(c) \/ Register(c) \/ AttachLock(c)
             \/ DeviceStart(c) \/ DeviceStartFails(c) \/ StopLock(c)
             \/ DetachLock(c) \/ DeviceStop(c) \/ DeviceStopFails(c)
             \/ Unregister(c) \/ UnregisterFails(c) \/ FindQuiesced(c)
             \/ DestroyRefused(c) \/ Free(c) \/ PollLock(c)
    BY <2>2 DEF Return, StartBlocked, StartLock, PoolExhausted,
         RegisterFails, Register, AttachLock, DeviceStart, DeviceStartFails,
         StopLock, DetachLock, GateLock, DeviceStop, DeviceStopFails,
         Unregister, UnregisterFails, FindQuiesced, DestroyRefused, Free,
         PollLock, AfterDevice
  <2>3. CASE Attach(c)
    BY <2>3 DEF Attach, Return
  <2>4. CASE Detach(c)
    BY <2>4 DEF Detach, AfterDetach, AfterDevice
  <2>5. CASE FindBusy(c)
    BY <2>5 DEF FindBusy, AfterAttempt
  <2>6. CASE Settle(c)
    BY <2>6 DEF Settle
  <2> QED
    BY <2>1, <2>2, <2>3, <2>4, <2>5, <2>6 DEF ControlStep
<1> QED
  BY <1>1, <1>2, <1>3

\* A callback changes the records in two steps, and the counters in two more.
LEMMA CallbackRecordFrame ==
  ASSUME NEW t \in Threads, Deliver(t) \/ CallbackStep(t)
  PROVE  /\ ~ Enqueue(t) => UNCHANGED queue
         /\ ~ (Number(t) \/ FindClosed(t) \/ DropFrame(t) \/ Enqueue(t)) =>
              UNCHANGED count
  BY DEF CallbackStep, Deliver, TryGate, GateBusy, Admit, Refuse, Reject,
       FindAccepting, FindClosed, Number, TryQueue, QueueBusy, DropFrame,
       Enqueue, Finish

-------------------------------------------------------------------------------
(***************************************************************************)
(* A queue holds frames of one session.                                    *)
(***************************************************************************)

\* A queue is empty when the next session takes its token.
EmptyAtStart ==
  \A c \in Captures : ctl[c] \in Starting => queue[c] = <<>>

\* Each frame in a queue came with the refcon of the session it is in.
OfSession ==
  \A c \in Captures : \A i \in DOMAIN queue[c] : queue[c][i].refcon = context[c]

SessionInv == IInv /\ EmptyAtStart /\ OfSession

\* No callback is inside a capture that is being created or reset.
LEMMA NobodyInside ==
  ASSUME IInv, NEW c \in Captures,
         ctl[c] \in {"absent", "start_reset", "start_token", "start_register"}
  PROVE  gActive # c /\ \A t \in Threads : cb[t] \in Admitted => target[t] # c
  BY BridgeAssumption DEF IInv, TypeInv, ThreadBounds, Active, Callbacks

\* A callback stores its frame in the session that admitted it.
LEMMA SessionInvCallback ==
  ASSUME SessionInv, NEW t \in Threads, Deliver(t) \/ CallbackStep(t)
  PROVE  EmptyAtStart' /\ OfSession'
<1> USE DEF SessionInv, IInv, TypeInv, TypeOK, RecordTypes, EmptyAtStart,
     OfSession
<1>1. UNCHANGED <<context, ctl>>
  BY CallbackFrame
<1>2. CASE Enqueue(t)
  <2> DEFINE c == target[t]
             f == [sequence |-> sequence[t], refcon |-> refcon[t]]
  <2>1. /\ c \in Captures /\ ctl[c] \notin Starting /\ f.refcon = context[c]
        /\ f \in Frames
    BY <1>2, NobodyInside
    DEF Enqueue, ThreadBounds, ThreadTypes, Callbacks, Admitted, Numbered,
        Starting, Frames
  <2>2. queue' = [queue EXCEPT ![c] = Push(@, f)]
    BY <1>2 DEF Enqueue
  <2>3. queue[c] \in Seq(Frames)
    BY <2>1
  <2>4. \A i \in DOMAIN Push(queue[c], f) :
          Push(queue[c], f)[i].refcon = context[c]
    <3> SUFFICES ASSUME NEW i \in DOMAIN Push(queue[c], f)
                 PROVE  Push(queue[c], f)[i].refcon = context[c]
      OBVIOUS
    <3> HIDE DEF c, f
    <3>1. \/ Push(queue[c], f)[i] = f
          \/ \E j \in DOMAIN queue[c] : Push(queue[c], f)[i] = queue[c][j]
      BY <2>1, <2>3, PushOrigin
    <3> QED
      BY <2>1, <3>1
  <2> QED
    BY <1>1, <2>1, <2>2, <2>4
<1>3. CASE ~ Enqueue(t)
  BY <1>1, <1>3, CallbackRecordFrame
<1> QED
  BY <1>2, <1>3

\* A session begins with an empty queue, and its polls take from the front.
LEMMA SessionInvControl ==
  ASSUME SessionInv, NEW c \in Captures, CallStep(c) \/ ControlStep(c)
  PROVE  EmptyAtStart' /\ OfSession'
<1> USE DEF SessionInv, IInv, TypeInv, TypeOK, RecordTypes, SessionTypes,
     ControlTypes, EmptyAtStart, OfSession
<1>1. CASE Create(c)
  BY <1>1 DEF Create, Return, Goto, Starting
<1>2. CASE StartReset(c)
  BY <1>2 DEF StartReset, EmptyQueue, Goto, Starting
<1>3. CASE StartToken(c)
  BY <1>3 DEF StartToken, TakeToken, Goto, Starting
<1>4. CASE Poll(c)
  <2>1. EmptyAtStart'
    BY <1>4 DEF Poll, TakeFrame, Goto, Starting
  <2>2. CASE queue[c] = <<>>
    BY <1>4, <2>1, <2>2 DEF Poll
  <2>3. CASE queue[c] # <<>>
    <3>1. queue[c] \in Seq(Frames)
      OBVIOUS
    <3>2. \A i \in DOMAIN Tail(queue[c]) :
            \E j \in DOMAIN queue[c] : Tail(queue[c])[i] = queue[c][j]
      BY <2>3, <3>1, PollElements
    <3>3. /\ queue' = [queue EXCEPT ![c] = Tail(@)]
          /\ UNCHANGED context
      BY <1>4, <2>3 DEF Poll, TakeFrame
    <3> QED
      BY <2>1, <3>2, <3>3
  <2> QED
    BY <2>2, <2>3
<1>5. CASE ~ (Create(c) \/ StartReset(c) \/ StartToken(c) \/ Poll(c))
  BY <1>5, RecordFrame DEF NotEntered, Starting
<1> QED
  BY <1>1, <1>2, <1>3, <1>4, <1>5

\* The invariant holds of every reachable state.
LEMMA SessionInvariance == Spec => []SessionInv
<1>1. Init => EmptyAtStart /\ OfSession
  BY DEF Init, EmptyAtStart, OfSession, Starting
<1>2. SessionInv /\ [Next]_vars => EmptyAtStart' /\ OfSession'
  <2> SUFFICES ASSUME SessionInv, [Next]_vars
               PROVE  EmptyAtStart' /\ OfSession'
    OBVIOUS
  <2>1. CASE UNCHANGED vars
    BY <2>1 DEF SessionInv, EmptyAtStart, OfSession
  <2> QED
    BY <2>1, SessionInvCallback, SessionInvControl DEF Next
<1>3. SessionInv <=> IInv /\ EmptyAtStart /\ OfSession
  BY DEF SessionInv
<1> QED
  BY <1>1, <1>2, <1>3, Invariance, PTL DEF Spec

\* A restart, and a capture created at an address used before, never hands out
\* a frame of an earlier session (start empties the queue before it takes the
\* token, mt_phase1.c:538, and no callback of before is left to fill it).
THEOREM QueueIsOfSessionHolds == Spec => []QueueIsOfSession
<1>1. SessionInv => QueueIsOfSession
  BY DEF SessionInv, OfSession, QueueIsOfSession
<1> QED
  BY <1>1, SessionInvariance, PTL

-------------------------------------------------------------------------------
(***************************************************************************)
(* Each numbered callback is stored, dropped or on its way.                *)
(***************************************************************************)

\* The callbacks a capture has numbered and not yet decided on change by at
\* most the one that makes the step.
LEMMA UndecidedMoves ==
  ASSUME TypeOK, NEW t \in Threads, Deliver(t) \/ CallbackStep(t),
         NEW d \in Captures
  PROVE  /\ Cardinality(Undecided(d)) \in Nat
         /\ t \notin Undecided(d) /\ t \in Undecided(d)' =>
              Cardinality(Undecided(d)') = Cardinality(Undecided(d)) + 1
         /\ t \in Undecided(d) /\ t \notin Undecided(d)' =>
              Cardinality(Undecided(d)') = Cardinality(Undecided(d)) - 1
         /\ (t \in Undecided(d) <=> t \in Undecided(d)') =>
              Cardinality(Undecided(d)') = Cardinality(Undecided(d))
<1>1. Undecided(d) \subseteq Threads /\ Undecided(d)' \subseteq Threads
  BY DEF Undecided, Inside
<1>2. \A u \in Threads \ {t} : u \in Undecided(d) <=> u \in Undecided(d)'
  BY OthersStay DEF Undecided, Inside
<1> QED
  BY <1>1, <1>2, OneThread

\* A counted callback is one of its capture: no other capture's counters move.
LEMMA Counted ==
  ASSUME count \in [Captures -> Counters], NEW c \in Captures,
         NEW d \in Captures
  PROVE  /\ [count EXCEPT ![c].callback = @ + 1][d] =
              IF d = c THEN [count[d] EXCEPT !.callback = @ + 1] ELSE count[d]
         /\ [count EXCEPT ![c].contention = @ + 1][d] =
              IF d = c THEN [count[d] EXCEPT !.contention = @ + 1] ELSE count[d]
         /\ [count EXCEPT ![c].late = @ + 1][d] =
              IF d = c THEN [count[d] EXCEPT !.late = @ + 1] ELSE count[d]
  OBVIOUS

\* A callback is numbered, counted and done with one after the other.
LEMMA AddUpCallback ==
  ASSUME IInv, CallbacksAddUp, NEW t \in Threads, Deliver(t) \/ CallbackStep(t)
  PROVE  CallbacksAddUp'
<1> SUFFICES ASSUME NEW d \in Captures
             PROVE  count'[d].callback = count'[d].enqueued
                      + count'[d].contention + Cardinality(Undecided(d)')
  BY DEF CallbacksAddUp
<1> USE DEF IInv, TypeInv, TypeOK, RecordTypes
<1>1. /\ count[d].callback = count[d].enqueued + count[d].contention
                               + Cardinality(Undecided(d))
      /\ count \in [Captures -> Counters] /\ count[d] \in Counters
      /\ count[d].callback \in Nat /\ count[d].enqueued \in Nat
      /\ count[d].contention \in Nat
      /\ Cardinality(Undecided(d)) \in Nat
  BY UndecidedMoves DEF CallbacksAddUp, Counters
<1>2. t \in Undecided(d) <=> cb[t] \in Numbered /\ target[t] = d
  BY DEF Undecided, Inside, Admitted
<1>3. t \in Undecided(d)' <=> cb'[t] \in Numbered /\ target'[t] = d
  BY DEF Undecided, Inside, Admitted
<1>4. CASE Number(t)
  <2>1. /\ target[t] \in Captures
        /\ count' = [count EXCEPT ![target[t]].callback = @ + 1]
        /\ t \notin Undecided(d) /\ (t \in Undecided(d)' <=> target[t] = d)
    BY <1>2, <1>3, <1>4
    DEF Number, ThreadBounds, ThreadTypes, Admitted, Numbered
  <2>2. count'[d] = IF d = target[t] THEN [count[d] EXCEPT !.callback = @ + 1]
                    ELSE count[d]
    BY <1>1, <2>1, Counted
  <2>3. Cardinality(Undecided(d)') =
          Cardinality(Undecided(d)) + (IF d = target[t] THEN 1 ELSE 0)
    BY <1>1, <2>1, UndecidedMoves
  <2> QED
    BY <1>1, <2>2, <2>3 DEF Counters
<1>5. CASE DropFrame(t)
  <2>1. /\ target[t] \in Captures
        /\ count' = [count EXCEPT ![target[t]].contention = @ + 1]
        /\ t \notin Undecided(d)' /\ (t \in Undecided(d) <=> target[t] = d)
    BY <1>2, <1>3, <1>5
    DEF DropFrame, ThreadBounds, ThreadTypes, Admitted, Numbered
  <2>2. count'[d] = IF d = target[t] THEN [count[d] EXCEPT !.contention = @ + 1]
                    ELSE count[d]
    BY <1>1, <2>1, Counted
  <2>3. Cardinality(Undecided(d)') =
          Cardinality(Undecided(d)) - (IF d = target[t] THEN 1 ELSE 0)
    BY <1>1, <2>1, UndecidedMoves
  <2> QED
    BY <1>1, <2>2, <2>3 DEF Counters
<1>6. CASE FindClosed(t)
  <2>1. /\ target[t] \in Captures
        /\ count' = [count EXCEPT ![target[t]].late = @ + 1]
        /\ t \notin Undecided(d)' /\ t \notin Undecided(d)
    BY <1>2, <1>3, <1>6
    DEF FindClosed, ThreadBounds, ThreadTypes, Admitted, Numbered
  <2>2. count'[d] = IF d = target[t] THEN [count[d] EXCEPT !.late = @ + 1]
                    ELSE count[d]
    BY <1>1, <2>1, Counted
  <2>3. Cardinality(Undecided(d)') =
          Cardinality(Undecided(d))
    BY <1>1, <2>1, UndecidedMoves
  <2> QED
    BY <1>1, <2>2, <2>3 DEF Counters
<1>7. CASE Enqueue(t)
  <2>1. /\ target[t] \in Captures
        /\ t \notin Undecided(d)' /\ (t \in Undecided(d) <=> target[t] = d)
    BY <1>2, <1>3, <1>7
    DEF Enqueue, ThreadBounds, ThreadTypes, Admitted, Numbered
  <2>2. /\ d = target[t] => /\ count'[d].enqueued = count[d].enqueued + 1
                            /\ count'[d].callback = count[d].callback
                            /\ count'[d].contention = count[d].contention
        /\ d # target[t] => count'[d] = count[d]
    BY <1>1, <1>7, <2>1 DEF Enqueue, Counters
  <2>3. Cardinality(Undecided(d)') =
          Cardinality(Undecided(d)) - (IF d = target[t] THEN 1 ELSE 0)
    BY <1>1, <2>1, UndecidedMoves
  <2> QED
    BY <1>1, <2>2, <2>3
<1>8. CASE ~ (Number(t) \/ FindClosed(t) \/ DropFrame(t) \/ Enqueue(t))
  <2>1. UNCHANGED count
    BY <1>8, CallbackRecordFrame
  <2>2. t \in Undecided(d) <=> t \in Undecided(d)'
    BY <1>2, <1>3, <1>8
    DEF CallbackStep, Deliver, TryGate, GateBusy, Admit, Refuse, Reject,
       FindAccepting, TryQueue, QueueBusy, Finish, ThreadTypes, Numbered
  <2> QED
    BY <1>1, <2>1, <2>2, UndecidedMoves
<1> QED
  BY <1>4, <1>5, <1>6, <1>7, <1>8

\* The counters start from zero with nobody inside.
LEMMA AddUpControl ==
  ASSUME IInv, CallbacksAddUp, NEW c \in Captures, CallStep(c) \/ ControlStep(c)
  PROVE  CallbacksAddUp'
<1> USE DEF IInv, TypeInv, TypeOK, RecordTypes, CallbacksAddUp
<1>1. \A d \in Captures : Undecided(d)' = Undecided(d)
  BY ControlFrame DEF Undecided, Inside
<1>2. CASE Create(c) \/ StartReset(c)
  <2>1. Undecided(c) = {}
    BY <1>2, NobodyInside DEF Create, StartReset, Undecided, Inside
  <2>2. count' = [count EXCEPT ![c] = NoCounts]
    BY <1>2 DEF Create, StartReset
  <2>3. ASSUME NEW d \in Captures \ {c}
        PROVE  count'[d] = count[d]
    BY <2>2
  <2>4. count'[c] = NoCounts /\ Cardinality(Undecided(c)') = 0
    BY <1>1, <2>1, <2>2, FS_EmptySet
  <2> SUFFICES ASSUME NEW d \in Captures
               PROVE  count'[d].callback = count'[d].enqueued
                        + count'[d].contention + Cardinality(Undecided(d)')
    OBVIOUS
  <2>5. CASE d = c
    BY <2>4, <2>5 DEF NoCounts
  <2>6. CASE d # c
    BY <1>1, <2>3, <2>6
  <2> QED
    BY <2>5, <2>6
<1>3. CASE ~ (Create(c) \/ StartReset(c))
  <2>1. UNCHANGED count
    BY <1>3, RecordFrame DEF StartToken, Poll
  <2> QED
    BY <1>1, <2>1
<1> QED
  BY <1>2, <1>3

\* They do so at first, and every step keeps them.
LEMMA AddUpInit == Init => CallbacksAddUp
<1> SUFFICES ASSUME Init
             PROVE  CallbacksAddUp
  OBVIOUS
<1>1. \A c \in Captures : Undecided(c) = {}
  BY DEF Init, Undecided, Inside, Numbered
<1> SUFFICES ASSUME NEW c \in Captures
             PROVE  count[c].callback = count[c].enqueued
                      + count[c].contention + Cardinality(Undecided(c))
  BY DEF CallbacksAddUp
<1>2. Cardinality(Undecided(c)) = 0
  BY <1>1, FS_EmptySet
<1>3. count[c] = NoCounts
  BY DEF Init
<1> QED
  BY <1>2, <1>3 DEF NoCounts

\* A step of the bridge is one of a callback or one of a call.
LEMMA AddUpStep == IInv /\ CallbacksAddUp /\ [Next]_vars => CallbacksAddUp'
<1> SUFFICES ASSUME IInv, CallbacksAddUp, [Next]_vars
             PROVE  CallbacksAddUp'
  OBVIOUS
<1>1. CASE UNCHANGED vars
  BY <1>1 DEF CallbacksAddUp, Undecided, Inside
<1> QED
  BY <1>1, AddUpCallback, AddUpControl DEF Next

\* The counters that the statistics report account for every callback that was
\* numbered (native_drop_count is computed from them).
THEOREM CallbacksAddUpHolds == Spec => []CallbacksAddUp
  BY AddUpInit, AddUpStep, Invariance, PTL DEF Spec

-------------------------------------------------------------------------------
(***************************************************************************)
(* Polls hand out a session's frames in order, if callbacks come one at a  *)
(* time.                                                                   *)
(***************************************************************************)

\* The framework runs one callback at a time.
OneAtATime == \A t, u \in Threads : t = u

\* The frame polled last is of the session that capture c is in.
PolledNow(c) == out_frame[c].refcon = context[c]

\* A token is new to whoever polled before.
Fresh ==
  \A c \in Captures :
    /\ out_frame[c].refcon <= gNextContext
    /\ ctl[c] = "start_register" => ~ PolledNow(c)

\* The frame polled last, those in the queue and the number given last are in
\* that order.
Ordered ==
  \A c \in Captures :
    /\ OldestFirst(queue[c])
    /\ \A i \in DOMAIN queue[c] :
         /\ queue[c][i].sequence <= count[c].callback
         /\ PolledNow(c) => out_frame[c].sequence < queue[c][i].sequence
    /\ PolledNow(c) /\ gActive = c =>
         out_frame[c].sequence <= count[c].callback

\* A callback with a frame to store has the newest number.
Newest ==
  \A t \in Threads : cb[t] \in Numbered =>
    LET c == target[t]
    IN  /\ sequence[t] <= count[c].callback
        /\ \A i \in DOMAIN queue[c] : queue[c][i].sequence < sequence[t]
        /\ PolledNow(c) => out_frame[c].sequence < sequence[t]

OrderInv == SessionInv /\ Fresh /\ Ordered /\ Newest

\* What the order is of, with its types.
LEMMA OrderTypes ==
  ASSUME IInv, NEW c \in Captures
  PROVE  /\ queue[c] \in Seq(Frames) /\ Len(queue[c]) \in Nat
         /\ \A i \in DOMAIN queue[c] : queue[c][i].sequence \in Nat \ {0}
         /\ out_frame[c].sequence \in Nat /\ out_frame[c].refcon \in Nat
         /\ count \in [Captures -> Counters] /\ count[c].callback \in Nat
         /\ context[c] \in Nat /\ gNextContext \in Nat
<1> USE DEF IInv, TypeInv, TypeOK, RecordTypes, SessionTypes, GlobalTypes
<1>1. queue[c] \in Seq(Frames) /\ Len(queue[c]) \in Nat
  OBVIOUS
<1>2. \A f \in Frames :
        f.sequence \in Nat \ {0} /\ f.sequence \in Nat /\ f.refcon \in Nat
  BY BridgeAssumption DEF Frames, Contexts
<1>3. \A i \in DOMAIN queue[c] : queue[c][i].sequence \in Nat \ {0}
  <2>1. \A i \in DOMAIN queue[c] : queue[c][i] \in Frames
    BY <1>1
  <2> QED
    BY <1>2, <2>1
<1>4. out_frame[c].sequence \in Nat /\ out_frame[c].refcon \in Nat
  <2>1. out_frame[c] \in Frames \cup {NoFrame}
    OBVIOUS
  <2> QED
    BY <1>2, <2>1 DEF NoFrame, NoContext
<1>5. /\ count \in [Captures -> Counters] /\ count[c].callback \in Nat
  BY DEF Counters
<1>6. context[c] \in Nat /\ gNextContext \in Nat
  BY BridgeAssumption DEF NoContext, Contexts
<1> QED
  BY <1>1, <1>3, <1>4, <1>5, <1>6

\* A callback takes the next number, and stores its frame behind the others.
LEMMA OrderCallback ==
  ASSUME OneAtATime, OrderInv, NEW t \in Threads, Deliver(t) \/ CallbackStep(t)
  PROVE  Ordered' /\ Newest'
<1> DEFINE c == target[t]
<1> USE DEF OrderInv, SessionInv, IInv
<1>1. UNCHANGED <<context, gActive, out_frame>>
  BY CallbackFrame
<1>2. \A u \in Threads : u = t
  BY DEF OneAtATime
<1>3. ASSUME NEW d \in Captures
      PROVE  PolledNow(d)' <=> PolledNow(d)
  BY <1>1 DEF PolledNow
<1>4. CASE Number(t)
  <2>1. /\ c \in Captures /\ gActive = c /\ target' = target
        /\ sequence'[t] = count[c].callback + 1
        /\ count' = [count EXCEPT ![c].callback = @ + 1]
        /\ UNCHANGED queue
    BY <1>4 DEF Number, TypeInv, TypeOK, ThreadTypes, ThreadBounds, Callbacks,
      Admitted
  <2>2. count'[c].callback = count[c].callback + 1
    BY <2>1, OrderTypes, Counted DEF Counters
  <2>3. \A d \in Captures \ {c} : count'[d] = count[d]
    BY <2>1, OrderTypes, Counted
  <2>4. Ordered'
    BY <1>1, <1>3, <2>1, <2>2, <2>3, OrderTypes DEF Ordered
  <2>5. Newest'
    BY <1>1, <1>2, <1>3, <2>1, <2>2, OrderTypes DEF Ordered, Newest
  <2> QED
    BY <2>4, <2>5
<1>5. CASE Enqueue(t)
  <2> DEFINE f == [sequence |-> sequence[t], refcon |-> refcon[t]]
             q == queue[c]
             r == Push(q, f)
  <2>1. /\ c \in Captures /\ f \in Frames /\ cb[t] \in Numbered
        /\ cb'[t] \notin Numbered
    BY <1>5
    DEF Enqueue, TypeInv, TypeOK, ThreadBounds, ThreadTypes, Admitted,
        Numbered, Frames
  <2>2. /\ queue'[c] = r /\ \A d \in Captures \ {c} : queue'[d] = queue[d]
        /\ \A d \in Captures : count'[d].callback = count[d].callback
    BY <1>5, <2>1
    DEF Enqueue, TypeInv, TypeOK, RecordTypes, Counters
  <2>3. /\ q \in Seq(Frames) /\ f.sequence \in Nat
        /\ \A i \in DOMAIN q : q[i].sequence < f.sequence
        /\ f.sequence <= count[c].callback
        /\ PolledNow(c) => out_frame[c].sequence < f.sequence
    BY <2>1, OrderTypes DEF Newest, Frames
  <2>4. /\ \A i \in DOMAIN r : r[i] = f \/ \E j \in DOMAIN q : r[i] = q[j]
        /\ OldestFirst(r)
    <3>1. OldestFirst(q)
      BY <2>1 DEF Ordered
    <3> HIDE DEF q, f
    <3> QED
      BY <2>1, <2>3, <3>1, PushOrigin, PushInOrder
  <2>5. ASSUME NEW i \in DOMAIN r
        PROVE  /\ r[i].sequence <= count[c].callback
               /\ PolledNow(c) => out_frame[c].sequence < r[i].sequence
    BY <2>1, <2>3, <2>4 DEF Ordered
  <2> HIDE DEF r
  <2>6. Ordered'
    BY <1>1, <1>3, <2>1, <2>2, <2>4, <2>5 DEF Ordered
  <2> QED
    BY <1>2, <2>1, <2>6 DEF Newest
<1>6. CASE ~ (Number(t) \/ Enqueue(t))
  <2>1. UNCHANGED queue
    BY <1>6, CallbackRecordFrame
  <2>2. \A d \in Captures : count'[d].callback = count[d].callback
    <3>1. CASE FindClosed(t) \/ DropFrame(t)
      <4>1. c \in Captures
        BY <3>1 DEF FindClosed, DropFrame, TypeInv, ThreadBounds, Admitted,
          Numbered
      <4>2. \/ count' = [count EXCEPT ![c].late = @ + 1]
            \/ count' = [count EXCEPT ![c].contention = @ + 1]
        BY <3>1 DEF FindClosed, DropFrame
      <4> SUFFICES ASSUME NEW d \in Captures
                   PROVE  count'[d].callback = count[d].callback
        OBVIOUS
      <4>3. count \in [Captures -> Counters] /\ count[d] \in Counters
        BY OrderTypes
      <4> HIDE DEF c
      <4>4. \/ count'[d] = count[d]
            \/ count'[d] = [count[d] EXCEPT !.late = @ + 1]
            \/ count'[d] = [count[d] EXCEPT !.contention = @ + 1]
        BY <4>1, <4>2, <4>3, Counted
      <4> QED
        BY <4>3, <4>4 DEF Counters
    <3> QED
      BY <1>6, <3>1, CallbackRecordFrame
  <2>3. cb'[t] \in Numbered =>
          cb[t] \in Numbered /\ target'[t] = c /\ sequence'[t] = sequence[t]
    BY <1>6
    DEF CallbackStep, Deliver, TryGate, GateBusy, Admit, Refuse, Reject,
        FindAccepting, FindClosed, TryQueue, QueueBusy, DropFrame, Finish,
        TypeInv, TypeOK, ThreadTypes, Numbered
  <2>4. Ordered'
    BY <1>1, <1>3, <2>1, <2>2 DEF Ordered
  <2>5. cb'[t] \in Numbered => c \in Captures
    BY <2>3 DEF TypeInv, ThreadBounds, Admitted
  <2>6. Newest'
    BY <1>1, <1>2, <1>3, <2>1, <2>2, <2>3, <2>5 DEF Newest
  <2> QED
    BY <2>4, <2>6
<1> QED
  BY <1>4, <1>5, <1>6

\* A session is claimed in one step of a start, and given up in others.
LEMMA ActiveFrame ==
  ASSUME NEW c \in Captures, CallStep(c) \/ ControlStep(c), ~ Register(c)
  PROVE  gActive' \in {gActive, None}
  BY DEF CallStep, ControlStep, GateLock, Begin, StopCalled, Create,
       StartRefused, StartCalled, PollCalled, StartBlocked, StartLock,
       StartReset, PoolExhausted, StartToken, RegisterFails,
       AttachLock, Attach, DeviceStart, DeviceStartFails, StopLock,
       DetachLock, Detach, DeviceStop, DeviceStopFails, Unregister,
       UnregisterFails, FindQuiesced, FindBusy, Settle, DestroyRefused, Free,
       PollLock, Poll

\* A poll takes the oldest frame, and a session begins with none.
LEMMA OrderControl ==
  ASSUME OrderInv, NEW c \in Captures, CallStep(c) \/ ControlStep(c)
  PROVE  Fresh' /\ Ordered' /\ Newest'
<1> USE DEF OrderInv, SessionInv, IInv
<1>1. /\ TypeOK /\ RecordTypes /\ SessionTypes /\ ControlTypes
      /\ None \notin Captures
      /\ \A t \in Threads : cb[t] \in Numbered =>
           cb[t] \in Admitted /\ target[t] \in Captures
  BY BridgeAssumption DEF TypeInv, TypeOK, ThreadBounds, Admitted
<1>2. UNCHANGED <<cb, target, sequence>>
  BY ControlFrame
<1>3. CASE Create(c)
  <2>1. /\ count' = [count EXCEPT ![c] = NoCounts]
        /\ queue' = [queue EXCEPT ![c] = <<>>]
        /\ out_frame' = [out_frame EXCEPT ![c] = NoFrame]
        /\ context' = [context EXCEPT ![c] = NoContext]
        /\ UNCHANGED <<gActive, gNextContext>> /\ gActive # c
        /\ ctl' = [ctl EXCEPT ![c] = "idle"]
        /\ \A t \in Threads : cb[t] \in Admitted => target[t] # c
    BY <1>3, NobodyInside DEF Create, Return, Goto
  <2>2. Fresh'
    BY <1>1, <2>1, OrderTypes
    DEF Fresh, PolledNow, RecordTypes, SessionTypes, ControlTypes, NoFrame,
        NoContext
  <2>3. Ordered'
    BY <1>1, <2>1, EmptyInOrder
    DEF Ordered, PolledNow, RecordTypes, SessionTypes
  <2>4. Newest'
    BY <1>1, <1>2, <2>1 DEF Newest, PolledNow, RecordTypes, SessionTypes
  <2> QED
    BY <2>2, <2>3, <2>4
<1>4. CASE StartReset(c)
  <2>1. /\ count' = [count EXCEPT ![c] = NoCounts]
        /\ queue' = [queue EXCEPT ![c] = <<>>]
        /\ UNCHANGED <<gActive, gNextContext, out_frame, context>>
        /\ gActive # c
        /\ ctl' = [ctl EXCEPT ![c] = "start_token"]
        /\ \A t \in Threads : cb[t] \in Admitted => target[t] # c
    BY <1>4, NobodyInside DEF StartReset, EmptyQueue, Goto
  <2>2. Fresh'
    BY <1>1, <2>1 DEF Fresh, PolledNow, ControlTypes
  <2>3. Ordered'
    BY <1>1, <2>1, EmptyInOrder DEF Ordered, PolledNow, RecordTypes
  <2>4. Newest'
    BY <1>1, <1>2, <2>1 DEF Newest, PolledNow, RecordTypes
  <2> QED
    BY <2>2, <2>3, <2>4
<1>5. CASE StartToken(c)
  <2>1. /\ context' = [context EXCEPT ![c] = gNextContext + 1]
        /\ gNextContext' = gNextContext + 1
        /\ UNCHANGED <<gActive, count, queue, out_frame>>
        /\ gActive # c /\ queue[c] = <<>>
        /\ ctl' = [ctl EXCEPT ![c] = "start_register"]
        /\ \A t \in Threads : cb[t] \in Admitted => target[t] # c
    BY <1>5, NobodyInside
    DEF StartToken, TakeToken, Goto, EmptyAtStart, Starting
  <2>2. Fresh'
    BY <1>1, <2>1, OrderTypes
    DEF Fresh, PolledNow, ControlTypes, SessionTypes
  <2>3. Ordered'
    BY <1>1, <2>1 DEF Ordered, PolledNow, SessionTypes
  <2>4. Newest'
    BY <1>1, <1>2, <2>1 DEF Newest, PolledNow, SessionTypes
  <2> QED
    BY <2>2, <2>3, <2>4
<1>6. CASE Poll(c) /\ queue[c] # <<>>
  <2> DEFINE q == queue[c]
  <2>1. /\ UNCHANGED <<gActive, gNextContext, context, count>>
        /\ queue'[c] = Tail(q) /\ \A d \in Captures \ {c} : queue'[d] = queue[d]
        /\ out_frame'[c] = Head(q)
        /\ \A d \in Captures \ {c} : out_frame'[d] = out_frame[d]
        /\ ctl' = [ctl EXCEPT ![c] = "idle"]
    BY <1>1, <1>6 DEF Poll, TakeFrame, Goto, RecordTypes
  <2>2. q \in Seq(Frames) /\ Len(q) \in Nat
    BY OrderTypes
  <2>3. /\ Head(q) = q[1] /\ 1 \in DOMAIN q
        /\ OldestFirst(Tail(q))
        /\ \A i \in DOMAIN Tail(q) : Head(q).sequence < Tail(q)[i].sequence
        /\ \A i \in DOMAIN Tail(q) : \E j \in DOMAIN q : Tail(q)[i] = q[j]
    <3>1. OldestFirst(q)
      BY DEF Ordered
    <3> HIDE DEF q
    <3> QED
      BY <1>6, <2>2, <3>1, PollElements DEF q
  <2>4. out_frame'[c] = q[1] /\ q[1].refcon = context[c] /\ PolledNow(c)'
    BY <2>1, <2>3 DEF OfSession, PolledNow
  <2>5. \A d \in Captures \ {c} : PolledNow(d)' <=> PolledNow(d)
    BY <2>1 DEF PolledNow
  <2>6. Fresh'
    <3>1. context[c] <= gNextContext
      BY DEF Tokens
    <3> QED
      BY <1>1, <2>1, <2>4, <2>5, <3>1 DEF Fresh, ControlTypes
  <2>7. Ordered'
    <3>1. /\ \A i \in DOMAIN queue'[c] :
               /\ queue'[c][i].sequence <= count[c].callback
               /\ out_frame'[c].sequence < queue'[c][i].sequence
          /\ out_frame'[c].sequence <= count[c].callback
      BY <2>1, <2>3 DEF Ordered
    <3> QED
      BY <2>1, <2>3, <2>5, <3>1 DEF Ordered
  <2>8. Newest'
    <3> SUFFICES ASSUME NEW t \in Threads, cb[t] \in Numbered, target[t] = c
                 PROVE  /\ \A i \in DOMAIN queue'[c] :
                             queue'[c][i].sequence < sequence[t]
                        /\ out_frame'[c].sequence < sequence[t]
      BY <1>1, <1>2, <2>1, <2>5 DEF Newest
    <3>1. \A i \in DOMAIN q : q[i].sequence < sequence[t]
      BY DEF Newest
    <3> QED
      BY <2>1, <2>3, <3>1
  <2> QED
    BY <2>6, <2>7, <2>8
<1>7. CASE Register(c)
  <2>1. /\ UNCHANGED <<count, queue, context, out_frame, gNextContext>>
        /\ gActive' = c /\ ~ PolledNow(c)
        /\ ctl' = [ctl EXCEPT ![c] = "attach_lock"]
    BY <1>7 DEF Register, Goto, Fresh
  <2>2. Fresh'
    BY <1>1, <2>1 DEF Fresh, PolledNow, ControlTypes
  <2>3. Ordered' /\ Newest'
    BY <1>2, <2>1 DEF Ordered, Newest, PolledNow
  <2> QED
    BY <2>2, <2>3
<1>8. CASE ~ (Create(c) \/ StartReset(c) \/ StartToken(c) \/ Register(c))
             /\ ~ (Poll(c) /\ queue[c] # <<>>)
  <2>1. /\ UNCHANGED <<count, queue, context, out_frame, gNextContext>>
        /\ NotEntered("start_register")
    <3>1. CASE Poll(c)
      BY <1>1, <1>8, <3>1 DEF Poll, Goto, NotEntered, ControlTypes
    <3>2. CASE ~ Poll(c)
      BY <1>1, <1>8, <3>2, RecordFrame DEF Starting
    <3> QED
      BY <3>1, <3>2
  <2>2. gActive' \in {gActive, None}
    BY <1>8, ActiveFrame
  <2>3. Fresh'
    BY <2>1 DEF Fresh, PolledNow, NotEntered
  <2>4. Ordered' /\ Newest'
    BY <1>1, <1>2, <2>1, <2>2 DEF Ordered, Newest, PolledNow
  <2> QED
    BY <2>3, <2>4
<1> QED
  BY <1>3, <1>4, <1>5, <1>6, <1>7, <1>8

\* The invariant holds of every reachable state.
LEMMA OrderInvariance == ASSUME OneAtATime PROVE Spec => []OrderInv
<1>1. Init => Fresh /\ Ordered /\ Newest
  BY EmptyInOrder
  DEF Init, Fresh, Ordered, Newest, NoFrame, NoContext, Numbered, NoCounts,
    PolledNow
<1>2. OrderInv /\ [Next]_vars => Fresh' /\ Ordered' /\ Newest'
  <2> SUFFICES ASSUME OrderInv, [Next]_vars
               PROVE  Fresh' /\ Ordered' /\ Newest'
    OBVIOUS
  <2>1. CASE UNCHANGED vars
    BY <2>1 DEF OrderInv, Fresh, Ordered, Newest, PolledNow
  <2>2. ASSUME NEW t \in Threads, Deliver(t) \/ CallbackStep(t)
        PROVE  Fresh' /\ Ordered' /\ Newest'
    <3>1. UNCHANGED <<context, gNextContext, out_frame, ctl>>
      BY <2>2, CallbackFrame
    <3> QED
      BY <2>2, <3>1, OrderCallback DEF OrderInv, Fresh, PolledNow
  <2> QED
    BY <2>1, <2>2, OrderControl DEF Next
<1>3. OrderInv <=> SessionInv /\ Fresh /\ Ordered /\ Newest
  BY DEF OrderInv
<1> QED
  BY <1>1, <1>2, <1>3, SessionInvariance, PTL DEF Spec

\* If the framework runs one callback at a time, as docs/ABI_VERIFICATION.md:40
\* has it of a device, each poll of a session returns a later frame than the
\* poll before, whatever is dropped, overwritten or restarted in between.
THEOREM PollsAreInOrderHolds == ASSUME OneAtATime PROVE Spec => PollsAreInOrder
<1> DEFINE Step ==
      \A c \in Captures :
        /\ out_frame'[c] # out_frame[c]
        /\ out_frame'[c].refcon = out_frame[c].refcon
        => out_frame'[c].sequence > out_frame[c].sequence
<1>1. OrderInv /\ [Next]_vars => Step
  <2> SUFFICES ASSUME OrderInv, [Next]_vars,
                      NEW d \in Captures, out_frame'[d] # out_frame[d],
                      out_frame'[d].refcon = out_frame[d].refcon
               PROVE  out_frame'[d].sequence > out_frame[d].sequence
    OBVIOUS
  <2> USE DEF OrderInv, SessionInv, IInv
  <2>1. PICK c \in Captures : CallStep(c) \/ ControlStep(c)
    BY CallbackFrame DEF Next
  <2>2. /\ TypeOK /\ out_frame \in [Captures -> Frames \cup {NoFrame}]
        /\ out_frame[d].sequence \in Nat /\ out_frame[d].refcon \in Nat
    BY OrderTypes DEF TypeInv, TypeOK, RecordTypes
  <2>3. Create(c) \/ Poll(c)
    <3> SUFFICES ASSUME ~ Create(c), ~ Poll(c)
                 PROVE  UNCHANGED out_frame
      OBVIOUS
    <3> QED
      BY <2>1, <2>2, RecordFrame DEF StartReset, StartToken
  <2>4. CASE Create(c)
    <3>1. d = c /\ out_frame'[d] = NoFrame
      BY <2>2, <2>4 DEF Create
    <3>2. out_frame[d] \in Frames
      BY <2>2, <3>1
    <3>3. \A f \in Frames : f.refcon # NoContext
      BY BridgeAssumption DEF Frames, Contexts, NoContext
    <3> QED
      BY <3>1, <3>2, <3>3 DEF NoFrame
  <2>5. CASE Poll(c)
    <3>1. d = c /\ queue[d] # <<>> /\ out_frame'[d] = Head(queue[d])
      BY <2>2, <2>5 DEF Poll, TakeFrame
    <3>2. queue[d] \in Seq(Frames)
      BY OrderTypes
    <3>3. Head(queue[d]) = queue[d][1] /\ 1 \in DOMAIN queue[d]
      BY <3>1, <3>2, PollElements
    <3>4. PolledNow(d)
      BY <3>1, <3>3 DEF OfSession, PolledNow
    <3>5. /\ out_frame[d].sequence < queue[d][1].sequence
          /\ queue[d][1].sequence \in Nat
      BY <3>3, <3>4, OrderTypes DEF Ordered
    <3> QED
      BY <2>2, <3>1, <3>3, <3>5
  <2> QED
    BY <2>3, <2>4, <2>5
<1> QED
  BY <1>1, OrderInvariance, PTL DEF Spec, PollsAreInOrder

-------------------------------------------------------------------------------
(***************************************************************************)
(* The bridge implements SessionRundown: each step of a call or a callback *)
(* is one step of the session or none.                                     *)
(***************************************************************************)

Stutter == UNCHANGED <<Live, gActive, Phase, InsideOf>>

\* The places of a call that Live and Phase look at.
Marks == {"absent", "attach_lock", "attach"}

\* A call that goes on elsewhere changes nothing of the session.
LEMMA CallStutters ==
  ASSUME TypeOK, NEW c \in Captures, NEW place,
         ctl[c] \notin Marks, place \notin Marks, Goto(c, place),
         UNCHANGED <<gActive, gCapture, threadVars>>
  PROVE  Stutter
<1>1. Live' = Live
  BY DEF TypeOK, ControlTypes, Goto, Marks, Live
<1>2. Phase' = Phase
  <2>1. \A d \in Captures : ctl'[d] \in {"attach_lock", "attach"} <=>
                              ctl[d] \in {"attach_lock", "attach"}
    BY DEF TypeOK, ControlTypes, Goto, Marks
  <2>2. gActive \in Captures \cup {None}
    BY DEF TypeOK, GlobalTypes
  <2> QED
    BY <2>1, <2>2 DEF Phase
<1> QED
  BY <1>1, <1>2 DEF Stutter, InsideOf

\* A callback changes nothing of the session but who is inside.
LEMMA CallbackKeepsSession ==
  ASSUME NEW t \in Threads, Deliver(t) \/ CallbackStep(t)
  PROVE  UNCHANGED <<Live, gActive, Phase>>
  BY CallbackFrame DEF Live, Phase

\* Entering and leaving are those of the session.
LEMMA CallbackRefines ==
  ASSUME IInv, NEW t \in Threads, Deliver(t) \/ CallbackStep(t)
  PROVE  [Rundown!Next]_(Rundown!vars)
<1> USE DEF IInv, TypeInv, TypeOK
<1>1. UNCHANGED <<Live, gActive, Phase>>
  BY CallbackKeepsSession
<1>2. CASE Admit(t)
  <2>1. gCapture \in Captures /\ gActive = gCapture /\ gActive # None
    BY <1>2, BridgeAssumption DEF Admit, GateAdmits, GlobalTypes, Gate
  <2>2. Phase = "open"
    BY <2>1, BridgeAssumption DEF Phase
  <2>3. InsideOf[t] = None
    BY <1>2 DEF Admit, InsideOf, Admitted, Numbered
  <2>4. InsideOf' = [InsideOf EXCEPT ![t] = gActive]
    BY <1>2, <2>1 DEF Admit, InsideOf, ThreadTypes, Admitted
  <2> QED
    BY <1>1, <2>2, <2>3, <2>4 DEF Rundown!Next, Rundown!Enter
<1>3. CASE Finish(t)
  <2>1. InsideOf[t] # None
    BY <1>3, BridgeAssumption
    DEF Finish, InsideOf, ThreadBounds, Admitted
  <2>2. InsideOf' = [InsideOf EXCEPT ![t] = None]
    BY <1>3 DEF Finish, InsideOf, ThreadTypes, Admitted, Numbered
  <2> QED
    BY <1>1, <2>1, <2>2 DEF Rundown!Next, Rundown!Leave
<1>4. ASSUME Deliver(t)
      PROVE  InsideOf' = InsideOf
  BY <1>4 DEF Deliver, InsideOf, ThreadTypes, Admitted, Numbered
<1>5. ASSUME TryGate(t)
      PROVE  InsideOf' = InsideOf
  BY <1>5 DEF TryGate, InsideOf, ThreadTypes, Admitted, Numbered
<1>6. ASSUME GateBusy(t)
      PROVE  InsideOf' = InsideOf
  BY <1>6 DEF GateBusy, InsideOf, ThreadTypes, Admitted, Numbered
<1>7. ASSUME Refuse(t)
      PROVE  InsideOf' = InsideOf
  BY <1>7 DEF Refuse, GateAdmits, InsideOf, ThreadTypes, Admitted, Numbered
<1>8. ASSUME Reject(t)
      PROVE  InsideOf' = InsideOf
  BY <1>8 DEF Reject, InsideOf, ThreadTypes, Admitted, Numbered
<1>9. ASSUME FindAccepting(t)
      PROVE  InsideOf' = InsideOf
  BY <1>9 DEF FindAccepting, InsideOf, ThreadTypes, Admitted, Numbered
<1>10. ASSUME FindClosed(t)
      PROVE  InsideOf' = InsideOf
  BY <1>10 DEF FindClosed, InsideOf, ThreadTypes, Admitted, Numbered
<1>11. ASSUME Number(t)
      PROVE  InsideOf' = InsideOf
  BY <1>11 DEF Number, InsideOf, ThreadTypes, Admitted, Numbered
<1>12. ASSUME TryQueue(t)
      PROVE  InsideOf' = InsideOf
  BY <1>12 DEF TryQueue, InsideOf, ThreadTypes, Admitted, Numbered
<1>13. ASSUME QueueBusy(t)
      PROVE  InsideOf' = InsideOf
  BY <1>13 DEF QueueBusy, InsideOf, ThreadTypes, Admitted, Numbered
<1>14. ASSUME DropFrame(t)
      PROVE  InsideOf' = InsideOf
  BY <1>14 DEF DropFrame, InsideOf, ThreadTypes, Admitted, Numbered
<1>15. ASSUME Enqueue(t)
      PROVE  InsideOf' = InsideOf
  BY <1>15 DEF Enqueue, InsideOf, ThreadTypes, Admitted, Numbered
<1>16. ASSUME InsideOf' = InsideOf
      PROVE  [Rundown!Next]_(Rundown!vars)
  BY <1>1, <1>16 DEF Rundown!vars
<1> QED BY <1>2, <1>3, <1>4, <1>5, <1>6, <1>7, <1>8, <1>9, <1>10, <1>11,
     <1>12, <1>13, <1>14, <1>15, <1>16
      DEF CallbackStep

\* The lifecycle calls claim, open, shut and release it, and free captures.
LEMMA ControlRefines ==
  ASSUME IInv, NEW c \in Captures, CallStep(c) \/ ControlStep(c)
  PROVE  [Rundown!Next]_(Rundown!vars)
<1> USE BridgeAssumption DEF IInv, TypeInv, TypeOK, GlobalTypes, ControlTypes
<1>1. UNCHANGED threadVars /\ UNCHANGED InsideOf
  BY ControlFrame DEF InsideOf
<1>2. ASSUME Stutter
      PROVE  [Rundown!Next]_(Rundown!vars)
  BY <1>2 DEF Stutter, Rundown!vars
<1>3. CASE Create(c)
  <2>1. Live' = Live \cup {c} /\ c \notin Live
    BY <1>3 DEF Create, Return, Goto, Live
  <2>2. Phase' = Phase /\ gActive' = gActive
    BY <1>3 DEF Create, Return, Goto, Phase, Active
  <2> QED
    BY <1>1, <2>1, <2>2 DEF Rundown!Next, Rundown!Allocate
<1>4. CASE Register(c)
  <2>1. gActive = None /\ gCapture = None
    BY <1>4 DEF Register, Active, Gate
  <2>2. Phase = "vacant" /\ Phase' = "claimed"
    BY <1>4, <2>1 DEF Register, Goto, Phase
  <2>3. c \in Live /\ Live' = Live
    BY <1>4 DEF Register, Goto, Live
  <2> QED
    BY <1>1, <1>4, <2>2, <2>3 DEF Register, Rundown!Next, Rundown!Claim
<1>5. CASE AttachLock(c)
  <2>1. Live' = Live /\ gActive' = gActive /\ gActive = c /\ gCapture = None
    BY <1>5 DEF AttachLock, GateLock, Goto, Live, Active
  <2>2. Phase' = Phase
    BY <1>5, <2>1 DEF AttachLock, GateLock, Goto, Phase
  <2> QED
    BY <1>1, <1>2, <2>1, <2>2 DEF Stutter
<1>6. CASE Attach(c)
  <2>1. gActive = c /\ gCapture = None /\ ~ GateOccupied(c)
    BY <1>6 DEF Attach, GateOccupied, Active, Gate
  <2>2. Phase = "claimed"
    BY <1>6, <2>1 DEF Attach, Phase
  <2>3. Phase' = "open" /\ Live' = Live /\ gActive' = gActive
    BY <1>6, <2>1 DEF Attach, Goto, Phase, Live
  <2> QED
    BY <1>1, <2>2, <2>3 DEF Rundown!Next, Rundown!Open
<1>7. CASE Detach(c)
  <2>1. ctl[c] = "detach" /\ AfterDetach(c) \notin Marks
    BY <1>7 DEF Detach, AfterDetach, AfterDevice, Marks
  <2>2. CASE gCapture = c
    <3>1. gActive = c
      BY <2>2 DEF Gate
    <3>2. Phase = "open" /\ Phase' = "shut"
      BY <1>7, <2>1, <2>2, <3>1 DEF Detach, ShutGate, Goto, Phase, Marks
    <3>3. Live' = Live /\ gActive' = gActive
      BY <1>7, <2>1 DEF Detach, Goto, Live, Marks
    <3> QED
      BY <1>1, <3>2, <3>3 DEF Rundown!Next, Rundown!Shut
  <2>3. CASE gCapture # c
    <3>1. Stutter
      BY <1>1, <1>7, <2>1, <2>3, CallStutters DEF Detach, ShutGate, Marks
    <3> QED
      BY <1>2, <3>1
  <2> QED
    BY <2>2, <2>3
<1>8. CASE Settle(c)
  <2> DEFINE place == IF call[c] = "destroy" THEN "destroy_check" ELSE "idle"
  <2>1. ctl[c] \notin Marks /\ place \notin Marks /\ Goto(c, place)
    BY <1>8 DEF Settle, Marks
  <2>2. CASE CleanedUp(c)
    <3>1. gActive = c /\ gCapture = None /\ Inside(c) = {}
      BY <2>2 DEF CleanedUp, Gate, Active, Passed, Quiet
    <3>2. \A t \in Threads : InsideOf[t] = None
      BY <3>1 DEF Callbacks, Inside, InsideOf
    <3>3. Phase = "shut"
      BY <2>2, <3>1 DEF CleanedUp, Phase
    <3>4. gActive' = None /\ Phase' = "vacant"
      <4>1. gActive' = None /\ gCapture' = None
        BY <1>8, <2>2, <3>1 DEF Settle
      <4> QED
        BY <4>1 DEF Phase
    <3>5. Live' = Live
      BY <2>1 DEF Goto, Live, Marks
    <3> QED
      BY <1>1, <3>2, <3>3, <3>4, <3>5 DEF Rundown!Next, Rundown!Release
  <2>3. CASE ~ CleanedUp(c)
    <3>1. UNCHANGED <<gActive, gCapture>>
      BY <1>8, <2>3 DEF Settle
    <3>2. Stutter
      BY <1>1, <2>1, <3>1, CallStutters
    <3> QED
      BY <1>2, <3>2
  <2> QED
    BY <2>2, <2>3
<1>9. CASE Free(c)
  <2>1. gActive # c
    BY <1>9 DEF Free, MayFree, Active
  <2>2. c \in Live /\ Live' = Live \ {c}
    BY <1>9 DEF Free, Goto, Live
  <2>3. Phase' = Phase /\ gActive' = gActive
    BY <1>9, <2>1 DEF Free, Goto, Phase
  <2> QED
    BY <1>1, <2>1, <2>2, <2>3 DEF Rundown!Next, Rundown!Free
<1>10. CASE StartRefused(c)
  BY <1>1, <1>2, <1>10, CallStutters DEF StartRefused, Begin, Return, Marks
<1>11. CASE StartCalled(c)
  BY <1>1, <1>2, <1>11, CallStutters DEF StartCalled, Begin, Marks
<1>12. CASE PollCalled(c)
  BY <1>1, <1>2, <1>12, CallStutters DEF PollCalled, Begin, Marks
<1>13. CASE StartBlocked(c)
  BY <1>1, <1>2, <1>13, CallStutters DEF StartBlocked, Return, Marks
<1>14. CASE StartLock(c)
  BY <1>1, <1>2, <1>14, CallStutters DEF StartLock, Marks
<1>15. CASE StartReset(c)
  BY <1>1, <1>2, <1>15, CallStutters DEF StartReset, Marks
<1>16. CASE PoolExhausted(c)
  BY <1>1, <1>2, <1>16, CallStutters DEF PoolExhausted, PoolIsExhausted,
       Return, Marks
<1>17. CASE StartToken(c)
  BY <1>1, <1>2, <1>17, CallStutters DEF StartToken, PoolIsExhausted, Marks
<1>18. CASE RegisterFails(c)
  BY <1>1, <1>2, <1>18, CallStutters DEF RegisterFails, Return, Marks
<1>19. CASE DeviceStart(c)
  BY <1>1, <1>2, <1>19, CallStutters DEF DeviceStart, Return, Marks
<1>20. CASE DeviceStartFails(c)
  BY <1>1, <1>2, <1>20, CallStutters DEF DeviceStartFails, Marks
<1>21. CASE StopLock(c)
  BY <1>1, <1>2, <1>21, CallStutters DEF StopLock, Marks
<1>22. CASE DetachLock(c)
  BY <1>1, <1>2, <1>22, CallStutters DEF DetachLock, GateLock, Marks
<1>23. CASE DeviceStop(c)
  BY <1>1, <1>2, <1>23, CallStutters DEF DeviceStop, AfterDevice, Marks
<1>24. CASE DeviceStopFails(c)
  BY <1>1, <1>2, <1>24, CallStutters DEF DeviceStopFails, AfterDevice, Marks
<1>25. CASE Unregister(c)
  BY <1>1, <1>2, <1>25, CallStutters DEF Unregister, Marks
<1>26. CASE UnregisterFails(c)
  BY <1>1, <1>2, <1>26, CallStutters DEF UnregisterFails, Marks
<1>27. CASE FindQuiesced(c)
  BY <1>1, <1>2, <1>27, CallStutters DEF FindQuiesced, Marks
<1>28. CASE FindBusy(c)
  BY <1>1, <1>2, <1>28, CallStutters DEF FindBusy, AfterAttempt, Marks
<1>29. CASE DestroyRefused(c)
  BY <1>1, <1>2, <1>29, CallStutters DEF DestroyRefused, Return, Marks
<1>30. CASE PollLock(c)
  BY <1>1, <1>2, <1>30, CallStutters DEF PollLock, Marks
<1>31. CASE Poll(c)
  BY <1>1, <1>2, <1>31, CallStutters DEF Poll, Marks
<1>32. ASSUME NEW name \in {"stop", "destroy"}, StopCalled(c, name)
      PROVE  [Rundown!Next]_(Rundown!vars)
  BY <1>1, <1>2, <1>32, CallStutters DEF StopCalled, Begin, Marks
<1> QED BY <1>3, <1>4, <1>5, <1>6, <1>7, <1>8, <1>9, <1>10, <1>11, <1>12,
     <1>13, <1>14, <1>15, <1>16, <1>17, <1>18, <1>19, <1>20, <1>21, <1>22,
     <1>23, <1>24, <1>25, <1>26, <1>27, <1>28, <1>29, <1>30, <1>31, <1>32
      DEF CallStep, ControlStep

\* The bridge implements the session: it opens once, callbacks enter only the
\* capture that has it, and the capture is neither restarted nor freed before
\* the last of them has left.
THEOREM BridgeImplementsRundown == Spec => ImplementsRundown
<1>1. Init => Rundown!Init
  BY DEF Init, Rundown!Init, Live, Phase, InsideOf, Admitted, Numbered
<1>2. IInv /\ [Next]_vars => [Rundown!Next]_(Rundown!vars)
  <2> SUFFICES ASSUME IInv, [Next]_vars
               PROVE  [Rundown!Next]_(Rundown!vars)
    OBVIOUS
  <2>1. CASE UNCHANGED vars
    BY <2>1 DEF Rundown!vars, Live, Phase, InsideOf
  <2> QED
    BY <2>1, CallbackRefines, ControlRefines DEF Next
<1> QED
  BY <1>1, <1>2, Invariance, PTL DEF Spec, ImplementsRundown, Rundown!Spec
===============================================================================
