------------------------------ MODULE OwnerProofs ------------------------------
(***************************************************************************)
(* What the owner of a capture may take for granted, for any number of     *)
(* captures and threads: the bridge is, for each capture, the CaptureView  *)
(* that the models of the Python code are built on, and a get_stats taken  *)
(* while callbacks run reports what CaptureStatistics says.                *)
(***************************************************************************)
EXTENDS BridgeSafety, BridgeView, CaptureStatistics

USE DEF vars, globalVars, gateVars, sessionVars, queueVars, controlVars,
        threadVars, worldVars, lifecycleVars, bridgeVars, recordVars,
        callbackVars

-------------------------------------------------------------------------------
(***************************************************************************)
(* What the view of a capture rests on, beyond the invariant so far.       *)
(***************************************************************************)

\* The session of a capture goes up and down in order.
InSession ==
  \A c \in Captures :
    /\ accepting[c] => gCapture = c
    /\ ctl[c] \in {"attach_lock", "attach", "device_start"} => ~ running[c]
    /\ ctl[c] \in {"attach_lock", "attach"} => Inside(c) = {}
    /\ ctl[c] = "device_stop" => running[c]
    /\ ctl[c] = "unregister" => registered[c]

\* No capture has numbered more callbacks than were delivered and have come
\* that far.
Awaited ==
  {t \in Threads :
     cb[t] \in {"enter", "gate", "reject", "admitted", "accepted"}}
Delivered ==
  /\ \A c \in Captures : count[c].callback + Cardinality(Awaited) <= invoked
  /\ \A t \in Threads : cb[t] \in Numbered => sequence[t] <= MaxCallbacks

ViewInv == SessionInv /\ InSession /\ Delivered

\* A callback enters only through the gate, and so no capture about to attach.
LEMMA InSessionCallback ==
  ASSUME IInv, InSession, NEW t \in Threads, Deliver(t) \/ CallbackStep(t)
  PROVE  InSession'
<1>1. UNCHANGED <<accepting, gCapture, running, registered, ctl>>
  BY CallbackFrame
<1>2. ASSUME NEW c \in Captures, ctl[c] \in {"attach_lock", "attach"}
      PROVE  Inside(c)' = {}
  <2>1. Inside(c) = {} /\ gCapture = None
    BY <1>2 DEF InSession, IInv, Active
  <2>2. t \notin Inside(c)'
    <3>1. CASE Admit(t)
      BY <2>1, <3>1 DEF Admit, GateAdmits
    <3>2. CASE ~ Admit(t)
      BY <2>1, <3>2
      DEF CallbackStep, Deliver, TryGate, GateBusy, Refuse, Reject,
          FindAccepting, FindClosed, Number, TryQueue, QueueBusy, DropFrame,
          Enqueue, Finish, IInv, TypeInv, TypeOK, ThreadTypes, Inside,
          Admitted, Numbered
    <3> QED
      BY <3>1, <3>2
  <2>3. \A u \in Threads \ {t} : u \notin Inside(c)'
    BY <2>1, OthersStay DEF IInv, TypeInv, Inside
  <2> QED
    BY <2>2, <2>3 DEF Inside
<1> QED
  BY <1>1, <1>2 DEF InSession

\* The calls keep the order.
LEMMA InSessionControl ==
  ASSUME IInv, InSession, NEW c \in Captures, CallStep(c) \/ ControlStep(c)
  PROVE  InSession'
<1> USE BridgeAssumption
    DEF IInv, TypeInv, TypeOK, GlobalTypes, SessionTypes, ControlTypes,
        InSession
<1>1. \A d \in Captures : Inside(d)' = Inside(d)
  BY ControlFrame DEF Inside
<1>2. CASE Create(c)
  BY <1>1, <1>2 DEF Create, Return, Goto
<1>3. CASE Register(c)
  <2>1. Inside(c) = {} /\ ~ running[c]
    BY <1>3, NobodyInside DEF Register, Inside, Active
  <2> QED
    BY <1>1, <1>3, <2>1 DEF Register, Goto
<1>4. CASE Attach(c)
  <2>1. gCapture = None
    BY <1>4 DEF Attach, Active
  <2> QED
    BY <1>1, <1>4, <2>1 DEF Attach, Return, Goto
<1>5. CASE DeviceStart(c)
  BY <1>1, <1>5 DEF DeviceStart, Return, Goto
<1>6. CASE Detach(c)
  BY <1>1, <1>6 DEF Detach, ShutGate, AfterDetach, AfterDevice, Goto
<1>7. CASE DeviceStop(c)
  BY <1>1, <1>7 DEF DeviceStop, AfterDevice, Goto
<1>8. CASE DeviceStopFails(c)
  BY <1>1, <1>8 DEF DeviceStopFails, AfterDevice, Goto
<1>9. CASE Unregister(c)
  BY <1>1, <1>9 DEF Unregister, Goto
<1>10. CASE AttachLock(c)
  BY <1>1, <1>10 DEF AttachLock, GateLock, Goto
<1>11. ASSUME NEW place, Goto(c, place),
              place \notin {"attach_lock", "attach", "device_start",
                            "device_stop", "unregister"},
              UNCHANGED <<accepting, gCapture, running, registered>>
       PROVE  InSession'
  BY <1>1, <1>11 DEF Goto
<1>12. CASE StartRefused(c) \/ StartCalled(c) \/ PollCalled(c)
            \/ \E name \in {"stop", "destroy"} : StopCalled(c, name)
  BY <1>11, <1>12 DEF StartRefused, StartCalled, PollCalled, StopCalled, Begin,
    Return
<1>13. CASE StartBlocked(c) \/ StartLock(c) \/ StartReset(c)
            \/ PoolExhausted(c) \/ StartToken(c) \/ RegisterFails(c)
  BY <1>11, <1>13 DEF StartBlocked, StartLock, StartReset, PoolExhausted,
    StartToken, RegisterFails, Return
<1>14. CASE DeviceStartFails(c) \/ StopLock(c) \/ DetachLock(c)
            \/ UnregisterFails(c) \/ FindQuiesced(c) \/ DestroyRefused(c)
            \/ Free(c) \/ PollLock(c) \/ Poll(c)
  BY <1>11, <1>14 DEF DeviceStartFails, StopLock, DetachLock, GateLock,
    UnregisterFails, FindQuiesced, DestroyRefused, Free, PollLock, Poll,
    Return
<1>15. CASE FindBusy(c)
  BY <1>11, <1>15 DEF FindBusy, AfterAttempt
<1>16. CASE Settle(c)
  BY <1>11, <1>16 DEF Settle
<1> QED BY <1>2, <1>3, <1>4, <1>5, <1>6, <1>7, <1>8, <1>9, <1>10, <1>12,
     <1>13, <1>14, <1>15, <1>16
      DEF CallStep, ControlStep

\* A delivery is awaited until it is numbered or turned away.
LEMMA DeliveredCallback ==
  ASSUME IInv, Delivered, NEW t \in Threads, Deliver(t) \/ CallbackStep(t)
  PROVE  Delivered'
<1> USE DEF IInv, TypeInv, TypeOK
<1>1. /\ Cardinality(Awaited) \in Nat /\ invoked \in 0 .. MaxCallbacks
      /\ MaxCallbacks \in Nat
      /\ t \notin Awaited /\ t \in Awaited' =>
           Cardinality(Awaited') = Cardinality(Awaited) + 1
      /\ t \in Awaited /\ t \notin Awaited' =>
           Cardinality(Awaited') = Cardinality(Awaited) - 1
      /\ (t \in Awaited <=> t \in Awaited') =>
           Cardinality(Awaited') = Cardinality(Awaited)
  <2>1. Awaited \subseteq Threads /\ Awaited' \subseteq Threads
    BY DEF Awaited
  <2>2. \A u \in Threads \ {t} : u \in Awaited <=> u \in Awaited'
    BY OthersStay DEF Awaited
  <2> QED
    BY <2>1, <2>2, OneThread, BridgeAssumption DEF GlobalTypes
<1>2. \A u \in Threads \ {t} :
        cb'[u] \in Numbered => sequence'[u] <= MaxCallbacks
  BY OthersStay DEF Delivered
<1>3. \A d \in Captures : count[d] \in Counters /\ count[d].callback \in Nat
  BY OrderTypes DEF RecordTypes
<1>4. CASE Number(t)
  <2>1. /\ target[t] \in Captures
        /\ count' = [count EXCEPT ![target[t]].callback = @ + 1]
        /\ sequence'[t] = count[target[t]].callback + 1
        /\ invoked' = invoked
        /\ t \in Awaited /\ t \notin Awaited'
    BY <1>4
    DEF Number, InCapture, ThreadTypes, ThreadBounds, Admitted, Awaited
  <2>2. \A d \in Captures :
          \/ count'[d].callback = count[d].callback
          \/ count'[d].callback = count[d].callback + 1
    <3> SUFFICES ASSUME NEW d \in Captures
                 PROVE  \/ count'[d].callback = count[d].callback
                        \/ count'[d].callback = count[d].callback + 1
      OBVIOUS
    <3>1. \/ count'[d] = count[d]
          \/ count'[d] = [count[d] EXCEPT !.callback = @ + 1]
      BY <2>1, Counted DEF RecordTypes
    <3> QED
      BY <1>3, <3>1 DEF Counters
  <2>3. Cardinality(Awaited') = Cardinality(Awaited) - 1
    BY <1>1, <2>1
  <2>4. Cardinality(Awaited) >= 1
    <3>1. Awaited \subseteq Threads
      BY DEF Awaited
    <3>2. IsFiniteSet(Awaited)
      BY <3>1, BridgeAssumption, FS_Subset
    <3> QED
      BY <1>1, <2>1, <3>2, FS_EmptySet
  <2>5. sequence'[t] <= MaxCallbacks
    BY <1>1, <1>3, <2>1, <2>4 DEF Delivered
  <2>6. \A d \in Captures :
          count'[d].callback + Cardinality(Awaited') <= invoked'
    BY <1>1, <1>3, <2>1, <2>2, <2>3 DEF Delivered
  <2> QED
    BY <1>2, <2>5, <2>6 DEF Delivered
<1>5. CASE ~ Number(t)
  <2>1. \A d \in Captures : count'[d].callback = count[d].callback
    <3> SUFFICES ASSUME NEW d \in Captures
                 PROVE  count'[d].callback = count[d].callback
      OBVIOUS
    <3>1. CASE FindClosed(t) \/ DropFrame(t)
      <4>1. target[t] \in Captures
        BY <3>1 DEF FindClosed, DropFrame, ThreadBounds, Admitted, Numbered
      <4>2. \/ count' = [count EXCEPT ![target[t]].late = @ + 1]
            \/ count' = [count EXCEPT ![target[t]].contention = @ + 1]
        BY <3>1 DEF FindClosed, DropFrame
      <4>3. \/ count'[d] = count[d]
            \/ count'[d] = [count[d] EXCEPT !.late = @ + 1]
            \/ count'[d] = [count[d] EXCEPT !.contention = @ + 1]
        BY <4>1, <4>2, Counted DEF RecordTypes
      <4> QED
        BY <1>3, <4>3 DEF Counters
    <3>2. CASE Enqueue(t)
      <4>1. target[t] \in Captures
        BY <3>2 DEF Enqueue, ThreadBounds, Admitted, Numbered
      <4> QED
        BY <3>2, <4>1 DEF Enqueue, RecordTypes, Counters
    <3> QED
      BY <1>5, <3>1, <3>2, CallbackRecordFrame
  <2>2. /\ \/ t \notin Awaited' /\ invoked' = invoked
           \/ t \in Awaited /\ t \in Awaited' /\ invoked' = invoked
           \/ t \notin Awaited /\ t \in Awaited' /\ invoked' = invoked + 1
        /\ cb'[t] \in Numbered =>
             cb[t] \in Numbered /\ sequence'[t] = sequence[t]
    BY <1>5
    DEF CallbackStep, Deliver, TryGate, GateBusy, Admit, Refuse, Reject,
        FindAccepting, FindClosed, TryQueue, QueueBusy, DropFrame, Enqueue,
        Finish, InCapture, ThreadTypes, Numbered, Awaited
  <2>3. Cardinality(Awaited') - Cardinality(Awaited) <= invoked' - invoked
        /\ Cardinality(Awaited') \in Int /\ invoked' \in Int
    BY <1>1, <2>2
  <2>4. \A d \in Captures :
          count'[d].callback + Cardinality(Awaited') <= invoked'
    BY <1>1, <1>3, <2>1, <2>3 DEF Delivered
  <2> QED
    BY <1>2, <2>2, <2>4 DEF Delivered
<1> QED
  BY <1>4, <1>5

\* A call awaits nobody, and numbers nothing.
LEMMA DeliveredControl ==
  ASSUME IInv, Delivered, NEW c \in Captures, CallStep(c) \/ ControlStep(c)
  PROVE  Delivered'
<1>1. UNCHANGED <<threadVars, invoked>> /\ Awaited' = Awaited
  BY ControlFrame DEF Awaited
<1>2. ASSUME NEW d \in Captures
      PROVE  /\ count'[d].callback <= count[d].callback
             /\ count'[d].callback \in Nat /\ count[d].callback \in Nat
  <2>1. count[d].callback \in Nat /\ count \in [Captures -> Counters]
    BY OrderTypes
  <2>2. CASE Create(c) \/ StartReset(c)
    BY <2>1, <2>2 DEF Create, StartReset, NoCounts
  <2>3. CASE ~ (Create(c) \/ StartReset(c))
    BY <2>1, <2>3, RecordFrame DEF StartToken, Poll, IInv, TypeInv
  <2> QED
    BY <2>2, <2>3
<1>3. Cardinality(Awaited) \in Nat
  <2>1. Awaited \subseteq Threads
    BY DEF Awaited
  <2> QED
    BY <2>1, BridgeAssumption, FS_Subset, FS_CardinalityType
<1>4. invoked \in Nat
  BY BridgeAssumption DEF IInv, TypeInv, TypeOK, GlobalTypes
<1>5. \A d \in Captures : count'[d].callback + Cardinality(Awaited') <= invoked'
  BY <1>1, <1>2, <1>3, <1>4 DEF Delivered
<1> QED
  BY <1>1, <1>5 DEF Delivered

\* The invariant holds of every reachable state.
LEMMA ViewInvariance == Spec => []ViewInv
<1>1. Init => InSession /\ Delivered
  <2> SUFFICES ASSUME Init
               PROVE  InSession /\ Delivered
    OBVIOUS
  <2>1. Cardinality(Awaited) = 0
    <3>1. Awaited = {}
      BY DEF Init, Awaited
    <3> QED
      BY <3>1, FS_EmptySet
  <2>2. Delivered
    BY <2>1 DEF Init, Delivered, NoCounts, Numbered
  <2> QED
    BY <2>2 DEF Init, InSession
<1>2. IInv /\ InSession /\ Delivered /\ [Next]_vars => InSession' /\ Delivered'
  <2> SUFFICES ASSUME IInv, InSession, Delivered, [Next]_vars
               PROVE  InSession' /\ Delivered'
    OBVIOUS
  <2>1. CASE UNCHANGED vars
    BY <2>1 DEF InSession, Inside, Delivered, Awaited
  <2> QED
    BY <2>1, InSessionCallback, InSessionControl, DeliveredCallback,
       DeliveredControl DEF Next
<1>3. SessionInv => IInv
  BY DEF SessionInv
<1>4. ViewInv <=> SessionInv /\ InSession /\ Delivered
  BY DEF ViewInv
<1> QED
  BY <1>1, <1>2, <1>3, <1>4, SessionInvariance, PTL DEF Spec

-------------------------------------------------------------------------------
(***************************************************************************)
(* How a callback moves through the view of a capture.                     *)
(***************************************************************************)
Place == {"admitted", "accepted", "numbered", "leaving"}

\* The places of the view are places of a callback, and no two are one.
LEMMA PlacesDiffer ==
  /\ DOMAIN PlaceOf = Place
  /\ PlaceOf["admitted"] = {"admitted"} /\ PlaceOf["accepted"] = {"accepted"}
  /\ PlaceOf["numbered"] = Numbered /\ PlaceOf["leaving"] = {"finish"}
  /\ \A p, q \in Place : p # q => PlaceOf[p] \cap PlaceOf[q] = {}
  BY DEF PlaceOf, Place, Numbered

\* A step moves one callback at most.
LEMMA AtMoves ==
  ASSUME TypeOK, NEW t \in Threads, Deliver(t) \/ CallbackStep(t),
         NEW d \in Captures, NEW p \in Place
  PROVE  /\ Cardinality(At(d, p)) \in Nat
         /\ t \in At(d, p) => Cardinality(At(d, p)) > 0
         /\ t \notin At(d, p) /\ t \in At(d, p)' =>
              Cardinality(At(d, p)') = Cardinality(At(d, p)) + 1
         /\ t \in At(d, p) /\ t \notin At(d, p)' =>
              Cardinality(At(d, p)') = Cardinality(At(d, p)) - 1
         /\ (t \in At(d, p) <=> t \in At(d, p)') =>
              Cardinality(At(d, p)') = Cardinality(At(d, p))
<1>1. At(d, p) \subseteq Threads /\ At(d, p)' \subseteq Threads
  BY DEF At, Inside
<1>2. \A u \in Threads \ {t} : u \in At(d, p) <=> u \in At(d, p)'
  BY OthersStay DEF At, Inside
<1>3. IsFiniteSet(At(d, p))
  BY <1>1, BridgeAssumption, FS_Subset
<1>4. t \in At(d, p) => Cardinality(At(d, p)) > 0
  BY <1>3, FS_EmptySet, FS_CardinalityType
<1> QED
  BY <1>1, <1>2, <1>4, OneThread

\* A callback that the gate admits is one more at the place it comes to.
LEMMA Entered ==
  ASSUME TypeOK, NEW t \in Threads, Deliver(t) \/ CallbackStep(t),
         NEW d \in Captures, NEW to \in Place,
         t \notin Inside(d), t \in Inside(d)', cb'[t] \in PlaceOf[to]
  PROVE  HowMany(d)' = [HowMany(d) EXCEPT ![to] = @ + 1]
<1>1. \A p \in Place : /\ t \notin At(d, p)
                       /\ t \in At(d, p)' <=> p = to
  BY PlacesDiffer DEF At
<1>2. \A p \in Place :
        Cardinality(At(d, p)') =
          IF p = to THEN Cardinality(At(d, p)) + 1 ELSE Cardinality(At(d, p))
  BY <1>1, AtMoves
<1> QED
  BY <1>2, PlacesDiffer DEF HowMany

\* One that moves on inside is one less where it was, and one more where it
\* comes to.
LEMMA Moved ==
  ASSUME TypeOK, NEW t \in Threads, Deliver(t) \/ CallbackStep(t),
         NEW d \in Captures, NEW from \in Place, NEW to \in Place, from # to,
         t \in Inside(d), t \in Inside(d)',
         cb[t] \in PlaceOf[from], cb'[t] \in PlaceOf[to]
  PROVE  /\ HowMany(d)[from] > 0
         /\ HowMany(d)' = [HowMany(d) EXCEPT ![from] = @ - 1, ![to] = @ + 1]
<1>1. \A p \in Place : /\ t \in At(d, p) <=> p = from
                       /\ t \in At(d, p)' <=> p = to
  BY PlacesDiffer DEF At
<1>2. \A p \in Place :
        Cardinality(At(d, p)') =
          IF p = to THEN Cardinality(At(d, p)) + 1
          ELSE IF p = from THEN Cardinality(At(d, p)) - 1
          ELSE Cardinality(At(d, p))
  BY <1>1, AtMoves
<1>3. Cardinality(At(d, from)) > 0
  BY <1>1, AtMoves
<1> QED
  BY <1>2, <1>3, PlacesDiffer DEF HowMany

\* One that leaves is one less where it was.
LEMMA Gone ==
  ASSUME TypeOK, NEW t \in Threads, Deliver(t) \/ CallbackStep(t),
         NEW d \in Captures, NEW from \in Place,
         t \in Inside(d), t \notin Inside(d)', cb[t] \in PlaceOf[from]
  PROVE  /\ HowMany(d)[from] > 0
         /\ HowMany(d)' = [HowMany(d) EXCEPT ![from] = @ - 1]
<1>1. \A p \in Place : /\ t \in At(d, p) <=> p = from
                       /\ t \notin At(d, p)'
  BY PlacesDiffer DEF At
<1>2. \A p \in Place :
        Cardinality(At(d, p)') =
          IF p = from THEN Cardinality(At(d, p)) - 1 ELSE Cardinality(At(d, p))
  BY <1>1, AtMoves
<1>3. Cardinality(At(d, from)) > 0
  BY <1>1, AtMoves
<1> QED
  BY <1>2, <1>3, PlacesDiffer DEF HowMany

\* One that stays where it is, inside or outside, changes nothing.
LEMMA Stayed ==
  ASSUME TypeOK, NEW t \in Threads, Deliver(t) \/ CallbackStep(t),
         NEW d \in Captures,
         t \in Inside(d) <=> t \in Inside(d)',
         t \in Inside(d) =>
           \A p \in Place : cb[t] \in PlaceOf[p] <=> cb'[t] \in PlaceOf[p]
  PROVE  HowMany(d)' = HowMany(d)
<1>1. \A p \in Place : t \in At(d, p) <=> t \in At(d, p)'
  BY DEF At
<1>2. \A p \in Place : Cardinality(At(d, p)') = Cardinality(At(d, p))
  BY <1>1, AtMoves
<1> QED
  BY <1>2, PlacesDiffer DEF HowMany

-------------------------------------------------------------------------------
(***************************************************************************)
(* Each step is a step of the view of each capture, or none.               *)
(***************************************************************************)
\* Nothing that the view of d shows changes but, perhaps, where callbacks are.
SameSession(d) ==
  /\ running'[d] = running[d] /\ registered'[d] = registered[d]
  /\ accepting'[d] = accepting[d]
  /\ ctl'[d] = "absent" <=> ctl[d] = "absent"

\* A step that changes nothing of a capture is none of its view.
LEMMA ViewStutters ==
  ASSUME NEW d, SameSession(d), HowMany(d)' = HowMany(d),
         CountsOf(d)' = CountsOf(d), queue'[d] = queue[d]
  PROVE  ViewStep(d)
  BY DEF ViewStep, SameSession, View!viewVars, View!sessionVars

\* Counting a callback, in the view.
LEMMA CountsMove ==
  ASSUME count \in [Captures -> Counters], NEW d \in Captures
  PROVE  /\ count' = [count EXCEPT ![d].callback = @ + 1] =>
              CountsOf(d)' = [CountsOf(d) EXCEPT !["callback"] = @ + 1]
         /\ count' = [count EXCEPT ![d].contention = @ + 1] =>
              CountsOf(d)' = [CountsOf(d) EXCEPT !["contention"] = @ + 1]
         /\ count' = [count EXCEPT ![d].late = @ + 1] =>
              CountsOf(d)' = CountsOf(d)
         /\ count'[d] = count[d] => CountsOf(d)' = CountsOf(d)
  BY DEF CountsOf, Counters

\* The callbacks are those of the view: admitted through the open gate,
\* numbered once, with a frame stored or dropped, and gone.
LEMMA CallbackViewed ==
  ASSUME ViewInv, NEW t \in Threads, Deliver(t) \/ CallbackStep(t),
         NEW d \in Captures
  PROVE  ViewStep(d)
<1> USE DEF ViewInv, SessionInv, IInv, TypeInv, TypeOK
<1>1. SameSession(d)
  BY CallbackFrame DEF SameSession
<1>2. CASE target[t] # d /\ target'[t] # d
  <2>1. t \notin Inside(d) /\ t \notin Inside(d)'
    BY <1>2 DEF Inside
  <2>2. count'[d] = count[d] /\ queue'[d] = queue[d]
    BY <1>2
    DEF CallbackStep, Deliver, TryGate, GateBusy, Admit, Refuse, Reject,
        FindAccepting, FindClosed, Number, TryQueue, QueueBusy, DropFrame,
        Enqueue, Finish, RecordTypes
  <2> QED
    BY <1>1, <2>1, <2>2, Stayed, CountsMove, ViewStutters DEF RecordTypes
<1>3. CASE Admit(t) /\ gCapture = d
  <2>1. /\ t \notin Inside(d) /\ t \in Inside(d)'
        /\ cb'[t] = "admitted" /\ UNCHANGED <<count, queue>> /\ accepting[d]
    BY <1>3, BridgeAssumption
    DEF Admit, ThreadTypes, Inside, Admitted, Numbered, Gate, GateAdmits
  <2>2. HowMany(d)' = [HowMany(d) EXCEPT !["admitted"] = @ + 1]
    BY <2>1, Entered, PlacesDiffer DEF Place
  <2>3. View(d)!Admit
    BY <1>1, <2>1, <2>2, CountsMove
    DEF View!Admit, View!sessionVars, SameSession, RecordTypes
  <2> QED
    BY <2>3 DEF ViewStep, View!ViewNext
<1>4. CASE FindAccepting(t) /\ target[t] = d
  <2>1. /\ t \in Inside(d) /\ t \in Inside(d)'
        /\ cb[t] = "admitted" /\ cb'[t] = "accepted"
        /\ UNCHANGED <<count, queue>> /\ accepting[d]
    BY <1>4 DEF FindAccepting, ThreadTypes, Inside, Admitted
  <2>2. /\ HowMany(d)["admitted"] > 0
        /\ HowMany(d)' = [HowMany(d) EXCEPT !["admitted"] = @ - 1,
                                            !["accepted"] = @ + 1]
    BY <2>1, Moved, PlacesDiffer DEF Place
  <2>3. View(d)!FindAccepting
    BY <1>1, <2>1, <2>2, CountsMove
    DEF View!FindAccepting, View!Move, View!sessionVars, SameSession,
        RecordTypes
  <2> QED
    BY <2>3 DEF ViewStep, View!ViewNext
<1>5. CASE FindClosed(t) /\ target[t] = d
  <2>1. /\ t \in Inside(d) /\ t \in Inside(d)'
        /\ cb[t] = "admitted" /\ cb'[t] = "finish"
        /\ count' = [count EXCEPT ![d].late = @ + 1]
        /\ UNCHANGED queue /\ ~ accepting[d]
    BY <1>5 DEF FindClosed, ThreadTypes, Inside, Admitted
  <2>2. /\ HowMany(d)["admitted"] > 0
        /\ HowMany(d)' = [HowMany(d) EXCEPT !["admitted"] = @ - 1,
                                            !["leaving"] = @ + 1]
    BY <2>1, Moved, PlacesDiffer DEF Place
  <2>3. View(d)!FindClosed
    BY <1>1, <2>1, <2>2, CountsMove
    DEF View!FindClosed, View!Move, View!sessionVars, SameSession,
        RecordTypes
  <2> QED
    BY <2>3 DEF ViewStep, View!ViewNext
<1>6. CASE Number(t) /\ target[t] = d
  <2>1. /\ t \in Inside(d) /\ t \in Inside(d)'
        /\ cb[t] = "accepted" /\ cb'[t] = "numbered"
        /\ count' = [count EXCEPT ![d].callback = @ + 1]
        /\ UNCHANGED queue
    BY <1>6 DEF Number, ThreadTypes, Inside, Admitted, Numbered
  <2>2. /\ HowMany(d)["accepted"] > 0
        /\ HowMany(d)' = [HowMany(d) EXCEPT !["accepted"] = @ - 1,
                                            !["numbered"] = @ + 1]
    BY <2>1, Moved, PlacesDiffer DEF Place, Numbered
  <2>3. View(d)!Number
    BY <1>1, <2>1, <2>2, CountsMove
    DEF View!Number, View!Move, View!Count, View!sessionVars, SameSession,
        RecordTypes
  <2> QED
    BY <2>3 DEF ViewStep, View!ViewNext
<1>7. CASE DropFrame(t) /\ target[t] = d
  <2>1. /\ t \in Inside(d) /\ t \in Inside(d)'
        /\ cb[t] = "contended" /\ cb'[t] = "finish"
        /\ count' = [count EXCEPT ![d].contention = @ + 1]
        /\ UNCHANGED queue
    BY <1>7 DEF DropFrame, ThreadTypes, Inside, Admitted, Numbered
  <2>2. /\ HowMany(d)["numbered"] > 0
        /\ HowMany(d)' = [HowMany(d) EXCEPT !["numbered"] = @ - 1,
                                            !["leaving"] = @ + 1]
    BY <2>1, Moved, PlacesDiffer DEF Place, Numbered
  <2>3. View(d)!DropFrame
    BY <1>1, <2>1, <2>2, CountsMove
    DEF View!DropFrame, View!Move, View!Count, View!sessionVars, SameSession,
        RecordTypes
  <2> QED
    BY <2>3 DEF ViewStep, View!ViewNext
<1>8. CASE Enqueue(t) /\ target[t] = d
  <2> DEFINE f == [sequence |-> sequence[t], refcon |-> refcon[t]]
  <2>1. /\ t \in Inside(d) /\ t \in Inside(d)'
        /\ cb[t] = "enqueue" /\ cb'[t] = "finish"
        /\ queue'[d] = Push(queue[d], f)
    BY <1>8 DEF Enqueue, ThreadTypes, RecordTypes, Inside, Admitted, Numbered
  <2>2. f \in FramesInBound
    BY <1>8 DEF Enqueue, FramesInBound, Delivered, ThreadBounds, ThreadTypes,
      Admitted, Numbered
  <2>3. CountsOf(d)' = IF IsFull(queue[d])
                       THEN [CountsOf(d) EXCEPT !["overwrite"] = @ + 1]
                       ELSE CountsOf(d)
    BY <1>8 DEF Enqueue, CountsOf, RecordTypes, Counters
  <2>4. /\ HowMany(d)["numbered"] > 0
        /\ HowMany(d)' = [HowMany(d) EXCEPT !["numbered"] = @ - 1,
                                            !["leaving"] = @ + 1]
    BY <2>1, Moved, PlacesDiffer DEF Place, Numbered
  <2>5. View(d)!Enqueue(f)
    BY <1>1, <2>1, <2>3, <2>4
    DEF View!Enqueue, View!Move, View!Count, View!sessionVars, View!Push,
        View!IsFull, Push, IsFull, SameSession
  <2> QED
    BY <2>2, <2>5 DEF ViewStep, View!ViewNext
<1>9. CASE Finish(t) /\ target[t] = d
  <2>1. /\ t \in Inside(d) /\ t \notin Inside(d)'
        /\ cb[t] = "finish" /\ UNCHANGED <<count, queue>>
    BY <1>9, BridgeAssumption DEF Finish, ThreadTypes, Inside, Admitted,
      Numbered
  <2>2. /\ HowMany(d)["leaving"] > 0
        /\ HowMany(d)' = [HowMany(d) EXCEPT !["leaving"] = @ - 1]
    BY <2>1, Gone, PlacesDiffer DEF Place
  <2>3. View(d)!Leave
    BY <1>1, <2>1, <2>2, CountsMove
    DEF View!Leave, View!sessionVars, SameSession, RecordTypes
  <2> QED
    BY <2>3 DEF ViewStep, View!ViewNext
<1>10. CASE TryQueue(t) \/ QueueBusy(t)
  <2>1. /\ t \in Inside(d) <=> t \in Inside(d)'
        /\ cb[t] \in Numbered /\ cb'[t] \in Numbered
        /\ UNCHANGED <<count, queue>>
    BY <1>10
    DEF TryQueue, QueueBusy, ThreadTypes, Inside, Admitted, Numbered
  <2>2. \A p \in Place : cb[t] \in PlaceOf[p] <=> cb'[t] \in PlaceOf[p]
    BY <2>1 DEF Place, PlaceOf, Numbered
  <2> QED
    BY <1>1, <2>1, <2>2, Stayed, CountsMove, ViewStutters DEF RecordTypes
<1>11. CASE Deliver(t) \/ TryGate(t) \/ GateBusy(t) \/ Refuse(t) \/ Reject(t)
  <2>1. /\ t \notin Inside(d) /\ t \notin Inside(d)'
        /\ UNCHANGED <<count, queue>>
    BY <1>11
    DEF Deliver, TryGate, GateBusy, Refuse, Reject, ThreadTypes, Inside,
        Admitted, Numbered
  <2> QED
    BY <1>1, <2>1, Stayed, CountsMove, ViewStutters DEF RecordTypes
<1>12. CASE Admit(t) /\ gCapture # d /\ target[t] = d
  <2>1. /\ t \notin Inside(d) /\ t \notin Inside(d)'
        /\ UNCHANGED <<count, queue>>
    BY <1>12 DEF Admit, ThreadTypes, Inside, Admitted, Numbered
  <2> QED
    BY <1>1, <2>1, Stayed, CountsMove, ViewStutters DEF RecordTypes
<1>13. Admit(t) => target'[t] = gCapture
  BY DEF Admit, ThreadTypes
<1>14. FindAccepting(t) \/ FindClosed(t) \/ Number(t) \/ DropFrame(t)
       \/ Enqueue(t) => target'[t] = target[t]
  BY DEF FindAccepting, FindClosed, Number, DropFrame, Enqueue
<1>15. Finish(t) => target'[t] # d
  BY BridgeAssumption DEF Finish, ThreadTypes
<1> QED
  BY <1>2, <1>3, <1>4, <1>5, <1>6, <1>7, <1>8, <1>9, <1>10, <1>11, <1>12,
     <1>13, <1>14, <1>15 DEF CallbackStep

\* The view of a capture with nobody in it.
LEMMA NobodyViewed ==
  ASSUME NEW d \in Captures, Inside(d) = {}
  PROVE  HowMany(d) = View(d)!Nobody
<1>1. \A p \in Place : At(d, p) = {}
  BY DEF At
<1>2. \A p \in Place : Cardinality(At(d, p)) = 0
  BY <1>1, FS_EmptySet
<1> QED
  BY <1>2, PlacesDiffer DEF HowMany, View!Nobody, View!Places, Place

\* A call moves no callback, and changes nothing of another capture.
LEMMA CallViewed ==
  ASSUME TypeOK, NEW c \in Captures, CallStep(c) \/ ControlStep(c),
         NEW d \in Captures
  PROVE  /\ Inside(d)' = Inside(d) /\ HowMany(d)' = HowMany(d)
         /\ d # c => ViewStep(d)
<1>1. /\ Inside(d)' = Inside(d)
      /\ \A p \in DOMAIN PlaceOf : At(d, p)' = At(d, p)
  BY ControlFrame DEF Inside, At
<1>2. HowMany(d)' = HowMany(d)
  BY <1>1 DEF HowMany
<1>3. ASSUME d # c
      PROVE  ViewStep(d)
  <2> USE DEF TypeOK, SessionTypes, ControlTypes, RecordTypes
  <2>1. count'[d] = count[d] /\ queue'[d] = queue[d]
    <3>1. CASE Create(c)
      BY <1>3, <3>1 DEF Create
    <3>2. CASE StartReset(c)
      BY <1>3, <3>2 DEF StartReset, EmptyQueue
    <3>3. CASE Poll(c)
      BY <1>3, <3>3 DEF Poll, TakeFrame
    <3>4. CASE StartToken(c)
      BY <3>4 DEF StartToken
    <3> QED
      BY <3>1, <3>2, <3>3, <3>4, RecordFrame
  <2>2. /\ running'[d] = running[d] /\ registered'[d] = registered[d]
        /\ accepting'[d] = accepting[d] /\ ctl'[d] = ctl[d]
    <3> USE <1>3 DEF Return, Goto
    <3>1. CASE CallStep(c)
      BY <3>1 DEF CallStep, Create, StartRefused, StartCalled, PollCalled,
        StopCalled, Begin
    <3>2. CASE Register(c)
      BY <3>2 DEF Register
    <3>3. CASE Attach(c)
      BY <3>3 DEF Attach
    <3>4. CASE DeviceStart(c)
      BY <3>4 DEF DeviceStart
    <3>5. CASE Detach(c)
      BY <3>5 DEF Detach
    <3>6. CASE DeviceStop(c)
      BY <3>6 DEF DeviceStop
    <3>7. CASE Unregister(c)
      BY <3>7 DEF Unregister
    <3>8. CASE ControlStep(c) /\ ~ Register(c) /\ ~ Attach(c)
               /\ ~ DeviceStart(c) /\ ~ Detach(c) /\ ~ DeviceStop(c)
               /\ ~ Unregister(c)
      BY <3>8 DEF ControlStep, GateLock, StartBlocked, StartLock,
        StartReset, PoolExhausted, StartToken, RegisterFails, AttachLock,
        DeviceStartFails, StopLock, DetachLock, DeviceStopFails,
        UnregisterFails, FindQuiesced, FindBusy, Settle, DestroyRefused, Free,
        PollLock, Poll
    <3> QED
      BY <3>1, <3>2, <3>3, <3>4, <3>5, <3>6, <3>7, <3>8
  <2> QED
    BY <1>2, <2>1, <2>2, CountsMove, ViewStutters DEF SameSession
<1> QED
  BY <1>1, <1>2, <1>3

\* The steps of the owner's calls are those of the view, in its order.
LEMMA ControlViewed ==
  ASSUME ViewInv, NEW c \in Captures, CallStep(c) \/ ControlStep(c)
  PROVE  ViewStep(c)
<1> USE DEF ViewInv, SessionInv, IInv, TypeInv, TypeOK, SessionTypes,
     ControlTypes, RecordTypes
<1>1. HowMany(c)' = HowMany(c) /\ None \notin Captures
  BY CallViewed, BridgeAssumption
<1>2. count'[c] = count[c] => CountsOf(c)' = CountsOf(c)
  BY CountsMove
<1>3. count'[c] = NoCounts => CountsOf(c)' = View(c)!NoCounts
  BY DEF CountsOf, NoCounts, View!NoCounts, View!Fields
<1>4. CASE Create(c)
  <2>1. HowMany(c) = View(c)!Nobody
    BY <1>4, NobodyInside, NobodyViewed DEF Create, Inside
  <2>2. View(c)!Create
    BY <1>1, <1>3, <1>4, <2>1 DEF Create, Return, Goto, View!Create
  <2> QED
    BY <2>2 DEF ViewStep, View!ViewNext
<1>5. CASE StartReset(c)
  <2>1. HowMany(c) = View(c)!Nobody
    BY <1>5, NobodyInside, NobodyViewed DEF StartReset, Inside
  <2>2. ~ running[c] /\ ~ registered[c]
    BY <1>1, <1>5 DEF StartReset, Active
  <2>3. View(c)!Reset
    BY <1>1, <1>3, <1>5, <2>1, <2>2
    DEF StartReset, EmptyQueue, Goto, View!Reset, View!Quiet,
        View!sessionVars
  <2> QED
    BY <2>3 DEF ViewStep, View!ViewNext
<1>6. CASE Register(c)
  <2>1. HowMany(c) = View(c)!Nobody
    BY <1>6, NobodyInside, NobodyViewed DEF Register, Inside
  <2>2. ~ running[c] /\ ~ registered[c]
    BY <1>1, <1>6 DEF Register, Active
  <2>3. View(c)!Register
    BY <1>1, <1>2, <1>6, <2>1, <2>2
    DEF Register, Goto, View!Register, View!Quiet
  <2> QED
    BY <2>3 DEF ViewStep, View!ViewNext
<1>7. CASE Attach(c)
  <2>1. /\ HowMany(c) = View(c)!Nobody
        /\ registered[c] /\ ~ running[c] /\ ~ accepting[c]
    BY <1>1, <1>7, NobodyViewed DEF Attach, Active, InSession
  <2>2. ~ GateOccupied(c)
    BY <1>7 DEF Attach, GateOccupied, Gate, Active
  <2>3. View(c)!Open
    BY <1>1, <1>2, <1>7, <2>1, <2>2 DEF Attach, Goto, View!Open, View!Quiet
  <2> QED
    BY <2>3 DEF ViewStep, View!ViewNext
<1>8. CASE DeviceStart(c)
  <2>1. accepting[c] /\ ~ running[c]
    BY <1>1, <1>8 DEF DeviceStart, Active, Gate, InSession
  <2>2. View(c)!StartDevice
    BY <1>1, <1>2, <1>8, <2>1
    DEF DeviceStart, Return, Goto, View!StartDevice
  <2> QED
    BY <2>2 DEF ViewStep, View!ViewNext
<1>9. CASE Detach(c)
  <2>1. View(c)!Shut
    BY <1>1, <1>2, <1>9
    DEF Detach, AfterDetach, AfterDevice, Goto, View!Shut
  <2> QED
    BY <2>1 DEF ViewStep, View!ViewNext
<1>10. CASE DeviceStop(c)
  <2>1. running[c] /\ ~ accepting[c]
    BY <1>10 DEF DeviceStop, Active, Passed, InSession
  <2>2. View(c)!StopDevice
    BY <1>1, <1>2, <1>10, <2>1
    DEF DeviceStop, AfterDevice, Goto, View!StopDevice
  <2> QED
    BY <2>2 DEF ViewStep, View!ViewNext
<1>11. CASE Unregister(c)
  <2>1. registered[c] /\ ~ accepting[c]
    BY <1>11 DEF Unregister, Active, Passed, InSession
  <2>2. View(c)!Unregister
    BY <1>1, <1>2, <1>11, <2>1 DEF Unregister, Goto, View!Unregister
  <2> QED
    BY <2>2 DEF ViewStep, View!ViewNext
<1>12. CASE Poll(c) /\ queue[c] # <<>>
  <2>1. View(c)!Poll
    BY <1>1, <1>2, <1>12
    DEF Poll, TakeFrame, Goto, View!Poll, View!sessionVars
  <2> QED
    BY <2>1 DEF ViewStep, View!ViewNext
<1>13. CASE Free(c)
  <2>1. /\ ~ running[c] /\ ~ registered[c] /\ in_flight[c] = 0
        /\ gActive # c
    BY <1>13 DEF Free, MayFree, Active
  <2>2. ~ accepting[c]
    BY <1>1, <2>1 DEF InSession, Gate
  <2>3. HowMany(c) = View(c)!Nobody
    <3>1. Inside(c) \subseteq Threads
      BY DEF Inside
    <3>2. IsFiniteSet(Inside(c)) /\ Cardinality(Inside(c)) = 0
      BY <2>1, <3>1, BridgeAssumption, FS_Subset DEF InFlightIsExact
    <3> QED
      BY <3>2, FS_EmptySet, NobodyViewed
  <2>4. View(c)!Free
    BY <1>1, <1>2, <1>13, <2>1, <2>2, <2>3
    DEF Free, Goto, View!Free, View!Quiet
  <2> QED
    BY <2>4 DEF ViewStep, View!ViewNext
<1>14. ASSUME ctl[c] # "absent", ctl'[c] # "absent",
              UNCHANGED <<running, registered, accepting, count, queue>>
       PROVE  ViewStep(c)
  BY <1>1, <1>2, <1>14, ViewStutters DEF SameSession
<1>15. CASE CallStep(c) /\ ~ Create(c)
  BY <1>14, <1>15
  DEF CallStep, StartRefused, StartCalled, PollCalled, StopCalled, Begin,
      Return, Goto
<1>16. CASE Poll(c) /\ queue[c] = <<>>
  BY <1>14, <1>16 DEF Poll, Goto
<1>17. CASE StartBlocked(c) \/ StartLock(c) \/ PoolExhausted(c)
            \/ StartToken(c) \/ RegisterFails(c) \/ AttachLock(c)
            \/ DeviceStartFails(c) \/ StopLock(c) \/ DetachLock(c)
  BY <1>14, <1>17
  DEF StartBlocked, StartLock, PoolExhausted, StartToken, RegisterFails,
      AttachLock, DeviceStartFails, StopLock, DetachLock, GateLock, Return,
      Goto
<1>18. CASE DeviceStopFails(c) \/ UnregisterFails(c) \/ FindQuiesced(c)
            \/ FindBusy(c) \/ Settle(c) \/ DestroyRefused(c) \/ PollLock(c)
  BY <1>14, <1>18
  DEF DeviceStopFails, AfterDevice, UnregisterFails, FindQuiesced, FindBusy,
      AfterAttempt, Settle, DestroyRefused, PollLock, Return, Goto
<1> QED BY <1>4, <1>5, <1>6, <1>7, <1>8, <1>9, <1>10, <1>11, <1>12, <1>13,
     <1>15, <1>16, <1>17, <1>18
      DEF CallStep, ControlStep

\* Each capture is what its view says, whatever the others do: what the models
\* of the Python code take for granted of the native bridge is proved of it.
THEOREM BridgeImplementsView == Spec => ImplementsView
<1> DEFINE Steps == \A c \in Captures : ViewStep(c)
<1>1. Init => \A c \in Captures : View(c)!ViewInit
  <2> SUFFICES ASSUME Init, NEW d \in Captures
               PROVE  View(d)!ViewInit
    OBVIOUS
  <2>1. HowMany(d) = View(d)!Nobody
    BY NobodyViewed DEF Init, Inside, Admitted, Numbered
  <2>2. CountsOf(d) = View(d)!NoCounts
    BY DEF Init, CountsOf, NoCounts, View!NoCounts, View!Fields
  <2> QED
    BY <2>1, <2>2 DEF Init, View!ViewInit
<1>2. ViewInv /\ [Next]_vars => Steps
  <2> SUFFICES ASSUME ViewInv, [Next]_vars, NEW d \in Captures
               PROVE  ViewStep(d)
    OBVIOUS
  <2>1. CASE UNCHANGED vars
    <3>1. HowMany(d)' = HowMany(d) /\ CountsOf(d)' = CountsOf(d)
      BY <2>1 DEF HowMany, CountsOf, At, Inside
    <3> QED
      BY <2>1, <3>1, ViewStutters DEF SameSession
  <2>2. TypeOK
    BY DEF ViewInv, SessionInv, IInv, TypeInv
  <2> QED
    BY <2>1, <2>2, CallbackViewed, CallViewed, ControlViewed DEF Next
<1> QED
  BY <1>1, <1>2, ViewInvariance, PTL DEF Spec, ImplementsView

-------------------------------------------------------------------------------
(***************************************************************************)
(* The statistics: what the counters, and a get_stats under way, say.      *)
(***************************************************************************)

\* The callbacks that a capture has counted and that have not returned yet, the
\* rejections charged to it, and all it reports.
Accounted(c)  == {t \in Inside(c) : cb[t] \in Numbered \cup {"finish"}}
Rejections(c) == gRejected - baseline[c]
Total(c)      == count[c].callback + count[c].late + Rejections(c)

StatsTypes ==
  /\ reading \in [Readers -> 0 .. 10]
  /\ stats \in [Readers -> [Statistics -> Int]]
  /\ due \in [Readers -> Nat] /\ own \in [Readers -> Nat]
  /\ all \in [Readers -> Nat] /\ taken \in [Readers -> Nat]

\* A baseline was taken in the past, and a session begins with no count.
FromZero ==
  \A c \in Captures :
    /\ baseline[c] <= gRejected
    /\ ctl[c] \in Starting => count[c] = NoCounts

\* Each returned callback of its session is in the total of a reader, and
\* nothing is that was over before the session began; and its queue holds what
\* its counters say.
Balanced ==
  \A c \in Readers :
    /\ own[c] + Cardinality(Accounted(c)) <= Total(c)
    /\ context[c] # NoContext =>
         Total(c) <= all[c] + Cardinality(Accounted(c))
    /\ Len(queue[c]) = count[c].enqueued - count[c].overwrite - taken[c]

\* What a get_stats under way will report if nothing more happens: what it has
\* stored, and what it has still to load.
CallbacksSeen(c) ==
  IF reading[c] > 1 THEN stats[c]["callback"] ELSE count[c].callback
LateSeen(c) ==
  CASE reading[c] > 6 -> stats[c]["late"]
    [] reading[c] = 6 -> stats[c]["late"] + Rejections(c)
    [] OTHER          -> count[c].late + Rejections(c)

\* What it has stored is what the counters still say.
StillTrue(c) ==
  /\ reading[c] > 1 => stats[c]["callback"] = count[c].callback
  /\ reading[c] > 2 => stats[c]["enqueued"] = count[c].enqueued
  /\ reading[c] > 3 => stats[c]["overwrite"] = count[c].overwrite
  /\ reading[c] > 4 => stats[c]["contention"] = count[c].contention
  /\ reading[c] > 7 => stats[c]["in_flight"] = in_flight[c]
  /\ reading[c] > 9 => stats[c]["depth"] = Len(queue[c])

\* What get_stats saw was true when it looked, and covers what was due.
Seen ==
  \A c \in Readers : reading[c] > 0 =>
    /\ ctl[c] = "idle"
    /\ due[c] <= CallbacksSeen(c) + LateSeen(c)
    /\ CallbacksSeen(c) <= count[c].callback
    /\ LateSeen(c) <= count[c].late + Rejections(c)
    /\ gActive # c => StillTrue(c)

StatsInv ==
  SessionInv /\ CallbacksAddUp /\ StatsTypes /\ FromZero /\ Balanced /\ Seen

-------------------------------------------------------------------------------
(***************************************************************************)
(* What a step of the bridge does to the account of a capture.             *)
(***************************************************************************)

\* Only a create and a start that takes a token change a baseline.
LEMMA BaselineFrame ==
  ASSUME NEW d \in Captures, CallStep(d) \/ ControlStep(d),
         ~ Create(d), ~ StartToken(d)
  PROVE  UNCHANGED baseline
  BY DEF CallStep, ControlStep, GateLock, Begin, StopCalled,
       StartRefused, StartCalled, PollCalled, StartBlocked, StartLock,
       StartReset, PoolExhausted, RegisterFails, Register,
       AttachLock, Attach, DeviceStart, DeviceStartFails, StopLock,
       DetachLock, Detach, DeviceStop, DeviceStopFails, Unregister,
       UnregisterFails, FindQuiesced, FindBusy, Settle, DestroyRefused, Free,
       PollLock, Poll

\* A call moves its own capture only, from one place of the code to another.
LEMMA ControlGoes ==
  ASSUME NEW d \in Captures, CallStep(d) \/ ControlStep(d)
  PROVE  \E place : Goto(d, place)
<1>1. CASE CallStep(d)
  BY <1>1 DEF CallStep, StopCalled, Create, StartRefused, StartCalled,
       PollCalled, Return
<1>2. CASE ControlStep(d)
  BY <1>2 DEF ControlStep, GateLock, StartBlocked, StartLock,
       StartReset, PoolExhausted, StartToken, RegisterFails, Register,
       AttachLock, Attach, DeviceStart, DeviceStartFails, StopLock,
       DetachLock, Detach, DeviceStop, DeviceStopFails, Unregister,
       UnregisterFails, FindQuiesced, FindBusy, Settle, DestroyRefused, Free,
       PollLock, Poll, Return
<1> QED
  BY <1>1, <1>2

\* A call leaves the record of any other capture as it is.
LEMMA OtherRecords ==
  ASSUME TypeOK, NEW d \in Captures, CallStep(d) \/ ControlStep(d),
         NEW c \in Captures \ {d}
  PROVE  /\ ctl'[c] = ctl[c] /\ count'[c] = count[c]
         /\ queue'[c] = queue[c] /\ context'[c] = context[c]
         /\ baseline'[c] = baseline[c]
<1> USE DEF TypeOK, ControlTypes, RecordTypes, SessionTypes
<1>1. ctl'[c] = ctl[c]
  BY ControlGoes DEF Goto
<1>2. CASE Create(d) \/ StartReset(d) \/ StartToken(d) \/ Poll(d)
  BY <1>1, <1>2 DEF Create, StartReset, EmptyQueue, StartToken, TakeToken,
       TakeBaseline, Poll, TakeFrame
<1>3. CASE ~ (Create(d) \/ StartReset(d) \/ StartToken(d) \/ Poll(d))
  BY <1>1, <1>3, RecordFrame, BaselineFrame
<1> QED
  BY <1>2, <1>3

\* The callbacks a call has counted stay where they are.
LEMMA ControlKeepsAccounted ==
  ASSUME NEW d \in Captures, CallStep(d) \/ ControlStep(d)
  PROVE  /\ \A c \in Captures : Accounted(c)' = Accounted(c)
         /\ Returned = {} /\ gRejected' = gRejected
  BY ControlFrame DEF Accounted, Inside, Returned

\* Where a call clears the counters of its capture.
LEMMA WhenCleared ==
  ASSUME TypeOK, NEW d \in Captures, CallStep(d) \/ ControlStep(d),
         NEW c \in Captures
  PROVE  /\ Clears(c) <=> /\ c = d
                          /\ \/ Create(c) \/ StartReset(c) \/ PoolExhausted(c)
                             \/ StartToken(c)
         /\ Takes(c) <=> c = d /\ Poll(c) /\ queue[c] # <<>>
<1> USE DEF TypeOK, ControlTypes
<1>1. \A p : ctl[c] = p /\ ctl'[c] # p => c = d
  BY ControlGoes DEF Goto
<1>2. ASSUME c = d, ctl[c] \in {"absent", "start_reset", "start_token"}
      PROVE  Create(c) \/ StartReset(c) \/ PoolExhausted(c) \/ StartToken(c)
  BY <1>2 DEF CallStep, ControlStep, GateLock, Begin, StopCalled,
       StartRefused, StartCalled, PollCalled, StartBlocked, StartLock,
       RegisterFails, Register,
       AttachLock, Attach, DeviceStart, DeviceStartFails, StopLock,
       DetachLock, Detach, DeviceStop, DeviceStopFails, Unregister,
       UnregisterFails, FindQuiesced, FindBusy, Settle, DestroyRefused, Free,
       PollLock, Poll
<1>3. ASSUME c = d, ctl[c] = "poll"
      PROVE  Poll(c)
  BY <1>3 DEF CallStep, ControlStep, GateLock, Begin, StopCalled, Create,
       StartRefused, StartCalled, PollCalled, StartBlocked, StartLock,
       StartReset, PoolExhausted, StartToken, RegisterFails, Register,
       AttachLock, Attach, DeviceStart, DeviceStartFails, StopLock,
       DetachLock, Detach, DeviceStop, DeviceStopFails, Unregister,
       UnregisterFails, FindQuiesced, FindBusy, Settle, DestroyRefused, Free,
       PollLock
<1>4. Create(c) \/ StartReset(c) \/ PoolExhausted(c) \/ StartToken(c) =>
        /\ ctl[c] \in {"absent", "start_reset", "start_token"}
        /\ ctl'[c] # ctl[c]
  BY DEF Create, StartReset, PoolExhausted, StartToken, Return, Goto
<1>5. Poll(c) => ctl[c] = "poll" /\ ctl'[c] # "poll"
  BY DEF Poll, Goto
<1> QED
  BY <1>1, <1>2, <1>3, <1>4, <1>5 DEF Clears, Takes

\* A callback changes by at most itself whom a capture has counted.
LEMMA AccountedMoves ==
  ASSUME TypeOK, NEW t \in Threads, Deliver(t) \/ CallbackStep(t),
         NEW c \in Captures
  PROVE  /\ Cardinality(Accounted(c)) \in Nat
         /\ Cardinality(Accounted(c)') \in Nat
         /\ t \notin Accounted(c) /\ t \in Accounted(c)' =>
              Cardinality(Accounted(c)') = Cardinality(Accounted(c)) + 1
         /\ t \in Accounted(c) /\ t \notin Accounted(c)' =>
              Cardinality(Accounted(c)') = Cardinality(Accounted(c)) - 1
         /\ (t \in Accounted(c) <=> t \in Accounted(c)') =>
              Cardinality(Accounted(c)') = Cardinality(Accounted(c))
<1>1. Accounted(c) \subseteq Threads /\ Accounted(c)' \subseteq Threads
  BY DEF Accounted, Inside
<1>2. \A u \in Threads \ {t} : u \in Accounted(c) <=> u \in Accounted(c)'
  BY OthersStay DEF Accounted, Inside
<1> QED
  BY <1>1, <1>2, OneThread

\* It returns by a reject or a finish.
LEMMA CallbackReturned ==
  ASSUME TypeOK, NEW t \in Threads, Deliver(t) \/ CallbackStep(t)
  PROVE  /\ Reject(t) \/ Finish(t) => Returned = {t}
         /\ ~ (Reject(t) \/ Finish(t)) => Returned = {}
<1> USE DEF TypeOK, ThreadTypes
<1>1. Returned \subseteq {t}
  BY OthersStay DEF Returned
<1>2. Reject(t) \/ Finish(t) => cb[t] # "idle" /\ cb'[t] = "idle"
  BY DEF Reject, Finish
<1>3. ~ (Reject(t) \/ Finish(t)) => cb'[t] # "idle"
  BY DEF CallbackStep, InCapture, Deliver, TryGate, GateBusy, Admit, Refuse,
     FindAccepting, FindClosed, Number, TryQueue, QueueBusy, DropFrame, Enqueue
<1> QED
  BY <1>1, <1>2, <1>3 DEF Returned

\* The returned callbacks of one session.
Its(c) == {t \in Returned : refcon[t] = context[c]}

\* Every callback is counted when it returns at the latest, by the capture it
\* is in or as rejected, and each once; so the total of a capture follows its
\* own callbacks, and goes ahead of all callbacks in no step.
LEMMA TotalMoves ==
  ASSUME IInv, NEW t \in Threads, Deliver(t) \/ CallbackStep(t),
         NEW c \in Captures
  PROVE  /\ Cardinality(Accounted(c)) \in Nat
         /\ Cardinality(Accounted(c)') \in Nat
         /\ Cardinality(Its(c)) \in Nat /\ Cardinality(Returned) \in Nat
         /\ count[c] \in Counters /\ count'[c] \in Counters
         /\ gRejected \in Nat /\ gRejected' \in Nat
         /\ baseline[c] \in Nat /\ baseline'[c] = baseline[c]
         /\ count'[c].callback >= count[c].callback
         /\ count'[c].late >= count[c].late
         /\ gRejected' >= gRejected
         /\ Cardinality(Accounted(c)') + Cardinality(Its(c))
              - Cardinality(Accounted(c)) <= Total(c)' - Total(c)
         /\ Total(c)' - Total(c) <= Cardinality(Accounted(c)')
              + Cardinality(Returned) - Cardinality(Accounted(c))
<1> USE DEF IInv, TypeInv, TypeOK
<1>1. /\ count \in [Captures -> Counters] /\ count[c] \in Counters
      /\ count[c].callback \in Nat /\ count[c].late \in Nat
      /\ gRejected \in Nat /\ baseline[c] \in Nat
  BY DEF RecordTypes, GlobalTypes, SessionTypes, Counters
<1>2. UNCHANGED <<context, baseline>>
  BY CallbackFrame
<1>3. /\ t \in Accounted(c) <=>
           cb[t] \in Numbered \cup {"finish"} /\ target[t] = c
      /\ t \in Accounted(c)' <=>
           cb'[t] \in Numbered \cup {"finish"} /\ target'[t] = c
  BY DEF Accounted, Inside, Admitted
<1>4. /\ Cardinality({t}) = 1 /\ IsFiniteSet({t})
      /\ Cardinality({}) = 0
  BY FS_Singleton, FS_EmptySet
<1>5. CASE Reject(t)
  <2>1. /\ gRejected' = gRejected + 1 /\ UNCHANGED count
        /\ Returned = {t}
    BY <1>5, CallbackReturned DEF Reject
  <2>2. t \notin Accounted(c) /\ t \notin Accounted(c)'
    BY <1>3, <1>5 DEF Reject, Numbered, ThreadTypes
  <2>3. Its(c) = {t} \/ Its(c) = {}
    BY <2>1 DEF Its
  <2>4. Cardinality(Accounted(c)') = Cardinality(Accounted(c))
    BY <2>2, <1>5, AccountedMoves
  <2>5. Total(c)' = Total(c) + 1
    BY <1>1, <1>2, <2>1 DEF Total, Rejections
  <2>6. Total(c) \in Int
    BY <1>1 DEF Total, Rejections
  <2>7. Cardinality(Its(c)) \in {0, 1} /\ Cardinality(Returned) = 1
    BY <1>4, <2>1, <2>3
  <2>8. Cardinality(Accounted(c)) \in Nat
    BY AccountedMoves
  <2> QED
    BY <1>1, <1>2, <2>1, <2>4, <2>5, <2>6, <2>7, <2>8
<1>6. CASE Finish(t)
  <2>1. UNCHANGED <<gRejected, count>> /\ Returned = {t}
    BY <1>6, CallbackReturned DEF Finish, InCapture
  <2>2. /\ t \notin Accounted(c)' /\ (t \in Accounted(c) <=> target[t] = c)
        /\ cb[t] = "finish"
    BY <1>3, <1>6 DEF Finish, Numbered, ThreadTypes
  <2>3. refcon[t] = context[c] => target[t] = c
    BY <2>2 DEF ThreadBounds, Callbacks, Tokens, Admitted, Contexts, NoContext
  <2>4. Its(c) \subseteq {t} /\ (target[t] # c => Its(c) = {})
    BY <2>1, <2>3 DEF Its
  <2>5. /\ Cardinality(Its(c)) \in {0, 1} /\ Cardinality(Returned) = 1
        /\ target[t] # c => Cardinality(Its(c)) = 0
    <3>1. Its(c) = {} \/ Its(c) = {t}
      BY <2>4
    <3> QED
      BY <1>4, <2>1, <2>4, <3>1
  <2>6. Cardinality(Accounted(c)') =
          Cardinality(Accounted(c)) - (IF target[t] = c THEN 1 ELSE 0)
    BY <2>2, <1>6, AccountedMoves
  <2>7. Total(c)' = Total(c) /\ Total(c) \in Int
    BY <1>1, <1>2, <2>1 DEF Total, Rejections
  <2>8. /\ Cardinality(Accounted(c)) \in Nat
        /\ Cardinality(Accounted(c)') \in Nat
    BY AccountedMoves
  <2> QED
    BY <1>1, <1>2, <2>1, <2>5, <2>6, <2>7, <2>8
<1>7. CASE Number(t) \/ FindClosed(t)
  <2>1. /\ target[t] \in Captures /\ UNCHANGED gRejected
        /\ \/ count' = [count EXCEPT ![target[t]].callback = @ + 1]
           \/ count' = [count EXCEPT ![target[t]].late = @ + 1]
    BY <1>7 DEF Number, FindClosed, InCapture, ThreadBounds, Admitted, Numbered
  <2>2. /\ t \notin Accounted(c)
        /\ t \in Accounted(c)' <=> target[t] = c
    BY <1>3, <1>7 DEF Number, FindClosed, Numbered, ThreadTypes
  <2>3. Returned = {} /\ Its(c) = {}
    BY <1>7, CallbackReturned DEF Number, FindClosed, Reject, Finish, Its
  <2>4. \/ count'[c] = count[c] /\ target[t] # c
        \/ /\ target[t] = c
           /\ \/ count'[c] = [count[c] EXCEPT !.callback = @ + 1]
              \/ count'[c] = [count[c] EXCEPT !.late = @ + 1]
    BY <1>1, <2>1, Counted
  <2>5. /\ count'[c] \in Counters
        /\ count'[c].callback >= count[c].callback
        /\ count'[c].late >= count[c].late
        /\ count'[c].callback + count'[c].late =
             count[c].callback + count[c].late
               + (IF target[t] = c THEN 1 ELSE 0)
    BY <1>1, <2>4 DEF Counters
  <2>6. Cardinality(Accounted(c)') =
          Cardinality(Accounted(c)) + (IF target[t] = c THEN 1 ELSE 0)
    BY <2>2, <1>7, AccountedMoves
  <2>7. /\ count'[c].callback \in Nat /\ count'[c].late \in Nat
    BY <2>5 DEF Counters
  <2>8. /\ Total(c)' = Total(c) + (IF target[t] = c THEN 1 ELSE 0)
        /\ Total(c) \in Int
    BY <1>1, <1>2, <2>1, <2>5, <2>7 DEF Total, Rejections
  <2>9. Cardinality(Accounted(c)) \in Nat
    BY AccountedMoves
  <2> QED
    BY <1>1, <1>2, <1>4, <2>1, <2>3, <2>5, <2>6, <2>8, <2>9
<1>8. CASE ~ (Reject(t) \/ Finish(t) \/ Number(t) \/ FindClosed(t))
  <2>1. UNCHANGED gRejected /\ Returned = {} /\ Its(c) = {}
    BY <1>8, CallbackReturned
    DEF Its, CallbackStep, InCapture, Deliver, TryGate, GateBusy, Admit,
     Refuse, FindAccepting, TryQueue, QueueBusy, DropFrame, Enqueue
  <2>2. /\ count'[c] \in Counters
        /\ count'[c].callback = count[c].callback
        /\ count'[c].late = count[c].late
    <3>1. CASE DropFrame(t) \/ Enqueue(t)
      <4>1. target[t] \in Captures
        BY <3>1 DEF DropFrame, Enqueue, ThreadBounds, Admitted, Numbered
      <4> QED
        BY <1>1, <3>1, <4>1 DEF DropFrame, Enqueue, Counters
    <3>2. CASE ~ (DropFrame(t) \/ Enqueue(t))
      BY <1>1, <1>8, <3>2, CallbackRecordFrame
    <3> QED
      BY <3>1, <3>2
  <2>3. t \in Accounted(c) <=> t \in Accounted(c)'
    BY <1>3, <1>8
    DEF CallbackStep, InCapture, Deliver, TryGate, GateBusy, Admit, Refuse,
     FindAccepting, TryQueue, QueueBusy, DropFrame, Enqueue, ThreadTypes,
     Numbered
  <2>4. Cardinality(Accounted(c)') = Cardinality(Accounted(c))
    BY <2>3, AccountedMoves
  <2>5. Total(c)' = Total(c) /\ Total(c) \in Int
    BY <1>1, <1>2, <2>1, <2>2 DEF Total, Rejections
  <2>6. Cardinality(Accounted(c)) \in Nat
    BY AccountedMoves
  <2> QED
    BY <1>1, <1>2, <1>4, <2>1, <2>2, <2>4, <2>5, <2>6
<1> QED
  BY <1>5, <1>6, <1>7, <1>8

-------------------------------------------------------------------------------
(***************************************************************************)
(* The account of each capture stays balanced.                             *)
(***************************************************************************)

\* What the memory of a reader takes from a callback.
LEMMA RememberCallback ==
  ASSUME StatsTypes, NEW t \in Threads, Deliver(t) \/ CallbackStep(t),
         Remember, NEW c \in Readers
  PROVE  /\ own'[c] = own[c] + Cardinality(Its(c))
         /\ all'[c] = all[c] + Cardinality(Returned)
         /\ taken'[c] = taken[c]
<1>1. UNCHANGED <<ctl, context>>
  BY CallbackFrame
<1>2. ~ Clears(c) /\ ~ Renews(c) /\ ~ Takes(c)
  BY <1>1 DEF Clears, Renews, Takes
<1> QED
  BY <1>2 DEF StatsTypes, Remember, Its

\* What a callback stores, it counts as stored.
LEMMA StoredCallback ==
  ASSUME IInv, NEW t \in Threads, Deliver(t) \/ CallbackStep(t),
         NEW c \in Captures
  PROVE  /\ Len(queue[c]) \in Nat /\ Len(queue'[c]) \in Nat
         /\ Len(queue'[c]) - (count'[c].enqueued - count'[c].overwrite)
              = Len(queue[c]) - (count[c].enqueued - count[c].overwrite)
<1> USE DEF IInv, TypeInv, TypeOK, RecordTypes
<1>1. /\ count \in [Captures -> Counters] /\ count[c] \in Counters
      /\ count[c].enqueued \in Nat /\ count[c].overwrite \in Nat
      /\ queue[c] \in Seq(Frames) /\ Len(queue[c]) \in Nat
  BY DEF Counters
<1>2. CASE Enqueue(t)
  <2> DEFINE f == [sequence |-> sequence[t], refcon |-> refcon[t]]
  <2>1. target[t] \in Captures /\ f \in Frames
    BY <1>2 DEF Enqueue, ThreadBounds, ThreadTypes, Admitted, Numbered, Frames
  <2>2. CASE target[t] = c
    <3>1. /\ queue'[c] = Push(queue[c], f)
          /\ count'[c].enqueued = count[c].enqueued + 1
          /\ count'[c].overwrite = count[c].overwrite + Lost(queue[c])
      BY <1>1, <1>2, <2>1, <2>2 DEF Enqueue, Counters, Lost
    <3>2. /\ Push(queue[c], f) \in Seq(Frames)
          /\ Lost(queue[c]) \in {0, 1} /\ Lost(queue[c]) <= Len(queue[c])
          /\ DOMAIN Push(queue[c], f) = 1 .. Len(queue[c]) + 1 - Lost(queue[c])
      BY <1>1, <2>1, PushElements
    <3>3. Len(Push(queue[c], f)) = Len(queue[c]) + 1 - Lost(queue[c])
      <4> HIDE DEF f
      <4> QED
        BY <1>1, <3>2
    <3>4. Len(queue'[c]) = Len(queue[c]) + 1 - Lost(queue[c])
      BY <3>1, <3>3
    <3> HIDE DEF f
    <3> DEFINE m == Len(queue[c])
               n == Len(queue'[c])
               l == Lost(queue[c])
               e == count[c].enqueued
               o == count[c].overwrite
               e1 == count'[c].enqueued
               o1 == count'[c].overwrite
    <3>5. /\ n = m + 1 - l /\ l \in {0, 1} /\ l <= m
          /\ m \in Nat /\ e \in Nat /\ o \in Nat
          /\ e1 = e + 1 /\ o1 = o + l
      BY <1>1, <3>1, <3>2, <3>4
    <3>6. m \in Nat /\ n \in Nat /\ n - (e1 - o1) = m - (e - o)
      <4> HIDE DEF m, n, l, e, o, e1, o1
      <4> QED
        BY <3>5
    <3> QED
      BY <3>6
  <2>3. CASE target[t] # c
    BY <1>1, <1>2, <2>1, <2>3 DEF Enqueue
  <2> QED
    BY <2>2, <2>3
<1>3. CASE Number(t) \/ FindClosed(t) \/ DropFrame(t)
  <2>1. target[t] \in Captures
    BY <1>3 DEF Number, FindClosed, DropFrame, ThreadBounds, Admitted, Numbered
  <2>2. /\ UNCHANGED queue
        /\ \/ count' = [count EXCEPT ![target[t]].callback = @ + 1]
           \/ count' = [count EXCEPT ![target[t]].late = @ + 1]
           \/ count' = [count EXCEPT ![target[t]].contention = @ + 1]
    BY <1>3 DEF Number, FindClosed, DropFrame
  <2>3. \/ count'[c] = count[c]
        \/ count'[c] = [count[c] EXCEPT !.callback = @ + 1]
        \/ count'[c] = [count[c] EXCEPT !.late = @ + 1]
        \/ count'[c] = [count[c] EXCEPT !.contention = @ + 1]
    BY <1>1, <2>1, <2>2, Counted
  <2>4. /\ count'[c].enqueued = count[c].enqueued
        /\ count'[c].overwrite = count[c].overwrite
    BY <1>1, <2>3 DEF Counters
  <2> QED
    BY <1>1, <2>2, <2>4
<1>4. CASE ~ (Number(t) \/ FindClosed(t) \/ DropFrame(t) \/ Enqueue(t))
  BY <1>1, <1>4, CallbackRecordFrame
<1> QED
  BY <1>2, <1>3, <1>4

\* A callback that a session counts is one of the session's.
LEMMA BalancedCallback ==
  ASSUME StatsInv, NEW t \in Threads, Deliver(t) \/ CallbackStep(t), Remember
  PROVE  FromZero' /\ Balanced'
<1> USE ReadersAssumption DEF StatsInv, SessionInv
<1>1. UNCHANGED <<ctl, context, baseline>>
  BY CallbackFrame
<1>2. FromZero'
  <2> SUFFICES ASSUME NEW c \in Captures
               PROVE  /\ baseline'[c] <= gRejected'
                      /\ ctl'[c] \in Starting => count'[c] = NoCounts
    BY DEF FromZero
  <2>1. baseline'[c] <= gRejected'
    BY TotalMoves DEF FromZero
  <2>2. ASSUME ctl[c] \in Starting
        PROVE  count'[c] = count[c]
    <3>1. \A u \in Threads : cb[u] \in Admitted => target[u] # c
      BY <2>2, NobodyInside DEF Starting
    <3>2. CASE Number(t) \/ FindClosed(t) \/ DropFrame(t) \/ Enqueue(t)
      <4>1. cb[t] \in Admitted /\ target[t] # c /\ target[t] \in Captures
        BY <3>1, <3>2 DEF Number, FindClosed, DropFrame, Enqueue, Admitted,
             Numbered, IInv, TypeInv, ThreadBounds
      <4> QED
        BY <3>2, <4>1 DEF Number, FindClosed, DropFrame, Enqueue, IInv,
             TypeInv, TypeOK, RecordTypes
    <3>3. CASE ~ (Number(t) \/ FindClosed(t) \/ DropFrame(t) \/ Enqueue(t))
      BY <3>3, CallbackRecordFrame
    <3> QED
      BY <3>2, <3>3
  <2> QED
    BY <1>1, <2>1, <2>2 DEF FromZero
<1>3. Balanced'
  <2> SUFFICES ASSUME NEW c \in Readers
               PROVE  /\ own'[c] + Cardinality(Accounted(c)') <= Total(c)'
                      /\ context'[c] # NoContext =>
                           Total(c)' <= all'[c] + Cardinality(Accounted(c)')
                      /\ Len(queue'[c]) = count'[c].enqueued
                           - count'[c].overwrite - taken'[c]
    BY DEF Balanced
  <2>1. c \in Captures /\ own[c] \in Nat /\ all[c] \in Nat /\ taken[c] \in Nat
    BY DEF StatsTypes
  <2>2. /\ own'[c] = own[c] + Cardinality(Its(c))
        /\ all'[c] = all[c] + Cardinality(Returned)
        /\ taken'[c] = taken[c]
    BY RememberCallback
  <2>3. /\ Cardinality(Accounted(c)) \in Nat
        /\ Cardinality(Accounted(c)') \in Nat
        /\ Cardinality(Its(c)) \in Nat /\ Cardinality(Returned) \in Nat
        /\ count[c] \in Counters /\ count'[c] \in Counters
        /\ gRejected \in Nat /\ gRejected' \in Nat
        /\ baseline[c] \in Nat /\ baseline'[c] = baseline[c]
        /\ Cardinality(Accounted(c)') + Cardinality(Its(c))
             - Cardinality(Accounted(c)) <= Total(c)' - Total(c)
        /\ Total(c)' - Total(c) <= Cardinality(Accounted(c)')
             + Cardinality(Returned) - Cardinality(Accounted(c))
    BY <2>1, TotalMoves
  <2>4. Total(c) \in Int /\ Total(c)' \in Int
    BY <2>3 DEF Total, Rejections, Counters
  <2>5. /\ own[c] + Cardinality(Accounted(c)) <= Total(c)
        /\ context[c] # NoContext =>
             Total(c) <= all[c] + Cardinality(Accounted(c))
        /\ Len(queue[c]) = count[c].enqueued - count[c].overwrite - taken[c]
    BY DEF Balanced
  <2>6. own'[c] + Cardinality(Accounted(c)') <= Total(c)'
    <3>1. \A i, j, k, n, m, x, y \in Int :
             i + n <= x /\ m + k - n <= y - x /\ j = i + k => j + m <= y
      OBVIOUS
    <3>2. own[c] + Cardinality(Accounted(c)) <= Total(c)
      BY <2>5
    <3>3. Cardinality(Accounted(c)') + Cardinality(Its(c))
            - Cardinality(Accounted(c)) <= Total(c)' - Total(c)
      BY <2>3
    <3>4. own'[c] \in Int
      BY <2>1, <2>2, <2>3
    <3> QED
      BY <2>1, <2>2, <2>3, <2>4, <3>1, <3>2, <3>3, <3>4
  <2>7. ASSUME context'[c] # NoContext
        PROVE  Total(c)' <= all'[c] + Cardinality(Accounted(c)')
    <3>1. Total(c) <= all[c] + Cardinality(Accounted(c))
      BY <1>1, <2>5, <2>7
    <3>2. Total(c)' <= Total(c) + Cardinality(Accounted(c)')
            + Cardinality(Returned) - Cardinality(Accounted(c))
      BY <2>3, <2>4
    <3> QED
      BY <2>1, <2>2, <2>3, <2>4, <3>1, <3>2
  <2>8. /\ Len(queue[c]) \in Nat /\ Len(queue'[c]) \in Nat
        /\ Len(queue'[c]) - (count'[c].enqueued - count'[c].overwrite)
             = Len(queue[c]) - (count[c].enqueued - count[c].overwrite)
    BY <2>1, StoredCallback
  <2>9. Len(queue'[c]) =
          count'[c].enqueued - count'[c].overwrite - taken'[c]
    <3>1. /\ count[c].enqueued \in Nat /\ count[c].overwrite \in Nat
          /\ count'[c].enqueued \in Nat /\ count'[c].overwrite \in Nat
      BY <2>3 DEF Counters
    <3> DEFINE n == Len(queue'[c])
               e == count'[c].enqueued
               o == count'[c].overwrite
    <3>2. n - (e - o) = 0 - taken[c]
      BY <2>1, <2>5, <2>8, <3>1
    <3>3. n \in Nat /\ e \in Nat /\ o \in Nat
      BY <2>8, <3>1
    <3>4. n = e - o - taken[c]
      <4> HIDE DEF n, e, o
      <4> QED
        BY <2>1, <3>2, <3>3
    <3> QED
      BY <2>2, <3>4
  <2> QED
    BY <2>6, <2>7, <2>9
<1> QED
  BY <1>2, <1>3

\* What the memory of a reader takes from a call.
LEMMA RememberControl ==
  ASSUME TypeOK, StatsTypes, NEW d \in Captures, CallStep(d) \/ ControlStep(d),
         Remember, NEW c \in Readers
  PROVE  /\ own'[c] = IF Clears(c) THEN 0 ELSE own[c]
         /\ all'[c] = IF Renews(c) THEN 0 ELSE all[c]
         /\ taken'[c] = IF Clears(c) THEN 0
                        ELSE taken[c] + IF Takes(c) THEN 1 ELSE 0
<1>1. Returned = {} /\ Its(c) = {}
  BY ControlKeepsAccounted DEF Its
<1>2. Cardinality(Returned) = 0 /\ Cardinality(Its(c)) = 0
  BY <1>1, FS_EmptySet
<1>3. own[c] \in Nat /\ all[c] \in Nat
  BY DEF StatsTypes
<1> QED
  BY <1>2, <1>3 DEF Remember, Its

\* A call that clears the counters of its capture finds nobody inside.
LEMMA BalancedClears ==
  ASSUME StatsInv, NEW c \in Readers, CallStep(c) \/ ControlStep(c), Remember,
         Create(c) \/ StartReset(c) \/ PoolExhausted(c) \/ StartToken(c)
  PROVE  /\ own'[c] + Cardinality(Accounted(c)') <= Total(c)'
         /\ context'[c] # NoContext =>
              Total(c)' <= all'[c] + Cardinality(Accounted(c)')
         /\ Len(queue'[c]) =
              count'[c].enqueued - count'[c].overwrite - taken'[c]
<1> USE ReadersAssumption
    DEF StatsInv, SessionInv, IInv, TypeInv, TypeOK, SessionTypes, RecordTypes,
        GlobalTypes
<1>1. /\ Accounted(c)' = {} /\ gRejected' = gRejected
  <2>1. \A u \in Threads : cb[u] \in Admitted => target[u] # c
    BY NobodyInside DEF Create, StartReset, PoolExhausted, StartToken
  <2>2. Accounted(c) = {}
    BY <2>1 DEF Accounted, Inside
  <2> QED
    BY <2>2, ControlKeepsAccounted
<1>2. Cardinality(Accounted(c)') = 0
  BY <1>1, FS_EmptySet
<1>3. /\ own'[c] = 0 /\ taken'[c] = 0
      /\ all'[c] = IF Renews(c) THEN 0 ELSE all[c]
  BY WhenCleared, RememberControl
<1>4. count'[c] = NoCounts /\ queue'[c] = <<>>
  <2>1. CASE Create(c) \/ StartReset(c)
    BY <2>1 DEF Create, StartReset, EmptyQueue
  <2>2. CASE PoolExhausted(c) \/ StartToken(c)
    BY <2>2 DEF PoolExhausted, StartToken, FromZero, EmptyAtStart, Starting
  <2> QED
    BY <2>1, <2>2
<1>5. /\ gRejected \in Nat /\ baseline'[c] \in Nat /\ baseline'[c] <= gRejected
      /\ all[c] \in Nat
  BY DEF Create, StartReset, PoolExhausted, StartToken, TakeBaseline, FromZero,
     StatsTypes
<1>6. Total(c)' = gRejected - baseline'[c]
  <2>1. count'[c].callback = 0 /\ count'[c].late = 0
    BY <1>4 DEF NoCounts
  <2>2. Total(c)' = 0 + 0 + (gRejected - baseline'[c])
    BY <1>1, <2>1 DEF Total, Rejections
  <2> QED
    BY <1>5, <2>2
<1>7. ASSUME context'[c] # NoContext
      PROVE  Total(c)' <= all'[c]
  <2>1. ~ Create(c)
    BY <1>7 DEF Create
  <2>2. CASE StartToken(c)
    BY <1>3, <1>5, <1>6, <2>2 DEF StartToken, TakeBaseline, Renews, Tokens,
         TakeToken
  <2>3. CASE StartReset(c) \/ PoolExhausted(c)
    <3>1. context'[c] = context[c] /\ baseline'[c] = baseline[c] /\ ~ Renews(c)
      BY <2>3 DEF StartReset, PoolExhausted, Renews
    <3>2. Accounted(c) = {}
      BY <1>1, ControlKeepsAccounted
    <3>3. Total(c) <= all[c] + Cardinality(Accounted(c))
      BY <1>7, <3>1 DEF Balanced
    <3>4. count[c].callback \in Nat /\ count[c].late \in Nat
      BY DEF Counters
    <3>5. gRejected - baseline[c] <= Total(c) /\ Total(c) \in Int
      <4> DEFINE m == count[c].callback
                 n == count[c].late
                 k == gRejected - baseline[c]
      <4>1. Total(c) = m + n + k /\ m \in Nat /\ n \in Nat /\ k \in Int
        BY <1>5, <3>1, <3>4 DEF Total, Rejections
      <4>2. k <= Total(c) /\ Total(c) \in Int
        <5> HIDE DEF m, n, k
        <5> QED
          BY <4>1
      <4> QED
        BY <4>2
    <3> QED
      BY <1>3, <1>5, <1>6, <3>1, <3>2, <3>3, <3>5, FS_EmptySet
  <2> QED
    BY <2>1, <2>2, <2>3
<1>8. /\ own'[c] + Cardinality(Accounted(c)') <= Total(c)'
  BY <1>2, <1>3, <1>5, <1>6
<1>9. context'[c] # NoContext =>
        Total(c)' <= all'[c] + Cardinality(Accounted(c)')
  BY <1>2, <1>3, <1>5, <1>6, <1>7
<1>10. Len(queue'[c]) = count'[c].enqueued - count'[c].overwrite - taken'[c]
  BY <1>3, <1>4 DEF NoCounts
<1> QED
  BY <1>8, <1>9, <1>10

\* A session begins with a balanced account, and a poll is remembered.
LEMMA BalancedControl ==
  ASSUME StatsInv, NEW d \in Captures, CallStep(d) \/ ControlStep(d), Remember
  PROVE  FromZero' /\ Balanced'
<1> USE ReadersAssumption
    DEF StatsInv, SessionInv, IInv, TypeInv, TypeOK, SessionTypes, RecordTypes,
        GlobalTypes
<1>1. gRejected' = gRejected
  BY ControlKeepsAccounted
<1>2. FromZero'
  <2> SUFFICES ASSUME NEW c \in Captures
               PROVE  /\ baseline'[c] <= gRejected'
                      /\ ctl'[c] \in Starting => count'[c] = NoCounts
    BY DEF FromZero
  <2>1. CASE c # d
    BY <1>1, <2>1, OtherRecords DEF FromZero
  <2>2. CASE c = d /\ (Create(d) \/ StartReset(d))
    BY <1>1, <2>2 DEF FromZero, Create, StartReset
  <2>3. CASE c = d /\ StartToken(d)
    BY <1>1, <2>3 DEF FromZero, StartToken, TakeBaseline, Starting
  <2>4. CASE c = d /\ Poll(d)
    BY <1>1, <2>4 DEF FromZero, Poll, TakeFrame, Goto, Starting, ControlTypes
  <2>5. CASE ~ (Create(d) \/ StartReset(d) \/ StartToken(d) \/ Poll(d))
    <3>1. UNCHANGED <<count, baseline>> /\ \A p \in Starting : NotEntered(p)
      BY <2>5, RecordFrame, BaselineFrame
    <3> QED
      BY <1>1, <3>1 DEF FromZero, NotEntered
  <2> QED
    BY <2>1, <2>2, <2>3, <2>4, <2>5
<1>3. Balanced'
  <2> SUFFICES ASSUME NEW c \in Readers
               PROVE  /\ own'[c] + Cardinality(Accounted(c)') <= Total(c)'
                      /\ context'[c] # NoContext =>
                           Total(c)' <= all'[c] + Cardinality(Accounted(c)')
                      /\ Len(queue'[c]) = count'[c].enqueued
                           - count'[c].overwrite - taken'[c]
    BY DEF Balanced
  <2>1. CASE /\ c = d
             /\ \/ Create(c) \/ StartReset(c) \/ PoolExhausted(c)
                \/ StartToken(c)
    BY <2>1, BalancedClears
  <2>2. CASE ~ /\ c = d
               /\ \/ Create(c) \/ StartReset(c) \/ PoolExhausted(c)
                  \/ StartToken(c)
    <3>1. ~ Clears(c) /\ Accounted(c)' = Accounted(c)
      BY <2>2, WhenCleared, ControlKeepsAccounted
    <3>2. /\ count'[c] = count[c] /\ context'[c] = context[c]
          /\ baseline'[c] = baseline[c]
      <4>1. CASE c # d
        BY <4>1, OtherRecords
      <4>2. CASE c = d /\ Poll(c)
        BY <4>2 DEF Poll, TakeFrame
      <4>3. CASE c = d /\ ~ Poll(c)
        BY <2>2, <4>3, RecordFrame, BaselineFrame
      <4> QED
        BY <4>1, <4>2, <4>3
    <3>3. /\ own'[c] = own[c] /\ all'[c] = all[c]
          /\ taken'[c] = taken[c] + IF Takes(c) THEN 1 ELSE 0
      BY <3>1, <3>2, RememberControl DEF Renews
    <3>4. Total(c)' = Total(c)
      BY <1>1, <3>2 DEF Total, Rejections
    <3>5. /\ Takes(c) => /\ Len(queue[c]) \in Nat \ {0}
                         /\ Len(queue'[c]) = Len(queue[c]) - 1
          /\ ~ Takes(c) => queue'[c] = queue[c]
      <4>1. CASE Takes(c)
        <5>1. c = d /\ Poll(c) /\ queue[c] # <<>>
          BY <4>1, WhenCleared
        <5>2. queue' = [queue EXCEPT ![c] = Tail(@)] /\ queue[c] \in Seq(Frames)
          BY <5>1 DEF Poll, TakeFrame
        <5>3. /\ Len(queue[c]) \in Nat \ {0}
              /\ Len(Tail(queue[c])) = Len(queue[c]) - 1
          BY <5>1, <5>2
        <5> QED
          BY <4>1, <5>2, <5>3
      <4>2. CASE ~ Takes(c) /\ c # d
        BY <4>2, OtherRecords
      <4>3. CASE ~ Takes(c) /\ c = d
        BY <2>2, <4>3, WhenCleared, RecordFrame DEF Poll
      <4> QED
        BY <4>1, <4>2, <4>3
    <3>6. Len(queue[c]) = count[c].enqueued - count[c].overwrite - taken[c]
      BY DEF Balanced
    <3>7. Len(queue'[c]) =
            count'[c].enqueued - count'[c].overwrite - taken'[c]
      <4>1. CASE Takes(c)
        <5> DEFINE m == Len(queue[c])
                   n == Len(queue'[c])
                   e == count[c].enqueued
                   o == count[c].overwrite
        <5>1. /\ m \in Nat /\ e \in Nat /\ o \in Nat /\ taken[c] \in Nat
              /\ n = m - 1 /\ m = e - o - taken[c] /\ taken'[c] = taken[c] + 1
          BY <3>3, <3>5, <3>6, <4>1 DEF StatsTypes, Counters
        <5>2. n = e - o - taken'[c]
          <6> HIDE DEF m, n, e, o
          <6> QED
            BY <5>1
        <5> QED
          BY <3>2, <5>2
      <4>2. CASE ~ Takes(c)
        BY <3>2, <3>3, <3>5, <3>6, <4>2 DEF StatsTypes
      <4> QED
        BY <4>1, <4>2
    <3> QED
      BY <3>1, <3>2, <3>3, <3>4, <3>7 DEF Balanced
  <2> QED
    BY <2>1, <2>2
<1> QED
  BY <1>2, <1>3

-------------------------------------------------------------------------------
(***************************************************************************)
(* What a get_stats has seen stays true.                                   *)
(***************************************************************************)

\* The loads, and how far a get_stats has come.
LEMMA LoadsAre ==
  ASSUME StatsTypes, NEW c \in Readers
  PROVE  /\ reading[c] \in 0 .. 10
         /\ HasReturned(c) <=> reading[c] = 10
         /\ IsReading(c) <=> reading[c] \in 1 .. 9
         /\ IsNext(c, "callback") <=> reading[c] = 1
         /\ IsNext(c, "enqueued") <=> reading[c] = 2
         /\ IsNext(c, "overwrite") <=> reading[c] = 3
         /\ IsNext(c, "contention") <=> reading[c] = 4
         /\ IsNext(c, "late") <=> reading[c] = 5
         /\ IsNext(c, "rejected") <=> reading[c] = 6
         /\ IsNext(c, "in_flight") <=> reading[c] = 7
         /\ IsNext(c, "lock") <=> reading[c] = 8
         /\ IsNext(c, "depth") <=> reading[c] = 9
<1>1. Len(Loads) = 9
  BY DEF Loads
<1>2. /\ Loads[1] = "callback" /\ Loads[2] = "enqueued"
      /\ Loads[3] = "overwrite" /\ Loads[4] = "contention"
      /\ Loads[5] = "late" /\ Loads[6] = "rejected" /\ Loads[7] = "in_flight"
      /\ Loads[8] = "lock" /\ Loads[9] = "depth"
  BY DEF Loads
<1>3. reading[c] \in 0 .. 10
  BY DEF StatsTypes
<1>4. IsReading(c) <=> reading[c] \in 1 .. 9
  BY <1>1 DEF IsReading
<1>5. ASSUME reading[c] \in 1 .. 9
      PROVE  reading[c] \in {1, 2, 3, 4, 5, 6, 7, 8, 9}
  BY <1>5
<1>6. \A load : IsNext(c, load) <=>
                  reading[c] \in 1 .. 9 /\ Loads[reading[c]] = load
  BY <1>4 DEF IsNext
<1> QED
  BY <1>1, <1>2, <1>3, <1>4, <1>5, <1>6 DEF HasReturned

\* The counters only grow beside a get_stats, and a capture that nothing
\* reaches keeps its counters.
LEMMA SeenCallback ==
  ASSUME StatsInv, NEW t \in Threads, Deliver(t) \/ CallbackStep(t),
         UNCHANGED statsVars
  PROVE  Seen'
<1> USE ReadersAssumption DEF StatsInv, SessionInv, statsVars
<1> SUFFICES ASSUME NEW c \in Readers, reading[c] > 0
             PROVE  /\ ctl'[c] = "idle"
                    /\ due[c] <= CallbacksSeen(c)' + LateSeen(c)'
                    /\ CallbacksSeen(c)' <= count'[c].callback
                    /\ LateSeen(c)' <= count'[c].late + Rejections(c)'
                    /\ gActive' # c => StillTrue(c)'
  BY DEF Seen
<1>1. UNCHANGED <<ctl, gActive>>
  BY CallbackFrame
<1>2. /\ ctl[c] = "idle"
      /\ due[c] <= CallbacksSeen(c) + LateSeen(c)
      /\ CallbacksSeen(c) <= count[c].callback
      /\ LateSeen(c) <= count[c].late + Rejections(c)
      /\ gActive # c => StillTrue(c)
  BY DEF Seen
<1>3. /\ count[c] \in Counters /\ count'[c] \in Counters
      /\ gRejected \in Nat /\ gRejected' \in Nat
      /\ baseline[c] \in Nat /\ baseline'[c] = baseline[c]
      /\ count'[c].callback >= count[c].callback
      /\ count'[c].late >= count[c].late
      /\ gRejected' >= gRejected
  BY TotalMoves
<1>4. /\ count[c].callback \in Nat /\ count[c].late \in Nat
      /\ count'[c].callback \in Nat /\ count'[c].late \in Nat
      /\ Rejections(c) \in Int /\ Rejections(c)' \in Int
      /\ Rejections(c)' >= Rejections(c)
  BY <1>3 DEF Counters, Rejections
<1>5. /\ stats[c]["callback"] \in Int /\ stats[c]["late"] \in Int
      /\ due[c] \in Nat /\ reading[c] \in Nat
  BY DEF StatsTypes, Statistics
<1>6. /\ CallbacksSeen(c) \in Int /\ CallbacksSeen(c)' \in Int
      /\ CallbacksSeen(c)' >= CallbacksSeen(c)
      /\ CallbacksSeen(c)' <= count'[c].callback
  BY <1>2, <1>3, <1>4, <1>5 DEF CallbacksSeen
<1>7. /\ LateSeen(c) \in Int /\ LateSeen(c)' \in Int
      /\ LateSeen(c)' >= LateSeen(c)
      /\ LateSeen(c)' <= count'[c].late + Rejections(c)'
  <2>1. CASE reading[c] > 6
    BY <1>2, <1>3, <1>4, <1>5, <2>1 DEF LateSeen
  <2>2. CASE reading[c] = 6
    BY <1>2, <1>3, <1>4, <1>5, <2>2 DEF LateSeen
  <2>3. CASE reading[c] < 6
    BY <1>2, <1>3, <1>4, <1>5, <2>3 DEF LateSeen
  <2> QED
    BY <1>5, <2>1, <2>2, <2>3
<1>8. due[c] <= CallbacksSeen(c)' + LateSeen(c)'
  BY <1>2, <1>5, <1>6, <1>7
<1>9. ASSUME gActive' # c
      PROVE  StillTrue(c)'
  <2>1. Bystander(c) /\ Bystander(c)' /\ c \in Captures
    BY <1>1, <1>2, <1>9 DEF Bystander
  <2>2. [Next]_vars
    BY DEF Next
  <2>3. IsUntouched(c)
    BY <2>1, <2>2, UntouchedStep
  <2> QED
    BY <1>1, <1>2, <1>9, <2>3 DEF StillTrue, IsUntouched
<1> QED
  BY <1>1, <1>2, <1>6, <1>7, <1>8, <1>9

\* A call on another capture neither moves a reader's counters nor makes its
\* capture less than active.
LEMMA OtherActive ==
  ASSUME IInv, NEW d \in Captures, CallStep(d) \/ ControlStep(d),
         NEW c \in Captures \ {d}
  PROVE  gActive' # c => gActive # c
<1> USE DEF IInv, Active
<1>1. CASE Attach(d)
  BY <1>1 DEF Attach
<1>2. CASE Settle(d)
  BY <1>2 DEF Settle, CleanedUp
<1>3. CASE Register(d)
  BY <1>3, BridgeAssumption DEF Register
<1>4. CASE ~ (Attach(d) \/ Settle(d) \/ Register(d))
  BY <1>4 DEF CallStep, ControlStep, GateLock, Begin, StopCalled, Create,
       StartRefused, StartCalled, PollCalled, StartBlocked, StartLock,
       StartReset, PoolExhausted, StartToken, RegisterFails,
       AttachLock, DeviceStart, DeviceStartFails, StopLock,
       DetachLock, Detach, DeviceStop, DeviceStopFails, Unregister,
       UnregisterFails, FindQuiesced, FindBusy, DestroyRefused, Free,
       PollLock, Poll
<1> QED
  BY <1>1, <1>2, <1>3, <1>4

\* A call forgets what its capture's statistics said, and leaves the others.
LEMMA SeenControl ==
  ASSUME StatsInv, NEW d \in Captures, CallStep(d) \/ ControlStep(d), Forget(d)
  PROVE  Seen'
<1> USE ReadersAssumption DEF StatsInv, SessionInv
<1> SUFFICES ASSUME NEW c \in Readers, reading'[c] > 0
             PROVE  /\ ctl'[c] = "idle"
                    /\ due'[c] <= CallbacksSeen(c)' + LateSeen(c)'
                    /\ CallbacksSeen(c)' <= count'[c].callback
                    /\ LateSeen(c)' <= count'[c].late + Rejections(c)'
                    /\ gActive' # c => StillTrue(c)'
  BY DEF Seen
<1>1. /\ c # d /\ reading'[c] = reading[c] /\ stats'[c] = stats[c]
      /\ due'[c] = due[c]
  BY DEF Forget
<1>2. /\ ctl'[c] = ctl[c] /\ count'[c] = count[c] /\ gRejected' = gRejected
      /\ baseline'[c] = baseline[c]
  BY <1>1, OtherRecords, ControlFrame DEF IInv, TypeInv
<1>3. /\ CallbacksSeen(c)' = CallbacksSeen(c) /\ LateSeen(c)' = LateSeen(c)
      /\ Rejections(c)' = Rejections(c)
  BY <1>1, <1>2 DEF CallbacksSeen, LateSeen, Rejections
<1>4. /\ ctl[c] = "idle"
      /\ due[c] <= CallbacksSeen(c) + LateSeen(c)
      /\ CallbacksSeen(c) <= count[c].callback
      /\ LateSeen(c) <= count[c].late + Rejections(c)
      /\ gActive # c => StillTrue(c)
  BY <1>1 DEF Seen
<1>5. ASSUME gActive' # c
      PROVE  StillTrue(c)'
  <2>1. gActive # c
    BY <1>1, <1>5, OtherActive
  <2>2. Bystander(c) /\ Bystander(c)' /\ [Next]_vars
    BY <1>2, <1>4, <1>5, <2>1 DEF Bystander, Next
  <2>3. IsUntouched(c)
    BY <2>2, UntouchedStep
  <2> QED
    BY <1>1, <1>4, <2>1, <2>3 DEF StillTrue, IsUntouched
<1> QED
  BY <1>1, <1>2, <1>3, <1>4, <1>5

-------------------------------------------------------------------------------
(***************************************************************************)
(* The loads of get_stats.                                                 *)
(***************************************************************************)

\* What get_stats leaves alone of the bridge: all but the queue's mutex, which
\* it takes and gives back.
BridgeStays ==
  /\ UNCHANGED <<lifecycleVars, gateVars, in_flight, count, queue,
                 callbackVars, memoryVars>>
  /\ queue_mutex' \in [Captures -> Captures \cup Threads \cup {None}]

\* So nothing that does not speak of that mutex is disturbed.
LEMMA StatsFrame ==
  ASSUME StatsInv, NEW c \in Readers, StatsStep(c)
  PROVE  BridgeStays
<1> USE ReadersAssumption
    DEF StatsInv, SessionInv, IInv, TypeInv, TypeOK, RecordTypes, BridgeStays
<1>1. CASE StatsCalled(c)
  BY <1>1 DEF StatsCalled, memoryVars
<1>2. CASE LoadCounter(c)
  BY <1>2 DEF LoadCounter, Store, memoryVars
<1>3. CASE LoadRejected(c)
  BY <1>3 DEF LoadRejected, Store, memoryVars
<1>4. CASE LoadInFlight(c)
  BY <1>4 DEF LoadInFlight, Store, memoryVars
<1>5. CASE LockDepth(c)
  BY <1>5 DEF LockDepth, memoryVars
<1>6. CASE LoadDepth(c)
  BY <1>6 DEF LoadDepth, Store, memoryVars
<1> QED
  BY <1>1, <1>2, <1>3, <1>4, <1>5, <1>6 DEF StatsStep

\* The invariant of the bridge does not.
LEMMA StatsKeepsBridge ==
  ASSUME StatsInv, BridgeStays
  PROVE  SessionInv' /\ CallbacksAddUp' /\ FromZero' /\ Balanced'
<1> USE DEF StatsInv, SessionInv, BridgeStays, memoryVars
<1>1. TypeInv'
  BY DEF IInv, TypeInv, TypeOK, GlobalTypes, SessionTypes, RecordTypes,
     ControlTypes, ThreadTypes, ThreadBounds, ControlBounds
<1>2. Locks' /\ Gate' /\ Active' /\ Callbacks' /\ Tokens' /\ Returns'
  BY DEF IInv, Locks, Gate, Active, Callbacks, Tokens, Returns
<1>3. Quiet' /\ InFlightIsExact' /\ Promised'
  BY DEF IInv, Quiet, InFlightIsExact, Promised, Inside
<1>4. EmptyAtStart' /\ OfSession' /\ CallbacksAddUp'
  BY DEF EmptyAtStart, OfSession, CallbacksAddUp, Undecided, Inside
<1>5. FromZero' /\ Balanced'
  BY DEF FromZero, Balanced, Total, Rejections, Accounted, Inside
<1> QED
  BY <1>1, <1>2, <1>3, <1>4, <1>5 DEF IInv

\* A get_stats goes on by one load at a time, beside those of other readers.
GoesOn(c) ==
  /\ \A r \in Readers \ {c} :
       reading'[r] = reading[r] /\ stats'[r] = stats[r] /\ due'[r] = due[r]
  /\ \/ /\ reading[c] = 0 /\ reading'[c] = 1 /\ ctl[c] = "idle"
        /\ stats'[c] = stats[c] /\ due'[c] = own[c]
     \/ /\ reading[c] \in 1 .. 9 /\ reading'[c] = reading[c] + 1
        /\ due'[c] = due[c]

\* What it stores is what there is to load.
StoresLoad(c) ==
  LET Becomes(f, n) == stats'[c] = [stats[c] EXCEPT ![f] = n]
  IN /\ reading[c] = 1 => Becomes("callback", count[c].callback)
     /\ reading[c] = 2 => Becomes("enqueued", count[c].enqueued)
     /\ reading[c] = 3 => Becomes("overwrite", count[c].overwrite)
     /\ reading[c] = 4 => Becomes("contention", count[c].contention)
     /\ reading[c] = 5 => Becomes("late", count[c].late)
     /\ reading[c] = 6 => Becomes("late", stats[c]["late"] + Rejections(c))
     /\ reading[c] = 7 => Becomes("in_flight", in_flight[c])
     /\ reading[c] = 8 => stats'[c] = stats[c]
     /\ reading[c] = 9 => Becomes("depth", Len(queue[c]))

\* Each step of get_stats is such a step.
LEMMA StatsGoes ==
  ASSUME StatsInv, NEW c \in Readers, StatsStep(c)
  PROVE  GoesOn(c) /\ StoresLoad(c) /\ StatsTypes'
<1> USE ReadersAssumption DEF GoesOn, StoresLoad
<1>1. StatsTypes
  BY DEF StatsInv
<1>2. ASSUME NEW f \in Statistics, NEW n \in Int, Store(c, f, n),
             reading[c] \in 1 .. 9
      PROVE  /\ \A r \in Readers \ {c} : /\ reading'[r] = reading[r]
                                         /\ stats'[r] = stats[r]
                                         /\ due'[r] = due[r]
             /\ reading'[c] = reading[c] + 1 /\ due'[c] = due[c]
             /\ stats'[c] = [stats[c] EXCEPT ![f] = n]
             /\ StatsTypes'
  <2>1. /\ stats' = [stats EXCEPT ![c] = [@ EXCEPT ![f] = n]]
        /\ reading' = [reading EXCEPT ![c] = @ + 1]
        /\ UNCHANGED <<due, own, all, taken>>
    BY <1>2 DEF Store, memoryVars
  <2>2. [stats[c] EXCEPT ![f] = n] \in [Statistics -> Int]
    BY <1>1, <1>2 DEF StatsTypes
  <2> QED
    BY <1>1, <1>2, <2>1, <2>2 DEF StatsTypes
<1>3. CASE StatsCalled(c)
  BY <1>1, <1>3 DEF StatsCalled, StatsTypes, memoryVars
<1>4. CASE LockDepth(c)
  <2>1. reading[c] = 8
    BY <1>1, <1>4, LoadsAre DEF LockDepth
  <2> QED
    BY <1>1, <1>4, <2>1 DEF LockDepth, StatsTypes, memoryVars
<1>5. /\ count[c] \in Counters /\ in_flight[c] \in Int
      /\ Len(queue[c]) \in Int /\ Rejections(c) \in Int
      /\ stats[c]["late"] \in Int /\ stats[c]["late"] + Rejections(c) \in Int
  <2>1. /\ gRejected \in Nat /\ baseline[c] \in Nat /\ stats[c]["late"] \in Int
        /\ count[c] \in Counters /\ in_flight[c] \in Int
        /\ queue[c] \in Seq(Frames)
    BY <1>1 DEF StatsInv, SessionInv, IInv, TypeInv, TypeOK, GlobalTypes,
         RecordTypes, SessionTypes, StatsTypes, Statistics
  <2> QED
    BY <2>1 DEF Rejections
<1>6. CASE LoadCounter(c)
  <2>1. PICK f \in {"callback", "enqueued", "overwrite", "contention", "late"} :
               IsNext(c, f) /\ Store(c, f, count[c][f])
    BY <1>6 DEF LoadCounter
  <2>2. f \in Statistics /\ count[c][f] \in Int /\ reading[c] \in 1 .. 9
    BY <1>1, <1>5, <2>1, LoadsAre DEF Statistics, Counters
  <2>3. CASE f = "callback"
    BY <1>1, <1>2, <2>1, <2>2, <2>3, LoadsAre
  <2>4. CASE f = "enqueued"
    BY <1>1, <1>2, <2>1, <2>2, <2>4, LoadsAre
  <2>5. CASE f = "overwrite"
    BY <1>1, <1>2, <2>1, <2>2, <2>5, LoadsAre
  <2>6. CASE f = "contention"
    BY <1>1, <1>2, <2>1, <2>2, <2>6, LoadsAre
  <2>7. CASE f = "late"
    BY <1>1, <1>2, <2>1, <2>2, <2>7, LoadsAre
  <2> QED
    BY <2>1, <2>3, <2>4, <2>5, <2>6, <2>7
<1>7. CASE LoadRejected(c)
  <2> DEFINE n == stats[c]["late"] + Rejections(c)
  <2>1. Store(c, "late", n) /\ reading[c] = 6 /\ n \in Int
    BY <1>1, <1>5, <1>7, LoadsAre DEF LoadRejected, LateInAll, Rejections
  <2>2. /\ \A r \in Readers \ {c} : /\ reading'[r] = reading[r]
                                     /\ stats'[r] = stats[r]
                                     /\ due'[r] = due[r]
        /\ reading'[c] = reading[c] + 1 /\ due'[c] = due[c]
        /\ stats'[c] = [stats[c] EXCEPT !["late"] = n]
        /\ StatsTypes'
    <3> HIDE DEF n
    <3> QED
      BY <1>2, <2>1 DEF Statistics
  <2> QED
    BY <2>1, <2>2
<1>8. CASE LoadInFlight(c)
  <2> DEFINE n == in_flight[c]
  <2>1. Store(c, "in_flight", n) /\ reading[c] = 7 /\ n \in Int
    BY <1>1, <1>5, <1>8, LoadsAre DEF LoadInFlight
  <2>2. /\ \A r \in Readers \ {c} : /\ reading'[r] = reading[r]
                                     /\ stats'[r] = stats[r]
                                     /\ due'[r] = due[r]
        /\ reading'[c] = reading[c] + 1 /\ due'[c] = due[c]
        /\ stats'[c] = [stats[c] EXCEPT !["in_flight"] = n]
        /\ StatsTypes'
    <3> HIDE DEF n
    <3> QED
      BY <1>2, <2>1 DEF Statistics
  <2> QED
    BY <2>1, <2>2
<1>9. CASE LoadDepth(c)
  <2> DEFINE n == Len(queue[c])
  <2>1. Store(c, "depth", n) /\ reading[c] = 9 /\ n \in Int
    BY <1>1, <1>5, <1>9, LoadsAre DEF LoadDepth
  <2>2. /\ \A r \in Readers \ {c} : /\ reading'[r] = reading[r]
                                     /\ stats'[r] = stats[r]
                                     /\ due'[r] = due[r]
        /\ reading'[c] = reading[c] + 1 /\ due'[c] = due[c]
        /\ stats'[c] = [stats[c] EXCEPT !["depth"] = n]
        /\ StatsTypes'
    <3> HIDE DEF n
    <3> QED
      BY <1>2, <2>1 DEF Statistics
  <2> QED
    BY <2>1, <2>2
<1> QED
  BY <1>3, <1>4, <1>6, <1>7, <1>8, <1>9 DEF StatsStep

\* So each number changes at its load only.
LEMMA StoredFields ==
  ASSUME NEW c \in Readers, StoresLoad(c), reading[c] \in 1 .. 9,
         stats[c] \in [Statistics -> Int]
  PROVE  /\ stats'[c]["callback"] = IF reading[c] = 1 THEN count[c].callback
                                    ELSE stats[c]["callback"]
         /\ stats'[c]["enqueued"] = IF reading[c] = 2 THEN count[c].enqueued
                                    ELSE stats[c]["enqueued"]
         /\ stats'[c]["overwrite"] = IF reading[c] = 3 THEN count[c].overwrite
                                     ELSE stats[c]["overwrite"]
         /\ stats'[c]["contention"] =
              IF reading[c] = 4 THEN count[c].contention
              ELSE stats[c]["contention"]
         /\ stats'[c]["late"] =
              IF reading[c] = 5 THEN count[c].late
              ELSE IF reading[c] = 6 THEN stats[c]["late"] + Rejections(c)
              ELSE stats[c]["late"]
         /\ stats'[c]["in_flight"] = IF reading[c] = 7 THEN in_flight[c]
                                     ELSE stats[c]["in_flight"]
         /\ stats'[c]["depth"] = IF reading[c] = 9 THEN Len(queue[c])
                                 ELSE stats[c]["depth"]
<1>1. CASE reading[c] = 1
  BY <1>1 DEF StoresLoad, Statistics
<1>2. CASE reading[c] = 2
  BY <1>2 DEF StoresLoad, Statistics
<1>3. CASE reading[c] = 3
  BY <1>3 DEF StoresLoad, Statistics
<1>4. CASE reading[c] = 4
  BY <1>4 DEF StoresLoad, Statistics
<1>5. CASE reading[c] = 5
  BY <1>5 DEF StoresLoad, Statistics
<1>6. CASE reading[c] = 6
  BY <1>6 DEF StoresLoad, Statistics
<1>7. CASE reading[c] = 7
  BY <1>7 DEF StoresLoad, Statistics
<1>8. CASE reading[c] = 8
  BY <1>8 DEF StoresLoad, Statistics
<1>9. CASE reading[c] = 9
  BY <1>9 DEF StoresLoad, Statistics
<1> QED
  BY <1>1, <1>2, <1>3, <1>4, <1>5, <1>6, <1>7, <1>8, <1>9

\* A load takes over what was to be loaded as it is then.
LEMMA SeenStats ==
  ASSUME StatsInv, NEW c \in Readers, StatsStep(c)
  PROVE  StatsTypes' /\ Seen'
<1> USE ReadersAssumption
<1>1. /\ UNCHANGED <<ctl, gActive, count, in_flight, queue, own>>
      /\ \A r \in Readers : Rejections(r)' = Rejections(r)
  BY StatsFrame DEF BridgeStays, memoryVars, Rejections
<1>2. StatsTypes' /\ StatsTypes /\ GoesOn(c) /\ StoresLoad(c)
  BY StatsGoes DEF StatsInv
<1>3. ASSUME NEW r \in Readers, reading'[r] > 0
      PROVE  /\ ctl'[r] = "idle"
             /\ due'[r] <= CallbacksSeen(r)' + LateSeen(r)'
             /\ CallbacksSeen(r)' <= count'[r].callback
             /\ LateSeen(r)' <= count'[r].late + Rejections(r)'
             /\ gActive' # r => StillTrue(r)'
  <2>1. /\ count[r].callback \in Nat /\ count[r].late \in Nat
        /\ Rejections(r) \in Int /\ reading[r] \in Nat
    <3>1. /\ count[r] \in Counters /\ gRejected \in Nat /\ baseline[r] \in Nat
      BY DEF StatsInv, SessionInv, IInv, TypeInv, TypeOK, RecordTypes,
         GlobalTypes, SessionTypes
    <3>2. reading[r] \in Nat
      BY <1>2, LoadsAre
    <3> QED
      BY <3>1, <3>2 DEF Counters, Rejections
  <2>2. ASSUME reading[r] > 0
        PROVE  /\ ctl[r] = "idle"
               /\ due[r] <= CallbacksSeen(r) + LateSeen(r)
               /\ CallbacksSeen(r) <= count[r].callback
               /\ LateSeen(r) <= count[r].late + Rejections(r)
               /\ gActive # r => StillTrue(r)
    BY <2>2 DEF StatsInv, Seen
  <2>3. CASE r # c
    <3>1. /\ reading'[r] = reading[r] /\ stats'[r] = stats[r]
          /\ due'[r] = due[r]
      BY <1>2, <2>3 DEF GoesOn
    <3>2. CallbacksSeen(r)' = CallbacksSeen(r) /\ LateSeen(r)' = LateSeen(r)
      BY <1>1, <3>1 DEF CallbacksSeen, LateSeen
    <3>3. StillTrue(r)' <=> StillTrue(r)
      BY <1>1, <3>1 DEF StillTrue
    <3> QED
      BY <1>1, <1>3, <2>2, <3>1, <3>2, <3>3
  <2>4. CASE r = c /\ reading[c] = 0
    <3>1. /\ reading'[r] = 1 /\ ctl[r] = "idle" /\ due'[r] = own[r]
      BY <1>2, <2>4 DEF GoesOn
    <3>2. /\ CallbacksSeen(r)' = count[r].callback
          /\ LateSeen(r)' = count[r].late + Rejections(r)
          /\ StillTrue(r)'
      BY <1>1, <3>1 DEF CallbacksSeen, LateSeen, StillTrue
    <3>3. own[r] + Cardinality(Accounted(r)) <= Total(r)
      BY DEF StatsInv, Balanced
    <3>4. Cardinality(Accounted(r)) \in Nat /\ own[r] \in Nat
      <4>1. Accounted(r) \subseteq Threads
        BY DEF Accounted, Inside
      <4> QED
        BY <1>2, <4>1, BridgeAssumption, FS_Subset, FS_CardinalityType
        DEF StatsTypes
    <3>5. own[r] <= count[r].callback + (count[r].late + Rejections(r))
      BY <2>1, <3>3, <3>4 DEF Total
    <3> QED
      BY <1>1, <2>1, <3>1, <3>2, <3>5
  <2>5. CASE r = c /\ reading[c] > 0
    <3>1. /\ reading[r] \in 1 .. 9 /\ reading'[r] = reading[r] + 1
          /\ due'[r] = due[r] /\ ctl[r] = "idle"
      BY <1>2, <2>1, <2>2, <2>5 DEF GoesOn
    <3>2. stats[r] \in [Statistics -> Int]
      BY <1>2 DEF StatsTypes
    <3>3. /\ reading[r] <= 1 \/ stats'[r]["callback"] = stats[r]["callback"]
          /\ reading[r] = 1 => stats'[r]["callback"] = count[r].callback
          /\ reading[r] <= 6 \/ stats'[r]["late"] = stats[r]["late"]
          /\ reading[r] = 5 => stats'[r]["late"] = count[r].late
          /\ reading[r] = 6 =>
               stats'[r]["late"] = stats[r]["late"] + Rejections(r)
      BY <1>2, <2>5, <3>1, <3>2, StoredFields
    <3>4. CallbacksSeen(r)' = CallbacksSeen(r)
      BY <1>1, <3>1, <3>3 DEF CallbacksSeen
    <3>5. LateSeen(r)' = LateSeen(r)
      <4>1. CASE reading[r] > 6
        BY <1>1, <3>1, <3>3, <4>1 DEF LateSeen
      <4>2. CASE reading[r] = 6
        BY <1>1, <3>1, <3>3, <4>2 DEF LateSeen
      <4>3. CASE reading[r] = 5
        BY <1>1, <3>1, <3>3, <4>3 DEF LateSeen
      <4>4. CASE reading[r] < 5
        BY <1>1, <3>1, <4>4 DEF LateSeen
      <4> QED
        BY <3>1, <4>1, <4>2, <4>3, <4>4
    <3>6. StillTrue(r) => StillTrue(r)'
      BY <1>1, <1>2, <2>5, <3>1, <3>2, StoredFields DEF StillTrue
    <3> QED
      BY <1>1, <2>2, <2>5, <3>1, <3>4, <3>5, <3>6
  <2> QED
    BY <2>1, <2>3, <2>4, <2>5
<1> QED
  BY <1>2, <1>3 DEF Seen

-------------------------------------------------------------------------------
(***************************************************************************)
(* The invariant of the statistics, and what follows.                      *)
(***************************************************************************)

\* The invariant holds at first.
LEMMA StatsInvInit == StatsInit => StatsInv
<1> SUFFICES ASSUME StatsInit
             PROVE  StatsInv
  OBVIOUS
<1> USE ReadersAssumption DEF StatsInit
<1>1. IInv /\ CallbacksAddUp /\ Init
  BY InvariantInit, AddUpInit
<1>2. EmptyAtStart /\ OfSession /\ FromZero
  BY <1>1 DEF Init, EmptyAtStart, OfSession, FromZero, Starting
<1>3. StatsTypes /\ Seen
  BY DEF StatsTypes, NoStatistics, Seen
<1>4. ASSUME NEW c \in Readers
      PROVE  /\ own[c] + Cardinality(Accounted(c)) <= Total(c)
             /\ context[c] # NoContext =>
                  Total(c) <= all[c] + Cardinality(Accounted(c))
             /\ Len(queue[c]) =
                  count[c].enqueued - count[c].overwrite - taken[c]
  <2>1. /\ own[c] = 0 /\ taken[c] = 0 /\ context[c] = NoContext
        /\ queue[c] = <<>> /\ count[c] = NoCounts
        /\ gRejected = 0 /\ baseline[c] = 0
    BY <1>1 DEF Init
  <2>2. Accounted(c) = {}
    BY <1>1 DEF Init, Accounted, Inside, Numbered
  <2> QED
    BY <2>1, <2>2, FS_EmptySet DEF Total, Rejections, NoCounts
<1> QED
  BY <1>1, <1>2, <1>3, <1>4 DEF StatsInv, SessionInv, Balanced

\* A step of the bridge keeps the types of what a reader remembers.
LEMMA BridgeStatsTypes ==
  ASSUME StatsInv, BridgeStep
  PROVE  StatsTypes'
<1> USE DEF StatsInv, StatsTypes
<1>1. /\ reading' \in [Readers -> 0 .. 10] /\ due' \in [Readers -> Nat]
      /\ stats' \in [Readers -> [Statistics -> Int]]
  BY DEF BridgeStep, Forget, statsVars, NoStatistics
<1>2. Cardinality(Returned) \in Nat
  <2>1. Returned \subseteq Threads
    BY DEF Returned
  <2> QED
    BY <2>1, BridgeAssumption, FS_Subset, FS_CardinalityType
<1>3. ASSUME NEW c \in Readers
      PROVE  Cardinality({t \in Returned : refcon[t] = context[c]}) \in Nat
  <2>1. {t \in Returned : refcon[t] = context[c]} \subseteq Threads
    BY DEF Returned
  <2> QED
    BY <2>1, BridgeAssumption, FS_Subset, FS_CardinalityType
<1>4. Remember
  BY DEF BridgeStep
<1>5. own' \in [Readers -> Nat]
  BY <1>3, <1>4 DEF Remember
<1>6. all' \in [Readers -> Nat]
  BY <1>2, <1>4 DEF Remember
<1>7. taken' \in [Readers -> Nat]
  BY <1>4 DEF Remember
<1> QED
  BY <1>1, <1>5, <1>6, <1>7

\* Every step keeps the invariant.
LEMMA StatsInvStep == StatsInv /\ [StatsNext]_allVars => StatsInv'
<1> SUFFICES ASSUME StatsInv, [StatsNext]_allVars
             PROVE  StatsInv'
  OBVIOUS
<1>1. CASE BridgeStep
  <2>1. [Next]_vars
    BY <1>1 DEF BridgeStep, Next
  <2>2. IInv' /\ CallbacksAddUp'
    BY <2>1, InvariantStep, AddUpStep DEF StatsInv, SessionInv
  <2>3. EmptyAtStart' /\ OfSession'
    BY <1>1, SessionInvCallback, SessionInvControl DEF BridgeStep, StatsInv
  <2>4. FromZero' /\ Balanced'
    BY <1>1, BalancedCallback, BalancedControl DEF BridgeStep
  <2>5. Seen'
    BY <1>1, SeenCallback, SeenControl DEF BridgeStep
  <2> QED
    BY <1>1, <2>2, <2>3, <2>4, <2>5, BridgeStatsTypes DEF StatsInv, SessionInv
<1>2. ASSUME NEW c \in Readers, StatsStep(c)
      PROVE  StatsInv'
  BY <1>2, StatsFrame, StatsKeepsBridge, SeenStats DEF StatsInv
<1>3. CASE UNCHANGED allVars
  <2>1. /\ UNCHANGED <<lifecycleVars, gateVars, in_flight, count, queue,
                       callbackVars, memoryVars, queue_mutex, statsVars>>
    BY <1>3 DEF allVars
  <2>2. BridgeStays
    BY <2>1 DEF BridgeStays, StatsInv, SessionInv, IInv, TypeInv, TypeOK,
         RecordTypes
  <2>3. SessionInv' /\ CallbacksAddUp' /\ FromZero' /\ Balanced'
    BY <2>2, StatsKeepsBridge
  <2>4. StatsTypes' /\ Seen'
    BY <2>1 DEF statsVars, memoryVars, StatsInv, StatsTypes, Seen,
         CallbacksSeen, LateSeen, Rejections, StillTrue
  <2> QED
    BY <2>3, <2>4 DEF StatsInv
<1> QED
  BY <1>1, <1>2, <1>3 DEF StatsNext

\* The invariant holds of every reachable state.
LEMMA StatsInvariance == StatsSpec => []StatsInv
  BY StatsInvInit, StatsInvStep, PTL DEF StatsSpec

\* However callbacks, rejections and loads interleave, the report of a
\* get_stats covers every callback of its session that had returned before it.
THEOREM NoCallbackUnreportedHolds == StatsSpec => []NoCallbackUnreported
<1>1. StatsInv => NoCallbackUnreported
  BY LoadsAre DEF StatsInv, Seen, NoCallbackUnreported, CallbacksSeen, LateSeen
<1> QED
  BY <1>1, StatsInvariance, PTL

\* And no callback is in it, late or not, that had returned before the session
\* began.
THEOREM NothingOlderIsChargedHolds == StatsSpec => []NothingOlderIsCharged
<1>1. StatsInv => NothingOlderIsCharged
  <2> SUFFICES ASSUME StatsInv, NEW c \in Readers,
                      HasReturned(c), context[c] # NoContext
               PROVE  stats[c]["callback"] + stats[c]["late"]
                        <= all[c] + Cardinality({t \in Threads :
                                                   cb[t] # "idle"})
    BY DEF NothingOlderIsCharged
  <2> DEFINE busy == {t \in Threads : cb[t] # "idle"}
  <2>1. /\ stats[c]["callback"] <= count[c].callback
        /\ stats[c]["late"] <= count[c].late + Rejections(c)
    BY LoadsAre DEF StatsInv, Seen, CallbacksSeen, LateSeen
  <2>2. Total(c) <= all[c] + Cardinality(Accounted(c))
    BY DEF StatsInv, Balanced
  <2>3. /\ Cardinality(Accounted(c)) \in Nat /\ Cardinality(busy) \in Nat
        /\ Cardinality(Accounted(c)) <= Cardinality(busy)
    <3>1. Accounted(c) \subseteq busy /\ busy \subseteq Threads
      BY DEF Accounted, Inside, Admitted, Numbered
    <3> QED
      BY <3>1, BridgeAssumption, FS_Subset, FS_CardinalityType
  <2>4. /\ count[c] \in Counters /\ gRejected \in Nat /\ baseline[c] \in Nat
        /\ all[c] \in Nat
        /\ stats[c]["callback"] \in Int /\ stats[c]["late"] \in Int
    BY ReadersAssumption
    DEF StatsInv, SessionInv, IInv, TypeInv, TypeOK, GlobalTypes,
        SessionTypes, RecordTypes, StatsTypes, Statistics
  <2>5. stats[c]["callback"] + stats[c]["late"] <= Total(c)
        /\ Total(c) \in Int
    BY <2>1, <2>4 DEF Total, Rejections, Counters
  <2> QED
    BY <2>2, <2>3, <2>4, <2>5
<1> QED
  BY <1>1, StatsInvariance, PTL

\* The loads are not one snapshot; of a capture that nothing reaches they are
\* as good as one, whichever other captures run.
THEOREM SettledStatisticsAddUpHolds == StatsSpec => []SettledStatisticsAddUp
<1>1. StatsInv => SettledStatisticsAddUp
  <2> SUFFICES ASSUME StatsInv, NEW c \in Readers,
                      HasReturned(c), gActive # c
               PROVE  /\ stats[c]["callback"] =
                           stats[c]["enqueued"] + stats[c]["contention"]
                      /\ stats[c]["depth"] = stats[c]["enqueued"]
                           - stats[c]["overwrite"] - taken[c]
                      /\ stats[c]["in_flight"] = 0
    BY DEF SettledStatisticsAddUp
  <2> USE ReadersAssumption DEF StatsInv, SessionInv, IInv
  <2>1. /\ stats[c]["callback"] = count[c].callback
        /\ stats[c]["enqueued"] = count[c].enqueued
        /\ stats[c]["overwrite"] = count[c].overwrite
        /\ stats[c]["contention"] = count[c].contention
        /\ stats[c]["in_flight"] = in_flight[c]
        /\ stats[c]["depth"] = Len(queue[c])
    BY LoadsAre DEF Seen, StillTrue
  <2>2. Inside(c) = {} /\ Undecided(c) = {}
    BY DEF Callbacks, Inside, Undecided
  <2>3. in_flight[c] = 0
    BY <2>2, FS_EmptySet DEF InFlightIsExact
  <2>4. count[c].callback = count[c].enqueued + count[c].contention
    <3>1. count[c] \in Counters
      BY DEF TypeInv, TypeOK, RecordTypes
    <3>2. count[c].callback = count[c].enqueued + count[c].contention
                                + Cardinality(Undecided(c))
      BY DEF CallbacksAddUp
    <3> QED
      BY <2>2, <3>1, <3>2, FS_EmptySet DEF Counters
  <2> QED
    BY <2>1, <2>3, <2>4 DEF Balanced
<1> QED
  BY <1>1, StatsInvariance, PTL
===============================================================================
