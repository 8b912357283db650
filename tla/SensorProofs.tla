---------------------------- MODULE SensorProofs -----------------------------
(***************************************************************************)
(* The safety of a TrackpadSensor that threads share, for any number of    *)
(* threads, queue slots, starts, callbacks and interrupts.                 *)
(***************************************************************************)
EXTENDS Sensor, QueueLemmas

-------------------------------------------------------------------------------
(***************************************************************************)
(* The inductive invariant.                                                *)
(***************************************************************************)

\* A thread holds the lock from where it takes it to where it leaves it.
Holding == Native \cup {"close", "destroy", "freed"}
LockIsHeld == \A t \in Threads : At(t) \in Holding <=> lock = t

\* A thread that is not at rest is in one of the calls.
InACall == \A t \in Threads : At(t) # "idle" => Call(t) \in Calls

\* The one that holds the lock has a capture behind its handle until it has
\* freed it, and the others find the handle to be that of a capture.
Allocated ==
  /\ \A t \in Threads :
       /\ At(t) \in Native \cup {"close", "destroy"} => live /\ handle
       /\ At(t) = "freed" => ~ live /\ handle
  /\ HandleIsOfACapture

\* The callbacks come one at a time,
Alone == inside = Nobody \/ \E p \in Places : inside = [Nobody EXCEPT ![p] = 1]

\* as many in a session as it may have, and in a session.
Counted ==
  /\ counts["callback"] <= MaxCallbacks
  /\ inside["admitted"] > 0 \/ inside["accepted"] > 0 =>
       counts["callback"] < MaxCallbacks
  /\ inside["numbered"] > 0 => counts["callback"] >= 1
InASession ==
  accepting \/ ~ Quiet
    \/ (\E t \in Threads : At(t) \in {"attach", "device_start"}) =>
  session >= 1

Types ==
  /\ TypeOK /\ queue \in Seq(Frames)
  /\ LockIsHeld /\ InACall /\ Allocated
  /\ Alone /\ Counted /\ InASession

\* A frame of the past: of an earlier session, or with a number that was given
\* out, and not the one that a callback is about to queue.
Past(f) ==
  /\ f.session <= session
  /\ f.session = session =>
       /\ f.sequence <= counts["callback"]
       /\ inside["numbered"] > 0 => f.sequence < counts["callback"]

\* The queue holds frames of this session in the order of their numbers,
QueueOfSession ==
  /\ OldestFirst(queue)
  /\ \A i \in DOMAIN queue : queue[i].session = session /\ Past(queue[i])

\* all of them later than those that a thread was given, and than those that
\* were there when a thread last looked and found none.
Remembered ==
  /\ Past(newest)
  /\ \A t \in Threads :
       /\ Past(last[t]) /\ Past(thread[t].seen)
       /\ thread[t].since <= session
       /\ \A i \in DOMAIN queue : Later(last[t], queue[i])
       /\ handle /\ At(t) \in {"ask", "sleep"} =>
            \A i \in DOMAIN queue : Later(thread[t].seen, queue[i])

IInv == Types /\ QueueOfSession /\ Remembered

USE DEF At, Call

-------------------------------------------------------------------------------
(***************************************************************************)
(* Places, threads and frames.                                             *)
(***************************************************************************)

\* A callback that moves on is where it came to, and nobody is elsewhere.
LEMMA MoveAlone ==
  ASSUME Alone, inside \in [Places -> Nat],
         NEW from \in Places, NEW to \in Places, from # to, Move(from, to)
  PROVE  /\ inside = [Nobody EXCEPT ![from] = 1]
         /\ inside' = [Nobody EXCEPT ![to] = 1]
<1>1. PICK p \in Places : inside = [Nobody EXCEPT ![p] = 1]
  BY DEF Alone, Move, Nobody
<1>2. p = from
  BY <1>1 DEF Move, Nobody
<1> QED
  BY <1>1, <1>2 DEF Move, Nobody

\* One that leaves leaves nobody, and one that comes finds nobody.
LEMMA LeaveAlone ==
  ASSUME Alone, inside \in [Places -> Nat], Leave
  PROVE  inside = [Nobody EXCEPT !["leaving"] = 1] /\ inside' = Nobody
<1>1. PICK p \in Places : inside = [Nobody EXCEPT ![p] = 1]
  BY DEF Alone, Leave, Nobody, Places
<1>2. p = "leaving"
  BY <1>1 DEF Leave, Nobody, Places
<1> QED
  BY <1>1, <1>2 DEF Leave, Nobody, Places

\* A call that goes on is where it goes, with what it was, and the other
\* threads are where they were.
Went(t, to) ==
  /\ At(t)' = to
  /\ to # "idle" => /\ Call(t)' = Call(t)
                    /\ thread'[t].since = thread[t].since
  /\ thread'[t].since \in {thread[t].since, 0}
  /\ \A u \in Threads \ {t} : thread'[u] = thread[u]

Records == [at : Sites, call : Calls \cup {"none"}, since : 0 .. MaxStarts,
            seen : Frames \cup {NoFrame}]

\* What Go and GoOn do to the threads.
LEMMA GoWent ==
  ASSUME TypeOK, NEW t \in Threads, NEW to \in Sites,
         Go(t, to) \/ GoOn(t, to)
  PROVE  /\ Went(t, to)
         /\ thread' \in [Threads -> Records]
         /\ thread'[t].seen \in {thread[t].seen, NoFrame, newest}
         /\ Go(t, to) /\ to # "idle" => thread'[t].seen = thread[t].seen
<1>1. thread \in [Threads -> Records] /\ newest \in Frames \cup {NoFrame}
  BY DEF TypeOK, Records
<1>2. Resting \in Records /\ Resting.at = "idle" /\ Resting.since = 0
      /\ Resting.seen = NoFrame
  BY SensorAssumption DEF Resting, Records, Sites
<1>3. /\ [thread[t] EXCEPT !.at = to] \in Records
      /\ [thread[t] EXCEPT !.at = to, !.seen = newest] \in Records
  BY <1>1 DEF Records
<1>4. CASE to = "idle"
  BY <1>1, <1>2, <1>4 DEF Go, GoOn, Went, Records
<1>5. CASE to # "idle" /\ Go(t, to)
  <2>1. thread' = [thread EXCEPT ![t] = [thread[t] EXCEPT !.at = to]]
    BY <1>1, <1>5 DEF Go
  <2> QED
    BY <1>1, <1>3, <1>5, <2>1 DEF Went, Records
<1>6. CASE to # "idle" /\ ~ Go(t, to)
  <2>1. thread' =
          [thread EXCEPT ![t] = [thread[t] EXCEPT !.at = to, !.seen = newest]]
    BY <1>1, <1>6 DEF GoOn
  <2> QED
    BY <1>1, <1>3, <1>6, <2>1 DEF Went, Records
<1> QED
  BY <1>4, <1>5, <1>6

-------------------------------------------------------------------------------
(***************************************************************************)
(* The calls keep the types, the lock and the allocation.                  *)
(***************************************************************************)

\* The steps of the calls of one thread.
CallStep(t) == LockStep(t) \/ OwnStep(t)

\* Where the step of a call goes, it holds the lock if and only if it is to be
\* held there; and no step takes a lock that another thread holds.
HoldsRightly(t, to) ==
  \/ lock \in {None, t} /\ lock' = IF to \in Holding THEN t ELSE None
  \/ At(t) \notin Holding /\ to \notin Holding /\ lock' = lock

\* A step of a call takes its thread from a place of a call to another, and
\* keeps the lock accordingly.
LEMMA CallGoes ==
  ASSUME Types, NEW t \in Threads, CallStep(t)
  PROVE  /\ At(t) # "idle"
         /\ \E to \in Sites : /\ Go(t, to) \/ GoOn(t, to)
                              /\ HoldsRightly(t, to)
<1> USE DEF Types, LockIsHeld, InACall, Holding, Native, Sites, HoldsRightly,
            LockIsFree
<1>1. CASE Take(t)
  <2>1. UnderLock(Call(t)) \in Native \cup {"close"}
    BY <1>1, SensorAssumption DEF Take, UnderLock, Reads
  <2> QED
    BY <1>1, <2>1 DEF Take
<1>2. CASE FindNoHandle(t)
  BY <1>2 DEF FindNoHandle
<1>3. CASE AskRunning(t)
  BY <1>3 DEF AskRunning
<1>4. CASE StartFails(t)
  BY <1>4 DEF StartFails, Leaves
<1>5. CASE StartResets(t)
  BY <1>5 DEF StartResets
<1>6. CASE StartAttaches(t)
  BY <1>6 DEF StartAttaches
<1>7. CASE DeviceStarts(t)
  BY <1>7 DEF DeviceStarts, Leaves
<1>8. CASE DeviceStartFails(t)
  BY <1>8 DEF DeviceStartFails
<1>9. CASE CloseAsks(t) \/ CloseDestroys(t)
  BY <1>9 DEF CloseAsks, CloseDestroys
<1>10. CASE Detach(t)
  BY <1>10 DEF Detach
<1>11. CASE Settle(t)
  BY <1>11 DEF Settle, Leaves
<1>12. CASE CloseEnds(t)
  BY <1>12 DEF CloseEnds, Leaves
<1>13. CASE GivesFrame(t)
  BY <1>13 DEF GivesFrame, Leaves
<1>14. CASE FindsNoFrame(t)
  BY <1>14 DEF FindsNoFrame
<1>15. CASE Wake(t)
  BY <1>15 DEF Wake
<1>16. CASE Timeout(t)
  BY <1>16 DEF Timeout
<1> QED
  BY <1>1, <1>2, <1>3, <1>4, <1>5, <1>6, <1>7, <1>8, <1>9, <1>10, <1>11,
     <1>12, <1>13, <1>14, <1>15, <1>16 DEF CallStep, LockStep, OwnStep

\* So the lock stays held by the thread that is to hold it,
LEMMA LockKept ==
  ASSUME Types, NEW t \in Threads, NEW to \in Sites,
         Went(t, to), HoldsRightly(t, to), At(t) # "idle" \/ to = "idle"
  PROVE  LockIsHeld' /\ InACall'
<1>1. None \notin Threads
  BY SensorAssumption
<1>2. LockIsHeld'
  BY <1>1 DEF Types, LockIsHeld, Went, HoldsRightly
<1>3. InACall'
  BY DEF Types, InACall, Went
<1> QED
  BY <1>2, <1>3

\* and the threads stay typed.
LEMMA CallThreads ==
  ASSUME Types, NEW t \in Threads, CallStep(t)
  PROVE  /\ thread' \in [Threads -> Records]
         /\ LockIsHeld' /\ InACall'
         /\ \E to \in Sites : Went(t, to)
         /\ thread'[t].seen \in {thread[t].seen, NoFrame, newest}
<1>1. PICK to \in Sites : /\ Go(t, to) \/ GoOn(t, to)
                          /\ HoldsRightly(t, to)
  BY CallGoes
<1>2. At(t) # "idle"
  BY CallGoes
<1> QED
  BY <1>1, <1>2, GoWent, LockKept DEF Types

\* What the thread that holds the lock knows decides what is allocated.
LEMMA HolderDecides ==
  ASSUME LockIsHeld',
         \A t \in Threads : lock' = t =>
           /\ At(t)' \in Native \cup {"close", "destroy"} => live' /\ handle'
           /\ At(t)' = "freed" => ~ live' /\ handle',
         HandleIsOfACapture'
  PROVE  Allocated'
  BY DEF Allocated, LockIsHeld, Holding

\* What is behind the handle is allocated.
LEMMA CallAllocated ==
  ASSUME Types, NEW t \in Threads, CallStep(t)
  PROVE  Allocated'
<1> USE DEF Types, Allocated, HandleIsOfACapture
<1>1. PICK to \in Sites : Went(t, to)
  BY CallThreads
<1>2. None \notin Threads /\ LockIsHeld /\ LockIsHeld'
  BY SensorAssumption, CallThreads
<1>3. \A u \in Threads : /\ lock = u <=> At(u) \in Holding
                         /\ lock' = u <=> At(u)' \in Holding
  BY <1>2 DEF LockIsHeld
<1>4. /\ "freed" \notin Native /\ "close" \notin Native
      /\ "destroy" \notin Native
  BY DEF Native
<1>0. live \in BOOLEAN /\ handle \in BOOLEAN
  BY DEF TypeOK, ViewTypeOK
\* It takes the lock,
<1>5. CASE Take(t)
  <2>1. lock = None /\ lock' = t /\ live' /\ handle' /\ At(t)' # "freed"
    <3>1. At(t) \notin Holding
      BY <1>5 DEF Take, Holding, Native
    <3>2. lock = None /\ handle /\ ~ torn /\ UNCHANGED <<live, handle>>
      BY <1>3, <1>5, <3>1 DEF Take, LockIsFree, viewVars, sessionVars
    <3>3. UnderLock(Call(t)) # "freed" /\ Go(t, UnderLock(Call(t)))
          /\ UnderLock(Call(t)) \in Sites
      <4>1. Call(t) \in Calls
        BY <1>5 DEF Take, InACall
      <4>2. UnderLock(Call(t)) \in {"start", "detach", "close", "poll"}
        BY <4>1, SensorAssumption DEF UnderLock, Reads
      <4> QED
        BY <1>5, <4>2 DEF Take, Sites, Native
    <3>4. At(t)' = UnderLock(Call(t))
      BY <3>3, GoWent DEF Went
    <3>5. lock' = t
      BY <1>5 DEF Take
    <3> QED
      BY <1>0, <3>2, <3>3, <3>4, <3>5
  <2> QED
    BY <1>2, <2>1, HolderDecides
\* another thread may hold it,
<1>6. CASE UNCHANGED <<live, handle, lock, torn>> /\ At(t) \notin Holding
  <2>1. \A u \in Threads : lock' = u => At(u)' = At(u)
    BY <1>1, <1>3, <1>6 DEF Went
  <2> QED
    BY <1>2, <1>6, <2>1, HolderDecides
\* it goes on with it,
<1>7. CASE /\ At(t) \in Native \cup {"close", "destroy"}
           /\ UNCHANGED <<live, handle, torn>>
           /\ lock' = None \/ (lock' = t /\ At(t)' # "freed")
  BY <1>0, <1>2, <1>4, <1>7, HolderDecides
\* or it ends.
<1>8. CASE Settle(t)
  <2>1. live /\ handle /\ lock = t /\ handle' = handle /\ torn' = torn
    BY <1>3, <1>8 DEF Settle, tearVars, Holding, Native
  <2>2. CASE CleanedUp /\ caller = "close"
    <3>1. live' /\ Go(t, "destroy") /\ lock' = t
      BY <1>8, <2>1, <2>2 DEF Settle
    <3>2. At(t)' = "destroy"
      BY <3>1, GoWent DEF Went, Sites, Native
    <3> QED
      BY <1>2, <2>1, <3>1, <3>2, HolderDecides
  <2>3. CASE CleanedUp /\ caller = "destroy"
    <3>1. ~ live' /\ Go(t, "freed") /\ lock' = t
      BY <1>8, <2>1, <2>3 DEF Settle
    <3>2. At(t)' = "freed"
      BY <3>1, GoWent DEF Went, Sites
    <3> QED
      BY <1>2, <1>4, <2>1, <3>1, <3>2, HolderDecides
  <2>4. CASE ~ (CleanedUp /\ caller \in {"close", "destroy"})
    <3>1. lock' = None /\ live' = live
      BY <1>8, <2>4 DEF Settle, Leaves
    <3> QED
      BY <1>2, <2>1, <3>1, HolderDecides
  <2> QED
    BY <2>2, <2>3, <2>4
<1>9. CASE CloseEnds(t)
  <2>1. ~ live' /\ ~ handle' /\ lock' = None
    BY <1>9 DEF CloseEnds, Leaves, viewVars, sessionVars
  <2>2. live' \in BOOLEAN /\ handle' \in BOOLEAN
    BY <1>0, <1>9 DEF CloseEnds, viewVars, sessionVars
  <2> QED
    BY <1>2, <2>1, <2>2, HolderDecides
<1>10. CASE \/ StartFails(t) \/ StartResets(t) \/ StartAttaches(t)
            \/ DeviceStarts(t) \/ DeviceStartFails(t) \/ CloseAsks(t)
            \/ CloseDestroys(t) \/ Detach(t) \/ GivesFrame(t) \/ FindsNoFrame(t)
  <2>1. At(t) \in Native \cup {"close", "destroy"}
    BY <1>10 DEF StartFails, StartResets, StartAttaches, DeviceStarts,
         DeviceStartFails, CloseAsks, CloseDestroys, Detach, GivesFrame,
         FindsNoFrame, Native
  <2>2. UNCHANGED <<live, handle, torn>>
    BY <1>10 DEF StartFails, StartResets, StartAttaches, DeviceStarts,
         DeviceStartFails, CloseAsks, CloseDestroys, Detach, GivesFrame,
         FindsNoFrame, Reset, StartDevice, Shut, Poll, viewVars, sessionVars,
         tearVars
  <2>3. lock' = None \/ (lock' = lock /\ At(t)' # "freed")
    <3>1. \/ lock' = None
          \/ lock' = lock /\ \E p \in {"attach", "device_start", "detach",
                                       "settle", "destroy"} : Go(t, p)
      BY <1>10 DEF StartFails, StartResets, StartAttaches, DeviceStarts,
           DeviceStartFails, CloseAsks, CloseDestroys, Detach, GivesFrame,
           FindsNoFrame, Leaves
    <3> QED
      BY <3>1, GoWent DEF Went, Sites, Native
  <2>4. lock = t
    BY <1>3, <2>1 DEF Holding
  <2> QED
    BY <1>7, <2>1, <2>2, <2>3, <2>4
<1>11. CASE FindNoHandle(t) \/ AskRunning(t) \/ Wake(t) \/ Timeout(t)
  BY <1>6, <1>11 DEF FindNoHandle, AskRunning, Wake, Timeout, viewVars,
       sessionVars, tearVars, Holding, Native
<1> QED
  BY <1>5, <1>8, <1>9, <1>10, <1>11 DEF CallStep, LockStep, OwnStep

-------------------------------------------------------------------------------
(***************************************************************************)
(* The calls keep what they see of the capture.                            *)
(***************************************************************************)

\* What a step of a call does to the queue: it empties it for a new session,
\* takes the first frame, or leaves it.
NewSession ==
  /\ session < MaxStarts /\ session' = session + 1
  /\ Quiet /\ queue' = <<>> /\ counts' = NoCounts
  /\ UNCHANGED last
TakesFrame(t) ==
  /\ queue # <<>> /\ queue' = Tail(queue)
  /\ last' = [last EXCEPT ![t] = Head(queue)]
  /\ UNCHANGED <<session, counts>>

\* No step of a call moves a callback.
LEMMA CallOnCapture ==
  ASSUME NEW t \in Threads, CallStep(t)
  PROVE  /\ UNCHANGED <<inside, newest, tearVars>>
         /\ \/ At(t) = "start" /\ NewSession
            \/ At(t) = "poll" /\ TakesFrame(t)
            \/ UNCHANGED <<session, counts, queue, last>>
<1> USE DEF viewVars, sessionVars, tearVars, historyVars
<1>1. CASE LockStep(t)
  BY <1>1 DEF LockStep, Take, FindNoHandle, AskRunning
<1>2. CASE StartResets(t)
  BY <1>2 DEF StartResets, Reset, NewSession
<1>3. CASE GivesFrame(t)
  BY <1>3 DEF GivesFrame, Poll, TakesFrame
<1>4. CASE \/ StartFails(t) \/ StartAttaches(t) \/ DeviceStarts(t)
           \/ DeviceStartFails(t) \/ CloseAsks(t) \/ CloseDestroys(t)
           \/ Detach(t) \/ Settle(t) \/ CloseEnds(t) \/ FindsNoFrame(t)
           \/ Wake(t) \/ Timeout(t)
  BY <1>4 DEF StartFails, StartAttaches, DeviceStarts, DeviceStartFails,
       CloseAsks, CloseDestroys, Detach, Settle, CloseEnds, FindsNoFrame, Wake,
       Timeout, StartDevice, Shut
<1> QED
  BY <1>1, <1>2, <1>3, <1>4 DEF CallStep, OwnStep

\* What it opens and starts it opens and starts in a session.
LEMMA CallOnSession ==
  ASSUME Types, NEW t \in Threads, CallStep(t)
  PROVE  /\ live' \in BOOLEAN /\ running' \in BOOLEAN
         /\ registered' \in BOOLEAN /\ accepting' \in BOOLEAN
         /\ handle' \in BOOLEAN /\ lock' \in Threads \cup {None}
         /\ caller' \in {"start", "stop", "close", "destroy"}
         /\ accepting' => accepting \/ At(t) = "attach"
         /\ At(t)' \in {"attach", "device_start"} =>
              At(t) = "attach" \/ session' = session + 1
<1> USE DEF Types, TypeOK, ViewTypeOK, viewVars, sessionVars, Leaves
<1>1. \A to \in Sites : Go(t, to) \/ GoOn(t, to) => At(t)' = to
  BY GoWent DEF Went
<1>2. CASE Take(t)
  <2>1. Call(t) \in Calls
    BY <1>2 DEF Take, InACall
  <2>2. UnderLock(Call(t)) \in {"start", "detach", "close", "poll"}
    BY <2>1, SensorAssumption DEF UnderLock, Reads
  <2>3. At(t)' \in {"start", "detach", "close", "poll"}
    BY <1>1, <1>2, <2>2 DEF Take, Sites, Native
  <2> QED
    BY <1>2, <2>3 DEF Take
<1>3. CASE FindNoHandle(t) \/ AskRunning(t)
  BY <1>1, <1>3 DEF FindNoHandle, AskRunning, Sites
<1>4. CASE \/ StartFails(t) \/ DeviceStartFails(t) \/ CloseAsks(t)
           \/ CloseDestroys(t)
  BY <1>1, <1>4 DEF StartFails, DeviceStartFails, CloseAsks, CloseDestroys,
                    Sites, Native
<1>5. CASE StartResets(t)
  BY <1>5 DEF StartResets, Reset
<1>6. CASE StartAttaches(t)
  BY <1>6 DEF StartAttaches
<1>7. CASE DeviceStarts(t) \/ Detach(t)
  BY <1>1, <1>7 DEF DeviceStarts, Detach, StartDevice, Shut, Sites, Native
<1>8. CASE Settle(t)
  BY <1>1, <1>8 DEF Settle, Sites, Native
<1>9. CASE CloseEnds(t) \/ GivesFrame(t) \/ FindsNoFrame(t)
  <2>1. At(t)' \in {"idle", "acquire", "ask"}
    BY <1>1, <1>9 DEF CloseEnds, GivesFrame, FindsNoFrame, Sites
  <2>2. lock' = None /\ UNCHANGED <<live, running, registered, accepting>>
    BY <1>9 DEF CloseEnds, GivesFrame, FindsNoFrame, Poll
  <2>3. handle' \in {handle, FALSE} /\ caller' = caller
    BY <1>9 DEF CloseEnds, GivesFrame, FindsNoFrame
  <2> QED
    BY <2>1, <2>2, <2>3
<1>10. CASE Wake(t) \/ Timeout(t)
  BY <1>1, <1>10 DEF Wake, Timeout, Sites
<1> QED
  BY <1>2, <1>3, <1>4, <1>5, <1>6, <1>7, <1>8, <1>9, <1>10
  DEF CallStep, LockStep, OwnStep

\* Together: a step of a call keeps the types.
LEMMA CallTypes ==
  ASSUME Types, NEW t \in Threads, CallStep(t)
  PROVE  Types'
<1>1. /\ TypeOK /\ ViewTypeOK /\ queue \in Seq(Frames) /\ Alone /\ Counted
      /\ InASession
  BY DEF Types, TypeOK
<1>2. /\ UNCHANGED <<inside, newest, interrupts, torn>>
      /\ \/ At(t) = "start" /\ NewSession
         \/ At(t) = "poll" /\ TakesFrame(t)
         \/ UNCHANGED <<session, counts, queue, last>>
  BY CallOnCapture DEF tearVars
<1>3. queue' \in Seq(Frames) /\ Len(queue') <= QueueCapacity
  <2>1. Len(queue) <= QueueCapacity
    BY <1>1 DEF ViewTypeOK
  <2>2. CASE NewSession
    BY <2>2, QueueCapacityAssumption DEF NewSession
  <2>3. CASE TakesFrame(t)
    <3>1. queue # <<>> /\ queue' = Tail(queue)
      BY <2>3 DEF TakesFrame
    <3>2. Tail(queue) \in Seq(Frames) /\ Len(Tail(queue)) <= Len(queue)
      BY <1>1, <3>1, PollElements
    <3> QED
      BY <2>1, <3>1, <3>2, <1>1, QueueCapacityAssumption
  <2> QED
    BY <1>1, <1>2, <2>1, <2>2, <2>3
<1>4. /\ counts' \in [Fields -> Nat] /\ session' \in 0 .. MaxStarts
      /\ session' >= session /\ Counted'
      /\ counts' = counts \/ Quiet
  <2>1. CASE NewSession
    BY <1>1, <1>2, <2>1, SensorAssumption
    DEF NewSession, NoCounts, Fields, Counted, TypeOK, Quiet, Nobody, Places
  <2>2. CASE UNCHANGED <<session, counts>>
    BY <1>1, <1>2, <2>2, SensorAssumption DEF TypeOK, ViewTypeOK, Counted
  <2> QED
    BY <1>2, <2>1, <2>2 DEF TakesFrame
<1>5. last' \in [Threads -> Frames \cup {NoFrame}]
  <2>1. CASE TakesFrame(t)
    <3>1. Head(queue) \in Frames
      BY <1>1, <2>1, PollElements DEF TakesFrame
    <3> QED
      BY <1>1, <2>1, <3>1 DEF TypeOK, TakesFrame
  <2> QED
    BY <1>1, <1>2, <2>1 DEF TypeOK, NewSession
<1>6. TypeOK'
  <2>1. ViewTypeOK'
    BY <1>1, <1>2, <1>3, <1>4, CallOnSession DEF ViewTypeOK
  <2>2. thread' \in [Threads -> Records]
    BY CallThreads
  <2> QED
    BY <1>1, <1>2, <1>4, <1>5, <2>1, <2>2, CallOnSession DEF TypeOK, Records
<1>7. Alone'
  BY <1>1, <1>2 DEF Alone
<1>8. InASession'
  <2>1. session \in Nat /\ session' \in Nat
    BY <1>1, <1>4, SensorAssumption DEF TypeOK
  <2>2. PICK to \in Sites : Went(t, to)
    BY CallThreads
  <2>3. ASSUME At(t) = "attach" \/ session' = session + 1
        PROVE  session' >= 1
    BY <1>1, <1>4, <2>1, <2>3 DEF InASession
  <2>4. /\ accepting' => accepting \/ At(t) = "attach"
        /\ At(t)' \in {"attach", "device_start"} =>
             At(t) = "attach" \/ session' = session + 1
    BY CallOnSession
  <2>5. \A u \in Threads \ {t} : thread'[u] = thread[u]
    BY <2>2 DEF Went
  <2> QED
    BY <1>1, <1>2, <1>4, <2>1, <2>3, <2>4, <2>5 DEF InASession, Quiet
<1> QED
  BY <1>3, <1>4, <1>6, <1>7, <1>8, CallThreads, CallAllocated DEF Types

-------------------------------------------------------------------------------
(***************************************************************************)
(* New calls, interrupts and callbacks keep the types.                     *)
(***************************************************************************)

\* A new call has nothing yet.
LEMMA BeginTypes ==
  ASSUME Types, NEW t \in Threads, NEW c \in Calls, Begin(t, c)
  PROVE  Types'
<1> USE DEF Types, TypeOK, Begin, viewVars, sessionVars, tearVars, historyVars
<1>1. /\ At(t) = "idle" /\ thread' \in [Threads -> Records]
      /\ At(t)' = "acquire" /\ Call(t)' = c
      /\ \A u \in Threads \ {t} : thread'[u] = thread[u]
  BY DEF FirstSite, Records, Sites
<1>2. TypeOK' /\ queue' \in Seq(Frames)
  BY <1>1 DEF ViewTypeOK, Records
<1>3. LockIsHeld' /\ InACall'
  BY <1>1 DEF LockIsHeld, InACall, Holding, Native
<1>4. Allocated'
  BY <1>1 DEF Allocated, HandleIsOfACapture, Native
<1>5. Alone' /\ Counted' /\ InASession'
  BY <1>1 DEF Alone, Counted, InASession, Quiet
<1> QED
  BY <1>2, <1>3, <1>4, <1>5

\* An interrupt comes outside of the native calls, so that what it leaves is
\* still allocated, or torn.
LEMMA InterruptTypes ==
  ASSUME Types, Interrupt
  PROVE  Types'
<1> DEFINE t == MainThread
<1>1. /\ t \in Threads /\ None \notin Threads /\ t # None
      /\ MaxInterrupts \in Nat
  BY SensorAssumption
<1>2. /\ At(t) \notin Native \cup {"idle"} /\ Go(t, "idle")
      /\ UNCHANGED <<viewVars, handle, caller, historyVars>>
      /\ interrupts < MaxInterrupts /\ interrupts' = interrupts + 1
      /\ torn' = (torn \/ At(t) = "freed")
      /\ lock' = IF lock = t THEN None ELSE lock
  BY DEF Interrupt
<1>3. Went(t, "idle") /\ thread' \in [Threads -> Records]
  BY <1>1, <1>2, GoWent DEF Types, Sites
<1>4. LockIsHeld /\ (At(t) \in Holding <=> lock = t)
  BY <1>1 DEF Types, LockIsHeld
<1>5. LockIsHeld' /\ InACall'
  <2>1. HoldsRightly(t, "idle")
    BY <1>2, <1>4 DEF HoldsRightly, Holding, Native
  <2> QED
    BY <1>1, <1>3, <2>1, LockKept DEF Sites
<1>6. Allocated'
  <2>1. \A u \in Threads : lock' = u => lock = u /\ At(u)' = At(u)
    BY <1>1, <1>2, <1>3 DEF Went
  <2>2. UNCHANGED <<live, handle>>
    BY <1>2 DEF viewVars, sessionVars
  <2>3. live \in BOOLEAN /\ handle \in BOOLEAN
    BY DEF Types, TypeOK, ViewTypeOK
  <2>4. ASSUME lock' = None, ~ torn'
        PROVE  handle = live
    <3>1. ~ torn /\ At(t) # "freed"
      BY <1>2, <2>4
    <3>2. CASE lock = None
      BY <3>1, <3>2 DEF Types, Allocated, HandleIsOfACapture
    <3>3. CASE lock = t
      <4>1. At(t) \in {"close", "destroy"}
        BY <1>2, <1>4, <3>1, <3>3 DEF Holding
      <4> QED
        BY <1>1, <2>3, <4>1 DEF Types, Allocated
    <3> QED
      BY <1>1, <1>2, <2>4, <3>2, <3>3
  <2>5. HandleIsOfACapture'
    BY <2>2, <2>4 DEF HandleIsOfACapture
  <2>6. \A u \in Threads : lock' = u =>
          /\ At(u)' \in Native \cup {"close", "destroy"} => live' /\ handle'
          /\ At(u)' = "freed" => ~ live' /\ handle'
    BY <2>1, <2>2 DEF Types, Allocated
  <2> QED
    BY <1>5, <2>5, <2>6, HolderDecides
<1>7. TypeOK' /\ queue' \in Seq(Frames)
  <2>1. lock' \in Threads \cup {None}
    BY <1>2 DEF Types, TypeOK
  <2>2. interrupts' \in 0 .. MaxInterrupts
    BY <1>1, <1>2 DEF Types, TypeOK
  <2>3. torn' \in BOOLEAN
    BY <1>2 DEF Types, TypeOK
  <2> QED
    BY <1>2, <1>3, <2>1, <2>2, <2>3
    DEF Types, TypeOK, ViewTypeOK, Records, viewVars, sessionVars, historyVars
<1>8. Alone' /\ Counted' /\ InASession'
  <2>1. UNCHANGED <<inside, counts, accepting, session>>
    BY <1>2 DEF viewVars, sessionVars, historyVars
  <2>2. \A u \in Threads : At(u)' \in {"idle", At(u)}
    BY <1>3 DEF Went
  <2> QED
    BY <2>1, <2>2 DEF Types, Alone, Counted, InASession, Quiet
<1> QED
  BY <1>5, <1>6, <1>7, <1>8 DEF Types

\* What a callback may do to the counters, the queue and the newest frame.
Arrives ==
  /\ inside = Nobody /\ inside' = [Nobody EXCEPT !["admitted"] = 1]
  /\ accepting /\ counts["callback"] < MaxCallbacks
  /\ UNCHANGED <<counts, queue, newest>>
Passes ==
  /\ inside = [Nobody EXCEPT !["admitted"] = 1]
  /\ inside' \in {[Nobody EXCEPT ![p] = 1] : p \in {"accepted", "leaving"}}
  /\ UNCHANGED <<counts, queue, newest>>
IsNumbered ==
  /\ inside = [Nobody EXCEPT !["accepted"] = 1]
  /\ inside' = [Nobody EXCEPT !["numbered"] = 1]
  /\ counts' = [counts EXCEPT !["callback"] = @ + 1]
  /\ UNCHANGED <<queue, newest>>
Drops ==
  /\ inside = [Nobody EXCEPT !["numbered"] = 1]
  /\ inside' = [Nobody EXCEPT !["leaving"] = 1]
  /\ counts' = [counts EXCEPT !["contention"] = @ + 1]
  /\ UNCHANGED <<queue, newest>>
Queues ==
  /\ inside = [Nobody EXCEPT !["numbered"] = 1]
  /\ inside' = [Nobody EXCEPT !["leaving"] = 1]
  /\ counts' \in {counts, [counts EXCEPT !["overwrite"] = @ + 1]}
  /\ newest' = [session |-> session, sequence |-> counts["callback"]]
  /\ queue' = Push(queue, newest')
Goes ==
  /\ inside = [Nobody EXCEPT !["leaving"] = 1] /\ inside' = Nobody
  /\ UNCHANGED <<counts, queue, newest>>

\* It does nothing else.
LEMMA CallbackCases ==
  ASSUME Types, Callback
  PROVE  /\ UNCHANGED <<sessionVars, lock, handle, caller, thread, tearVars,
                        session, last>>
         /\ Arrives \/ Passes \/ IsNumbered \/ Drops \/ Queues \/ Goes
<1>0. Alone /\ inside \in [Places -> Nat]
  BY DEF Types, TypeOK, ViewTypeOK
<1>1. UNCHANGED <<lock, handle, caller, thread, tearVars, session, last>>
  BY DEF Callback
<1>2. CASE Admit /\ Quiet /\ counts["callback"] < MaxCallbacks
           /\ UNCHANGED newest
  BY <1>1, <1>2 DEF Admit, Quiet, Arrives, Nobody, Places
<1>3. CASE FindAccepting /\ UNCHANGED newest
  BY <1>0, <1>1, <1>3, MoveAlone DEF FindAccepting, Passes, Places
<1>4. CASE FindClosed /\ UNCHANGED newest
  BY <1>0, <1>1, <1>4, MoveAlone DEF FindClosed, Passes, Places
<1>5. CASE Number /\ UNCHANGED newest
  BY <1>0, <1>1, <1>5, MoveAlone DEF Number, Count, IsNumbered, Places
<1>6. CASE DropFrame /\ UNCHANGED newest
  BY <1>0, <1>1, <1>6, MoveAlone DEF DropFrame, Count, Drops, Places
<1>7. CASE /\ newest' = [session |-> session, sequence |-> counts["callback"]]
           /\ Enqueue(newest')
  BY <1>0, <1>1, <1>7, MoveAlone DEF Enqueue, Count, Queues, Places
<1>8. CASE Leave /\ UNCHANGED newest
  BY <1>0, <1>1, <1>8, LeaveAlone DEF Leave, Goes
<1> QED
  BY <1>2, <1>3, <1>4, <1>5, <1>6, <1>7, <1>8 DEF Callback

\* A callback is counted once, in a session, and its frame fits the queue.
LEMMA CallbackTypes ==
  ASSUME Types, Callback
  PROVE  Types'
<1> USE DEF Nobody, Places, Fields, Quiet
<1>1. /\ UNCHANGED <<sessionVars, lock, handle, caller, thread, tearVars,
                     session, last>>
      /\ Arrives \/ Passes \/ IsNumbered \/ Drops \/ Queues \/ Goes
  BY CallbackCases
<1>2. /\ inside \in [Places -> Nat] /\ counts \in [Fields -> Nat]
      /\ newest \in Frames \cup {NoFrame} /\ session \in 0 .. MaxStarts
      /\ queue \in Seq(Frames) /\ Len(queue) <= QueueCapacity
      /\ Counted /\ InASession
      /\ MaxStarts \in Nat /\ MaxCallbacks \in Nat
  BY SensorAssumption DEF Types, TypeOK, ViewTypeOK
<1>3. UNCHANGED <<live, running, registered, accepting>>
  BY <1>1 DEF sessionVars
<1>4. LockIsHeld' /\ InACall' /\ Allocated'
  BY <1>1, <1>3 DEF Types, LockIsHeld, InACall, Allocated, HandleIsOfACapture,
                    tearVars
<1>5. /\ Alone' /\ inside' \in [Places -> Nat]
      /\ counts' \in [Fields -> Nat] /\ Counted'
  <2>1. CASE Arrives
    BY <1>2, <2>1 DEF Arrives, Alone, Counted
  <2>2. CASE Passes
    BY <1>2, <2>2 DEF Passes, Alone, Counted
  <2>3. CASE IsNumbered
    BY <1>2, <2>3 DEF IsNumbered, Alone, Counted
  <2>4. CASE Drops
    BY <1>2, <2>4 DEF Drops, Alone, Counted
  <2>5. CASE Queues
    BY <1>2, <2>5 DEF Queues, Alone, Counted
  <2>6. CASE Goes
    BY <1>2, <2>6 DEF Goes, Alone, Counted
  <2> QED
    BY <1>1, <2>1, <2>2, <2>3, <2>4, <2>5, <2>6
<1>6. session >= 1
  BY <1>1, <1>2 DEF InASession, Arrives, Passes, IsNumbered, Drops, Queues,
                    Goes
<1>7. InASession'
  BY <1>1, <1>6 DEF InASession
<1>8. /\ newest' \in Frames \cup {NoFrame}
      /\ queue' \in Seq(Frames) /\ Len(queue') <= QueueCapacity
  <2>1. CASE Queues
    <3>1. counts["callback"] >= 1 /\ counts["callback"] <= MaxCallbacks
      BY <1>2, <2>1 DEF Counted, Queues
    <3>2. newest' \in Frames
      BY <1>2, <1>6, <2>1, <3>1 DEF Queues, Frames
    <3>3. /\ Push(queue, newest') \in Seq(Frames)
          /\ Len(Push(queue, newest')) <= QueueCapacity
      BY <1>2, <3>2, PushElements, PushOrigin
    <3> QED
      BY <2>1, <3>2, <3>3 DEF Queues
  <2>2. CASE UNCHANGED <<newest, queue>>
    BY <1>2, <2>2
  <2> QED
    BY <1>1, <2>1, <2>2 DEF Arrives, Passes, IsNumbered, Drops, Goes
<1>9. TypeOK'
  BY <1>1, <1>3, <1>5, <1>8
  DEF Types, TypeOK, ViewTypeOK, tearVars, sessionVars
<1> QED
  BY <1>4, <1>5, <1>7, <1>8, <1>9 DEF Types

\* The types are invariant.
LEMMA TypesInvariance == Spec => []Types
<1>1. Init => Types
  <2> SUFFICES ASSUME Init
               PROVE  Types
    OBVIOUS
  <2> USE SensorAssumption, QueueCapacityAssumption DEF Init, Resting
  <2>1. TypeOK /\ queue \in Seq(Frames)
    <3>1. queue \in Seq(Frames) /\ Len(queue) <= QueueCapacity
      OBVIOUS
    <3>2. inside \in [Places -> Nat] /\ counts \in [Fields -> Nat]
      BY DEF NoCounts, Nobody
    <3>3. ViewTypeOK
      BY <3>1, <3>2 DEF ViewTypeOK
    <3>4. thread \in [Threads -> Records]
      BY DEF Records, Sites
    <3>5. last \in [Threads -> Frames \cup {NoFrame}]
      OBVIOUS
    <3>6. /\ lock \in Threads \cup {None} /\ handle \in BOOLEAN
          /\ caller \in {"start", "stop", "close", "destroy"}
          /\ torn \in BOOLEAN /\ newest \in Frames \cup {NoFrame}
      OBVIOUS
    <3>7. interrupts \in 0 .. MaxInterrupts /\ session \in 0 .. MaxStarts
      OBVIOUS
    <3> HIDE DEF Init, Resting
    <3> QED
      BY <3>1, <3>3, <3>4, <3>5, <3>6, <3>7 DEF TypeOK, Records
  <2>2. LockIsHeld /\ InACall /\ Allocated
    BY DEF LockIsHeld, InACall, Allocated, HandleIsOfACapture, Holding, Native
  <2>3. Alone /\ Counted /\ InASession
    BY DEF Alone, Counted, InASession, NoCounts, Nobody, Places, Fields, Quiet
  <2> QED
    BY <2>1, <2>2, <2>3 DEF Types
<1>2. Types /\ [Next]_vars => Types'
  <2> SUFFICES ASSUME Types, [Next]_vars
               PROVE  Types'
    OBVIOUS
  <2>1. CASE UNCHANGED vars
    BY <2>1 DEF vars, viewVars, sessionVars, tearVars, historyVars, Types,
         TypeOK, ViewTypeOK, LockIsHeld, InACall, Allocated,
         HandleIsOfACapture, Alone, Counted, InASession, Quiet
  <2>2. ASSUME NEW t \in Threads, LockStep(t) \/ OwnStep(t)
        PROVE  Types'
    BY <2>2, CallTypes DEF CallStep
  <2> QED
    BY <2>1, <2>2, CallbackTypes, InterruptTypes, BeginTypes DEF Next
<1> QED
  BY <1>1, <1>2, PTL DEF Spec

\* Everything stays within its type: in particular no frame is without a
\* session or a number, and the queue holds no more than its capacity.
THEOREM TypeCorrect == Spec => []TypeOK
<1>1. Types => TypeOK
  BY DEF Types
<1> QED
  BY <1>1, TypesInvariance, PTL

\* The lock of the binding keeps all but one thread out of the native calls,
\* and its handle leads none of them to a capture that was freed
\* (mt_phase1.h:21).
THEOREM CallsAreSerializedHolds == Spec => []CallsAreSerialized
<1>1. Types => CallsAreSerialized
  BY DEF Types, CallsAreSerialized, LockIsHeld, Allocated, Holding
<1> QED
  BY <1>1, TypesInvariance, PTL

\* A close that raises keeps the capture and the handle, and one that returns
\* keeps neither, whatever the other threads call and whichever step of the
\* cleanup the framework refuses.
THEOREM HandleIsOfACaptureHolds == Spec => []HandleIsOfACapture
<1>1. Types => HandleIsOfACapture
  BY DEF Types, Allocated
<1> QED
  BY <1>1, TypesInvariance, PTL

-------------------------------------------------------------------------------
(***************************************************************************)
(* The order of the frames.                                                *)
(***************************************************************************)

\* What the proofs need of the types.
LEMMA OrderTypes ==
  ASSUME Types
  PROVE  /\ inside \in [Places -> Nat] /\ counts["callback"] \in Nat
         /\ session \in Nat /\ queue \in Seq(Frames)
         /\ MaxStarts \in Nat /\ MaxCallbacks \in Nat
         /\ \A f \in Frames \cup {NoFrame} :
              f.session \in Nat /\ f.sequence \in Nat
         /\ newest \in Frames \cup {NoFrame} /\ thread \in [Threads -> Records]
         /\ \A t \in Threads : /\ last[t] \in Frames \cup {NoFrame}
                               /\ thread[t].seen \in Frames \cup {NoFrame}
                               /\ thread[t].since \in Nat
         /\ \A i \in DOMAIN queue : queue[i] \in Frames
<1>1. /\ inside \in [Places -> Nat] /\ counts["callback"] \in Nat
      /\ session \in Nat /\ queue \in Seq(Frames)
      /\ MaxStarts \in Nat /\ MaxCallbacks \in Nat
      /\ newest \in Frames \cup {NoFrame} /\ thread \in [Threads -> Records]
      /\ last \in [Threads -> Frames \cup {NoFrame}]
  BY SensorAssumption DEF Types, TypeOK, ViewTypeOK, Fields, Records
<1>2. \A f \in Frames \cup {NoFrame} : f.session \in Nat /\ f.sequence \in Nat
  BY <1>1 DEF Frames, NoFrame
<1>3. \A t \in Threads : /\ thread[t].seen \in Frames \cup {NoFrame}
                         /\ thread[t].since \in Nat
  BY <1>1 DEF Records
<1>4. \A i \in DOMAIN queue : queue[i] \in Frames
  BY <1>1
<1> QED
  BY <1>1, <1>2, <1>3, <1>4

\* No callback brings a frame of the past back.
LEMMA PastCallback ==
  ASSUME Types, Callback, NEW f \in Frames \cup {NoFrame}, Past(f)
  PROVE  Past(f)'
<1> USE DEF Nobody, Places, Fields
<1>1. /\ UNCHANGED <<sessionVars, lock, handle, caller, thread, tearVars,
                     session, last>>
      /\ Arrives \/ Passes \/ IsNumbered \/ Drops \/ Queues \/ Goes
  BY CallbackCases
<1>2. /\ counts["callback"] \in Nat /\ session \in Nat
      /\ f.session \in Nat /\ f.sequence \in Nat
      /\ counts \in [Fields -> Nat]
  BY OrderTypes DEF Types, TypeOK, ViewTypeOK
<1>3. \/ counts'["callback"] = counts["callback"] + 1
           /\ inside["numbered"] = 0 /\ inside'["numbered"] = 1
      \/ counts'["callback"] = counts["callback"] /\ inside'["numbered"] = 0
  <2>1. CASE IsNumbered
    BY <1>2, <2>1 DEF IsNumbered
  <2>2. CASE Drops \/ Queues
    BY <1>2, <2>2 DEF Drops, Queues
  <2>3. CASE Arrives \/ Passes \/ Goes
    BY <2>3 DEF Arrives, Passes, Goes
  <2> QED
    BY <1>1, <2>1, <2>2, <2>3
<1> QED
  BY <1>1, <1>2, <1>3 DEF Past

\* Nor does the step of a call: at most it makes it one of an earlier session.
LEMMA PastCall ==
  ASSUME Types, NEW t \in Threads, CallStep(t),
         NEW f \in Frames \cup {NoFrame}, Past(f)
  PROVE  Past(f)' /\ session <= session'
<1>1. session \in Nat /\ f.session \in Nat /\ f.sequence \in Nat
  BY OrderTypes
<1>2. /\ UNCHANGED inside
      /\ session' = session + 1 \/ UNCHANGED <<session, counts>>
  BY CallOnCapture DEF NewSession, TakesFrame
<1> QED
  BY <1>1, <1>2 DEF Past

\* A callback puts a frame behind the others that is later than all those of
\* the past.
LEMMA CallbackOrder ==
  ASSUME IInv, Callback
  PROVE  QueueOfSession' /\ Remembered'
<1> USE DEF IInv
<1>1. /\ UNCHANGED <<handle, thread, session, last>>
      /\ Arrives \/ Passes \/ IsNumbered \/ Drops \/ Queues \/ Goes
  BY CallbackCases
<1>2. /\ counts["callback"] \in Nat /\ session \in Nat
      /\ queue \in Seq(Frames)
      /\ \A f \in Frames \cup {NoFrame} :
           f.session \in Nat /\ f.sequence \in Nat
      /\ newest \in Frames \cup {NoFrame}
      /\ \A t \in Threads : /\ last[t] \in Frames \cup {NoFrame}
                            /\ thread[t].seen \in Frames \cup {NoFrame}
                            /\ thread[t].since \in Nat
      /\ \A i \in DOMAIN queue : queue[i] \in Frames
  BY OrderTypes
<1>3. \A f \in Frames \cup {NoFrame} : Past(f) => Past(f)'
  BY PastCallback
<1>4. CASE UNCHANGED <<queue, newest>>
  <2>1. QueueOfSession'
    BY <1>1, <1>2, <1>3, <1>4 DEF QueueOfSession, OldestFirst
  <2>2. Past(newest)' /\ \A t \in Threads : Past(last[t])'
                                         /\ Past(thread[t].seen)'
    BY <1>1, <1>2, <1>3, <1>4 DEF Remembered, Past
  <2> QED
    BY <1>1, <1>4, <2>1, <2>2 DEF Remembered
<1>5. CASE Queues
  <2>1. /\ newest' \in Frames /\ queue' = Push(queue, newest')
        /\ newest'.session = session
        /\ newest'.sequence = counts["callback"]
        /\ inside["numbered"] > 0
    <3>1. newest'.session >= 1 /\ newest' \in Frames \cup {NoFrame}
      <4>1. Types'
        BY CallbackTypes
      <4>2. session >= 1
        BY <1>2, <1>5 DEF Types, InASession, Queues, Quiet, Nobody, Places
      <4> QED
        BY <1>5, <4>1, <4>2 DEF Types, TypeOK, Queues
    <3> QED
      BY <1>5, <3>1 DEF Queues, NoFrame, Nobody, Places
  <2>2. \A f \in Frames \cup {NoFrame} : Past(f) => Later(f, newest')
    BY <1>2, <2>1 DEF Past, Later
  <2>3. Past(newest)'
    <3>1. inside'["numbered"] = 0 /\ counts'["callback"] = counts["callback"]
      BY <1>5 DEF Queues, Nobody, Places, Types, TypeOK, ViewTypeOK, Fields
    <3> QED
      BY <1>1, <1>2, <2>1, <3>1 DEF Past
  <2>4. \A i \in DOMAIN queue' :
          queue'[i] = newest' \/ \E j \in DOMAIN queue : queue'[i] = queue[j]
    BY <1>2, <2>1, PushOrigin
  <2>5. \A i \in DOMAIN queue : queue[i].sequence < newest'.sequence
    BY <1>2, <2>1 DEF QueueOfSession, Past
  <2>6. OldestFirst(queue')
    BY <1>2, <2>1, <2>5, PushInOrder DEF QueueOfSession
  <2>7. \A i \in DOMAIN queue' : queue'[i].session = session'
                              /\ Past(queue[i])'
    BY <1>1, <1>2, <1>3, <2>1, <2>3, <2>4 DEF QueueOfSession, Past
  <2>8. QueueOfSession'
    BY <2>6, <2>7 DEF QueueOfSession, OldestFirst
  <2>9. ASSUME NEW t \in Threads
        PROVE  /\ Past(last[t])' /\ Past(thread[t].seen)'
               /\ thread'[t].since <= session'
               /\ \A i \in DOMAIN queue' : Later(last'[t], queue'[i])
               /\ handle' /\ At(t)' \in {"ask", "sleep"} =>
                    \A i \in DOMAIN queue' : Later(thread'[t].seen, queue'[i])
    <3>1. /\ Past(last[t]) /\ Past(thread[t].seen)
          /\ thread[t].since <= session
          /\ \A i \in DOMAIN queue : Later(last[t], queue[i])
          /\ handle /\ At(t) \in {"ask", "sleep"} =>
               \A i \in DOMAIN queue : Later(thread[t].seen, queue[i])
      BY DEF Remembered
    <3>2. Past(last[t])' /\ Past(thread[t].seen)'
      BY <1>1, <1>2, <1>3, <3>1 DEF Past
    <3>3. Later(last[t], newest') /\ Later(thread[t].seen, newest')
      BY <1>2, <2>2, <3>1
    <3> QED
      BY <1>1, <2>4, <3>1, <3>2, <3>3
  <2> QED
    BY <2>3, <2>8, <2>9 DEF Remembered
<1> QED
  BY <1>1, <1>4, <1>5 DEF Arrives, Passes, IsNumbered, Drops, Goes

\* Before the first frame there is only the past.
LEMMA NoFrameIsPast ==
  ASSUME Types
  PROVE  Past(NoFrame)
<1>1. session \in Nat /\ counts["callback"] \in Nat
      /\ inside \in [Places -> Nat]
  BY OrderTypes
<1>2. inside["numbered"] > 0 => session >= 1
  BY DEF Types, InASession, Quiet, Nobody, Places
<1> QED
  BY <1>1, <1>2 DEF Past, NoFrame

\* A read goes to ask, and so to sleep, when it found the queue empty, or when
\* there is no capture any more.
LEMMA CallWaits ==
  ASSUME Types, NEW t \in Threads, CallStep(t),
         handle', At(t)' \in {"ask", "sleep"}
  PROVE  \/ queue' = <<>>
         \/ /\ At(t) = "ask" /\ UNCHANGED <<handle, queue>>
            /\ thread'[t].seen = thread[t].seen
<1> USE DEF Types, viewVars
<1>1. \A to \in Sites :
        Go(t, to) \/ GoOn(t, to) =>
          /\ At(t)' = to
          /\ Go(t, to) /\ to # "idle" => thread'[t].seen = thread[t].seen
  BY GoWent DEF Went
<1>2. CASE Take(t)
  <2>1. Call(t) \in Calls
    BY <1>2 DEF Take, InACall
  <2>2. UnderLock(Call(t)) \in {"start", "detach", "close", "poll"}
    BY <2>1, SensorAssumption DEF UnderLock, Reads
  <2> QED
    BY <1>1, <1>2, <2>2 DEF Take, Sites, Native
<1>3. CASE FindNoHandle(t)
  BY <1>3 DEF FindNoHandle
<1>4. CASE AskRunning(t)
  BY <1>1, <1>4 DEF AskRunning, Sites
<1>5. CASE FindsNoFrame(t)
  BY <1>5 DEF FindsNoFrame
<1>6. CASE GivesFrame(t)
  <2>1. At(t)' \in {"acquire", "idle"}
    BY <1>1, <1>6 DEF GivesFrame, Leaves, Sites
  <2> QED
    BY <2>1
<1>7. CASE StartFails(t) \/ StartResets(t) \/ StartAttaches(t)
  BY <1>1, <1>7 DEF StartFails, StartResets, StartAttaches, Leaves, Sites,
                    Native
<1>8. CASE \/ DeviceStarts(t) \/ DeviceStartFails(t) \/ CloseAsks(t)
           \/ CloseDestroys(t)
  BY <1>1, <1>8 DEF DeviceStarts, DeviceStartFails, CloseAsks, CloseDestroys,
                    Leaves, Sites, Native
<1>9. CASE Detach(t) \/ Settle(t) \/ CloseEnds(t)
  BY <1>1, <1>9 DEF Detach, Settle, CloseEnds, Leaves, Sites, Native
<1>10. CASE Wake(t) \/ Timeout(t)
  BY <1>1, <1>10 DEF Wake, Timeout, Sites
<1> QED
  BY <1>2, <1>3, <1>4, <1>5, <1>6, <1>7, <1>8, <1>9, <1>10
  DEF CallStep, LockStep, OwnStep

\* A call takes frames from the front of the queue, or all of them.
LEMMA CallQueue ==
  ASSUME IInv, NEW t \in Threads, CallStep(t)
  PROVE  /\ QueueOfSession'
         /\ \A u \in Threads : /\ last'[u] = last[u] \/ (TakesFrame(t) /\ u = t)
                               /\ Past(last[u])'
                               /\ \A i \in DOMAIN queue' :
                                    Later(last'[u], queue'[i])
         /\ \A i \in DOMAIN queue' : \E j \in DOMAIN queue :
              queue'[i] = queue[j]
<1> USE DEF IInv
<1>1. /\ session \in Nat /\ session' \in Nat /\ queue \in Seq(Frames)
      /\ \A f \in Frames \cup {NoFrame} :
           f.session \in Nat /\ f.sequence \in Nat
      /\ \A u \in Threads : last[u] \in Frames \cup {NoFrame}
      /\ \A i \in DOMAIN queue : queue[i] \in Frames
      /\ last \in [Threads -> Frames \cup {NoFrame}]
  BY OrderTypes, CallTypes DEF Types, TypeOK
<1>2. \/ NewSession \/ TakesFrame(t)
      \/ UNCHANGED <<session, counts, queue, last>>
  BY CallOnCapture
<1>3. \A f \in Frames \cup {NoFrame} : Past(f) => Past(f)'
  BY PastCall
<1>4. /\ \A u \in Threads : Past(last[u])
      /\ \A u \in Threads, i \in DOMAIN queue : Later(last[u], queue[i])
  BY DEF Remembered
<1>5. CASE NewSession
  <2>1. queue' = <<>> /\ last' = last
    BY <1>5 DEF NewSession
  <2>2. QueueOfSession'
    BY <2>1, EmptyInOrder DEF QueueOfSession, OldestFirst
  <2> QED
    BY <1>1, <1>3, <1>4, <2>1, <2>2 DEF Past
<1>6. CASE TakesFrame(t)
  <2>1. /\ queue # <<>> /\ queue' = Tail(queue) /\ session' = session
        /\ last' = [last EXCEPT ![t] = Head(queue)]
    BY <1>6 DEF TakesFrame
  <2>2. /\ Head(queue) = queue[1] /\ 1 \in DOMAIN queue
        /\ Head(queue) \in Frames
        /\ \A i \in DOMAIN Tail(queue) :
             \E j \in DOMAIN queue : j > 1 /\ Tail(queue)[i] = queue[j]
        /\ OldestFirst(queue) =>
             /\ OldestFirst(Tail(queue))
             /\ \A i \in DOMAIN Tail(queue) :
                  Head(queue).sequence < Tail(queue)[i].sequence
    BY <1>1, <2>1, PollElements
  <2>3. /\ OldestFirst(queue)
        /\ \A i \in DOMAIN queue : queue[i].session = session /\ Past(queue[i])
    BY DEF QueueOfSession
  <2>4. \A i \in DOMAIN queue' : /\ queue'[i] \in Frames
                                 /\ queue'[i].session = session
                                 /\ Past(queue'[i])
    BY <1>1, <2>1, <2>2, <2>3
  <2>5. \A i \in DOMAIN queue' : /\ queue'[i].session = session'
                                 /\ Past(queue[i])'
    BY <1>3, <2>1, <2>4 DEF Past
  <2>6. QueueOfSession'
    BY <2>1, <2>2, <2>3, <2>5 DEF QueueOfSession, OldestFirst
  <2>7. Past(Head(queue)) /\ \A i \in DOMAIN queue' :
                               Later(Head(queue), queue'[i])
    BY <1>1, <2>1, <2>2, <2>3, <2>4 DEF Later
  <2>8. \A u \in Threads : \A i \in DOMAIN queue' : Later(last[u], queue'[i])
    BY <1>4, <2>1, <2>2
  <2>9. \A u \in Threads :
          last'[u] = IF u = t THEN Head(queue) ELSE last[u]
    BY <1>1, <2>1
  <2>10. \A u \in Threads : last'[u] \in Frames \cup {NoFrame} /\ Past(last'[u])
    BY <1>1, <1>4, <2>2, <2>7, <2>9
  <2>11. \A u \in Threads : Past(last[u])'
    BY <1>3, <2>10 DEF Past
  <2> QED
    BY <1>6, <2>1, <2>2, <2>6, <2>7, <2>8, <2>9, <2>11
<1>7. CASE UNCHANGED <<session, counts, queue, last>>
  <2>1. QueueOfSession'
    BY <1>1, <1>3, <1>7 DEF QueueOfSession, OldestFirst, Past
  <2> QED
    BY <1>1, <1>3, <1>4, <1>7, <2>1 DEF Past
<1> QED
  BY <1>2, <1>5, <1>6, <1>7

\* What the threads remember stays of the past, and what a read waits for is
\* later.
LEMMA CallOrder ==
  ASSUME IInv, NEW t \in Threads, CallStep(t)
  PROVE  QueueOfSession' /\ Remembered'
<1> USE DEF IInv
<1>1. /\ session \in Nat /\ session' \in Nat
      /\ newest \in Frames \cup {NoFrame} /\ NoFrame \in Frames \cup {NoFrame}
      /\ \A u \in Threads : /\ thread[u].seen \in Frames \cup {NoFrame}
                            /\ thread[u].since \in Nat
  BY OrderTypes, CallTypes DEF Types, TypeOK
<1>2. /\ Past(newest) /\ Past(NoFrame)
      /\ \A u \in Threads : /\ Past(thread[u].seen)
                            /\ thread[u].since <= session
  BY NoFrameIsPast DEF Remembered
<1>3. newest' = newest
  BY CallOnCapture
<1>4. PICK to \in Sites : Went(t, to)
  BY CallThreads
<1>5. thread'[t].seen \in {thread[t].seen, NoFrame, newest}
  BY CallThreads
<1>6. \A f \in Frames \cup {NoFrame} : Past(f) => Past(f)'
  BY PastCall
<1>7. session <= session'
  BY <1>1, <1>2, PastCall
<1>8. Past(newest)'
  BY <1>1, <1>2, <1>3, <1>6 DEF Past
<1>9. ASSUME NEW u \in Threads
      PROVE  Past(thread[u].seen)' /\ thread'[u].since <= session'
  <2>1. CASE u = t
    <3>1. Past(thread[t].seen)'
      BY <1>1, <1>2, <1>5, <1>6 DEF Past
    <3>2. thread'[t].since \in {thread[t].since, 0}
      BY <1>4 DEF Went
    <3> QED
      BY <1>1, <1>2, <1>7, <2>1, <3>1, <3>2
  <2>2. CASE u # t
    <3>1. thread'[u] = thread[u]
      BY <1>4, <2>2 DEF Went
    <3> QED
      BY <1>1, <1>2, <1>6, <1>7, <3>1 DEF Past
  <2> QED
    BY <2>1, <2>2
<1>10. ASSUME NEW u \in Threads, handle', At(u)' \in {"ask", "sleep"}
       PROVE  \A i \in DOMAIN queue' : Later(thread'[u].seen, queue'[i])
  <2>1. handle /\ At(u) \in {"ask", "sleep"} =>
          \A i \in DOMAIN queue : Later(thread[u].seen, queue[i])
    BY DEF Remembered
  <2>2. \A i \in DOMAIN queue' : \E j \in DOMAIN queue : queue'[i] = queue[j]
    BY CallQueue
  <2>3. CASE u = t
    <3>1. \/ queue' = <<>>
          \/ /\ At(t) = "ask" /\ UNCHANGED <<handle, queue>>
             /\ thread'[t].seen = thread[t].seen
      BY <1>10, <2>3, CallWaits
    <3>2. CASE queue' = <<>>
      BY <3>2
    <3>3. CASE /\ At(t) = "ask" /\ UNCHANGED <<handle, queue>>
               /\ thread'[t].seen = thread[t].seen
      <4>1. handle /\ At(u) = "ask"
        BY <1>10, <2>3, <3>3
      <4>2. \A i \in DOMAIN queue : Later(thread[u].seen, queue[i])
        BY <2>1, <4>1
      <4>3. queue' = queue /\ thread'[u].seen = thread[u].seen
        BY <2>3, <3>3
      <4> QED
        BY <4>2, <4>3
    <3> QED
      BY <3>1, <3>2, <3>3
  <2>4. CASE u # t
    <3>1. thread'[u] = thread[u]
      BY <1>4, <2>4 DEF Went
    <3>2. handle
      BY <1>10 DEF CallStep, LockStep, OwnStep, Take, FindNoHandle,
           AskRunning, StartFails, StartResets, StartAttaches, DeviceStarts,
           DeviceStartFails, CloseAsks, CloseDestroys, Detach, Settle,
           CloseEnds, GivesFrame, FindsNoFrame, Wake, Timeout
    <3> QED
      BY <1>10, <2>1, <2>2, <3>1, <3>2
  <2> QED
    BY <2>3, <2>4
<1>11. QueueOfSession' /\ \A u \in Threads :
         Past(last[u])' /\ \A i \in DOMAIN queue' : Later(last'[u], queue'[i])
  BY CallQueue
<1>12. Remembered'
  BY <1>8, <1>9, <1>10, <1>11 DEF Remembered
<1> QED
  BY <1>11, <1>12

\* A new call remembers the newest frame, and an interrupted one nothing.
LEMMA OtherOrder ==
  ASSUME IInv,
         Interrupt \/ \E t \in Threads, c \in Calls : Begin(t, c)
  PROVE  QueueOfSession' /\ Remembered'
<1> USE DEF IInv
<1>1. UNCHANGED <<viewVars, handle, historyVars>>
  BY DEF Interrupt, Begin
<1>2. UNCHANGED <<inside, counts, queue, handle, session, newest, last>>
  BY <1>1 DEF viewVars, historyVars
<1>3. PICK t \in Threads :
        /\ At(t)' \in {"idle", "acquire"}
        /\ thread'[t].seen \in {NoFrame, newest}
        /\ thread'[t].since \in {0, session}
        /\ \A u \in Threads \ {t} : thread'[u] = thread[u]
  <2>1. CASE Interrupt
    BY <2>1, SensorAssumption DEF Interrupt, Go, Resting, Types, TypeOK
  <2>2. ASSUME NEW t \in Threads, NEW c \in Calls, Begin(t, c)
        PROVE  /\ At(t)' \in {"idle", "acquire"}
               /\ thread'[t].seen \in {NoFrame, newest}
               /\ thread'[t].since \in {0, session}
               /\ \A u \in Threads \ {t} : thread'[u] = thread[u]
    BY <2>2 DEF Begin, FirstSite, Types, TypeOK
  <2> QED
    BY <2>1, <2>2
<1>4. QueueOfSession'
  BY <1>2 DEF QueueOfSession, Past, OldestFirst
<1>5. session \in Nat /\ Past(newest) /\ Past(NoFrame)
  BY OrderTypes, NoFrameIsPast DEF Remembered
<1>6. ASSUME NEW u \in Threads
      PROVE  Past(thread[u].seen)' /\ thread'[u].since <= session'
  <2>1. CASE u = t
    BY <1>2, <1>3, <1>5, <2>1 DEF Past
  <2>2. CASE u # t
    BY <1>2, <1>3, <2>2 DEF Past, Remembered
  <2> QED
    BY <2>1, <2>2
<1>7. \A u \in Threads : At(u)' \in {"ask", "sleep"} => thread'[u] = thread[u]
  BY <1>3
<1>8. Remembered'
  BY <1>2, <1>6, <1>7 DEF Remembered, Past
<1> QED
  BY <1>4, <1>8

\* So the order is invariant, too.
LEMMA Invariance == Spec => []IInv
<1>1. Init => QueueOfSession /\ Remembered
  BY EmptyInOrder, SensorAssumption
  DEF Init, QueueOfSession, Remembered, Past, Resting, NoFrame, NoCounts,
      Nobody, Fields, Places
<1>2. IInv /\ [Next]_vars => QueueOfSession' /\ Remembered'
  <2> SUFFICES ASSUME IInv, [Next]_vars
               PROVE  QueueOfSession' /\ Remembered'
    OBVIOUS
  <2>1. CASE UNCHANGED vars
    BY <2>1 DEF vars, viewVars, historyVars, IInv, QueueOfSession, Remembered,
         Past, OldestFirst
  <2>2. ASSUME NEW t \in Threads, LockStep(t) \/ OwnStep(t)
        PROVE  QueueOfSession' /\ Remembered'
    BY <2>2, CallOrder DEF CallStep
  <2> QED
    BY <2>1, <2>2, CallbackOrder, OtherOrder DEF Next
<1> QED
  BY <1>1, <1>2, TypesInvariance, PTL DEF Spec, IInv

\* Every read gives a thread a later frame than its read before, and none of a
\* session over when the read began, however many threads read, stop and start
\* between its polls.
THEOREM ReadsAreInOrderHolds == Spec => ReadsAreInOrder
<1>1. ASSUME IInv, Next, NEW t \in Threads, last'[t] # last[t]
      PROVE  Later(last[t], last'[t]) /\ last'[t].session >= thread[t].since
  <2>1. PICK u \in Threads : CallStep(u)
    BY <1>1, CallbackCases
    DEF Next, IInv, CallStep, Interrupt, Begin, historyVars
  <2>2. TakesFrame(t)
    BY <1>1, <2>1, CallQueue
  <2>3. queue \in Seq(Frames) /\ queue # <<>> /\ last'[t] = Head(queue)
    BY <1>1, <2>2, OrderTypes DEF IInv, Types, TypeOK, TakesFrame
  <2>4. 1 \in DOMAIN queue /\ Head(queue) = queue[1]
    BY <2>3, PollElements
  <2> QED
    BY <1>1, <2>3, <2>4, OrderTypes DEF IInv, Remembered, QueueOfSession
<1>2. IInv /\ [Next]_vars =>
        [\A t \in Threads : last'[t] # last[t] =>
           Later(last[t], last'[t]) /\ last'[t].session >= thread[t].since]_vars
  BY <1>1
<1> QED
  BY <1>2, Invariance, PTL DEF Spec, ReadsAreInOrder

\* A read that ends without a frame, in time or not, while there is a capture,
\* leaves only frames that came after it last found the queue empty.
THEOREM NoneLeavesNothingSeenHolds == Spec => NoneLeavesNothingSeen
<1>1. IInv => \A t \in Threads :
        handle /\ At(t) \in {"ask", "sleep"} =>
          \A i \in DOMAIN queue : Later(thread[t].seen, queue[i])
  BY DEF IInv, Remembered
<1>2. IInv /\ [Next]_vars =>
        [\A t \in Threads :
           handle /\ At(t) \in {"ask", "sleep"} /\ At(t)' = "idle" =>
             \A i \in DOMAIN queue : Later(thread[t].seen, queue[i])]_vars
  BY <1>1
<1> QED
  BY <1>2, Invariance, PTL DEF Spec, NoneLeavesNothingSeen
===============================================================================
