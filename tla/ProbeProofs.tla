----------------------------- MODULE ProbeProofs ------------------------------
(***************************************************************************)
(* The safety of the diagnostic phase1_probe.py, in every way it is called *)
(* and cut short, for any number of stages, callbacks and interrupts.      *)
(***************************************************************************)
EXTENDS Probe, QueueLemmas, FiniteSetTheorems, WellFoundedInduction

-------------------------------------------------------------------------------
(***************************************************************************)
(* The inductive invariant.                                                *)
(***************************************************************************)

Frames == [sequence : 1 .. MaxCallbacks, queued : Periods]

\* Each callback that was counted is about to store its frame, or its frame is
\* in the queue, recorded, overwritten or dropped.
SumIsRight ==
  counts["callback"] =
    Len(queue) + Len(overall) + counts["overwrite"] + counts["contention"]
      + inside["numbered"]

\* Only those are counted that were admitted, and a number is theirs.
NoneIsExtra ==
  /\ counts["callback"] + inside["admitted"] + inside["accepted"] <= admissions
  /\ \A n \in numbers : n <= counts["callback"]

Accounted == SumIsRight /\ NoneIsExtra

Types == TypeOK /\ queue \in Seq(Frames) /\ Accounted

\* No frame has a number that was not given.
Numbered ==
  /\ \A i \in DOMAIN queue : queue[i].sequence <= counts["callback"]
  /\ \A i \in DOMAIN overall : overall[i].sequence <= counts["callback"]

\* The gate is shut until the device is about to start, and once a stop has
\* begun.
Before == {"create", "created", "start", "register", "open"}
Shutting == Cleanup \ {"detach"}
GateIsShut ==
  /\ pc \in Before => ~ accepting /\ Quiet /\ overall = <<>>
  /\ pc \in Shutting => ~ accepting

\* The device runs from the first stage to the stop.
DeviceRuns ==
  /\ pc \in {"confirm"} \cup Timed => running
  /\ pc = "finally" /\ ~ raised => running

\* Where the probe has stopped the capture, has drained it, and has read which
\* of its statistics.
ClosingCalls == pc \in Cleanup /\ caller \in {"close", "destroy"}
ReadAll == pc \in {"close", "destroy", "writing"} \/ ClosingCalls
ReadOverwrite == pc = "read_contention" \/ ReadAll
ReadCallback == pc = "read_overwrite" \/ ReadOverwrite
Drained == pc = "read_callback" \/ ReadCallback
Stopped == pc = "drain" \/ Drained

\* What a stop that did not fail leaves stays as it is.
Settled == ~ raised /\ ~ stop_error
Stops ==
  /\ Stopped /\ Settled => Quiet /\ ~ accepting
  /\ Drained /\ Settled => queue = <<>>
  /\ ReadCallback => Len(overall) <= stats["callback"]
  /\ ReadCallback /\ Settled => stats["callback"] = counts["callback"]
  /\ ReadOverwrite /\ Settled => stats["overwrite"] = counts["overwrite"]
  /\ ReadAll /\ Settled => stats["contention"] = counts["contention"]

\* Evidence is written where nothing is left that could change what it says.
Closed == ~ live /\ ~ accepting /\ ~ running /\ ~ registered /\ Quiet
Ends ==
  /\ pc = "writing" => ~ raised
  /\ pc \in {"writing", "written"} => Closed
  /\ pc = "written" => report = "evidence"
  /\ report = "evidence" =>
       Closed /\ pc \in {"written", "succeeded", "failing", "died"}
  /\ EvidenceAddsUp /\ ReportMatchesExit

\* While a guided run announces and observes a stage, the queue holds frames
\* queued since it was announced.
OfStage == {"announce", "observe"} \X {stage}
Observed ==
  /\ mode # "unguided" /\ pc \in {"announce", "observe"} =>
       \A i \in DOMAIN queue : queue[i].queued \in OfStage
  /\ FramesAreOfTheirStage

IInv ==
  Types /\ Numbered /\ GateIsShut /\ DeviceRuns /\ Stops /\ Ends /\ Observed

USE DEF viewVars, sessionVars, callbackVars, recordVars, outcomeVars, callVars,
        probeVars

-------------------------------------------------------------------------------
(***************************************************************************)
(* Callbacks.                                                              *)
(***************************************************************************)

\* What the proofs need of the types.
LEMMA CaptureTypes ==
  ASSUME Types
  PROVE  /\ inside \in [Places -> Nat] /\ counts \in [Fields -> Nat]
         /\ \A p \in Places : inside[p] \in Nat
         /\ \A f \in Fields : counts[f] \in Nat
         /\ admissions \in Nat /\ admissions <= MaxCallbacks
         /\ MaxCallbacks \in Nat /\ Stages \in Nat /\ Stages >= 1
         /\ queue \in Seq(Frames) /\ Len(queue) \in Nat
         /\ Len(queue) <= QueueCapacity
         /\ overall \in Seq([sequence : 1 .. MaxCallbacks, queued : Periods,
                             recorded : Periods])
         /\ Len(overall) \in Nat
         /\ numbers \subseteq 1 .. MaxCallbacks /\ IsFiniteSet(numbers)
         /\ Cardinality(numbers) = inside["numbered"]
         /\ Period \in Periods
<1>1. /\ ViewTypeOK /\ admissions \in 0 .. MaxCallbacks
      /\ numbers \subseteq 1 .. MaxCallbacks
      /\ Cardinality(numbers) = inside["numbered"]
      /\ stage \in 0 .. Stages
      /\ overall \in Seq([sequence : 1 .. MaxCallbacks, queued : Periods,
                          recorded : Periods])
      /\ queue \in Seq(Frames)
  BY DEF Types, TypeOK
<1>2. MaxCallbacks \in Nat /\ Stages \in Nat /\ Stages >= 1
  BY ProbeAssumption
<1>3. IsFiniteSet(numbers)
  <2>1. IsFiniteSet(1 .. MaxCallbacks)
    BY <1>2, FS_Interval
  <2> QED
    BY <1>1, <2>1, FS_Subset
<1>4. Period \in Periods
  BY <1>1 DEF Period, Periods
<1> QED
  BY <1>1, <1>2, <1>3, <1>4 DEF ViewTypeOK

\* Nothing but a callback that is inside, or the open gate, lets one go on.
LEMMA NoCallback ==
  ASSUME Quiet, ~ accepting
  PROVE  ~ Callback
  BY DEF Callback, Quiet, Nobody, Places, Admit, FindAccepting, FindClosed,
       Leave, Number, DropFrame, Enqueue, Move

\* A callback that moves on is one less where it was.
LEMMA Moves ==
  ASSUME inside \in [Places -> Nat], NEW from \in Places, NEW to \in Places,
         from # to, Move(from, to)
  PROVE  /\ inside' \in [Places -> Nat] /\ inside[from] > 0
         /\ inside'[from] = inside[from] - 1
         /\ inside'[to] = inside[to] + 1
         /\ \A p \in Places \ {from, to} : inside'[p] = inside[p]
  BY DEF Move

\* A sum stays right when what is added to it is added to one of its parts, or
\* taken from another.
LEMMA SumsShift ==
  ASSUME NEW a \in Int, NEW b \in Int, NEW c \in Int, NEW d \in Int,
         NEW e \in Int, NEW f \in Int, a = b + c + d + e + f
  PROVE  /\ a + 1 = b + c + d + e + (f + 1)
         /\ a = b + c + d + (e + 1) + (f - 1)
         /\ \A n \in {0, 1} : a = (b + 1 - n) + c + (d + n) + e + (f - 1)
  OBVIOUS

\* A callback keeps the account and the types.
LEMMA CallbackTypes ==
  ASSUME Types, Callback
  PROVE  Types'
<1>1. UNCHANGED <<live, running, registered, accepting>> /\ UNCHANGED probeVars
  BY DEF Callback, Admit, FindAccepting, FindClosed, Leave, Number, DropFrame,
       Enqueue
<1>2. /\ inside \in [Places -> Nat] /\ counts \in [Fields -> Nat]
      /\ admissions \in Nat /\ admissions <= MaxCallbacks
      /\ MaxCallbacks \in Nat
      /\ queue \in Seq(Frames) /\ Len(queue) \in Nat
      /\ Len(queue) <= QueueCapacity /\ Len(overall) \in Nat
      /\ numbers \subseteq 1 .. MaxCallbacks /\ IsFiniteSet(numbers)
      /\ Cardinality(numbers) = inside["numbered"]
      /\ Period \in Periods
  BY CaptureTypes
<1>3. SumIsRight /\ NoneIsExtra
  BY DEF Types, Accounted
<1> DEFINE Kept ==
      /\ inside' \in [Places -> Nat] /\ counts' \in [Fields -> Nat]
      /\ admissions' \in 0 .. MaxCallbacks
      /\ numbers' \subseteq 1 .. MaxCallbacks
      /\ Cardinality(numbers') = inside'["numbered"]
      /\ queue' \in Seq(Frames) /\ Len(queue') <= QueueCapacity
      /\ Accounted'
<1>4. SUFFICES Kept
  BY <1>1 DEF Types, TypeOK, ViewTypeOK
<1> HIDE DEF Kept
<1>5. Len(overall') = Len(overall)
  BY <1>1
\* The numbers that the account is about.
<1>6. /\ counts["callback"] \in Nat /\ counts["overwrite"] \in Nat
      /\ counts["contention"] \in Nat
      /\ inside["admitted"] \in Nat /\ inside["accepted"] \in Nat
      /\ inside["numbered"] \in Nat /\ inside["leaving"] \in Nat
      /\ Len(queue) \in Nat /\ Len(overall) \in Nat /\ admissions \in Nat
  BY <1>2 DEF Fields, Places
<1>7. counts["callback"] + inside["admitted"] + inside["accepted"]
         <= admissions
  BY <1>3 DEF NoneIsExtra
<1>8. /\ counts["callback"] + 1 =
            Len(queue) + Len(overall) + counts["overwrite"]
              + counts["contention"] + (inside["numbered"] + 1)
       /\ counts["callback"] =
            Len(queue) + Len(overall) + counts["overwrite"]
              + (counts["contention"] + 1) + (inside["numbered"] - 1)
       /\ \A n \in {0, 1} :
            counts["callback"] =
              (Len(queue) + 1 - n) + Len(overall) + (counts["overwrite"] + n)
                + counts["contention"] + (inside["numbered"] - 1)
  <2> DEFINE a == counts["callback"]
             b == Len(queue)
             c == Len(overall)
             d == counts["overwrite"]
             e == counts["contention"]
             f == inside["numbered"]
  <2>1. /\ a \in Int /\ b \in Int /\ c \in Int /\ d \in Int
        /\ e \in Int /\ f \in Int
    BY <1>6
  <2>2. a = b + c + d + e + f
    BY <1>3 DEF SumIsRight
  <2> HIDE DEF a, b, c, d, e, f
  <2>3. /\ a + 1 = b + c + d + e + (f + 1)
        /\ a = b + c + d + (e + 1) + (f - 1)
        /\ \A n \in {0, 1} : a = (b + 1 - n) + c + (d + n) + e + (f - 1)
    BY <2>1, <2>2, SumsShift
  <2> QED
    BY <2>3 DEF a, b, c, d, e, f
<1>9. CASE /\ Admit /\ InFlight < MaxInside /\ admissions < MaxCallbacks
           /\ admissions' = admissions + 1 /\ UNCHANGED numbers
  <2>1. /\ inside' \in [Places -> Nat]
        /\ inside'["admitted"] = inside["admitted"] + 1
        /\ inside'["accepted"] = inside["accepted"]
        /\ inside'["numbered"] = inside["numbered"]
        /\ UNCHANGED <<counts, queue>>
    BY <1>2, <1>9, <1>6 DEF Admit, Places
  <2>2. Accounted'
    <3>1. SumIsRight'
      BY <1>3, <1>5, <1>9, <1>6, <2>1 DEF SumIsRight
    <3>2. NoneIsExtra'
      BY <1>3, <1>5, <1>9, <1>6, <2>1 DEF NoneIsExtra
    <3> QED
      BY <3>1, <3>2 DEF Accounted
  <2> QED
    BY <1>2, <1>9, <2>1, <2>2 DEF Kept
<1>10. CASE FindAccepting /\ UNCHANGED callbackVars
  <2>1. /\ inside' \in [Places -> Nat]
        /\ inside'["admitted"] = inside["admitted"] - 1
        /\ inside'["accepted"] = inside["accepted"] + 1
        /\ inside'["numbered"] = inside["numbered"]
        /\ UNCHANGED <<counts, queue>>
    BY <1>2, <1>10, Moves DEF FindAccepting, Places
  <2>2. Accounted'
    <3>1. SumIsRight'
      BY <1>3, <1>5, <1>10, <1>6, <2>1 DEF SumIsRight
    <3>2. NoneIsExtra'
      <4>1. counts["callback"] + inside'["admitted"] + inside'["accepted"]
              <= admissions
        BY <1>6, <1>7, <2>1
      <4> QED
        BY <1>3, <1>10, <2>1, <4>1 DEF NoneIsExtra
    <3> QED
      BY <3>1, <3>2 DEF Accounted
  <2> QED
    BY <1>2, <1>10, <2>1, <2>2 DEF Kept
<1>11. CASE FindClosed /\ UNCHANGED callbackVars
  <2>1. /\ inside' \in [Places -> Nat]
        /\ inside'["admitted"] = inside["admitted"] - 1
        /\ inside'["accepted"] = inside["accepted"]
        /\ inside'["numbered"] = inside["numbered"]
        /\ UNCHANGED <<counts, queue>>
    BY <1>2, <1>11, Moves DEF FindClosed, Places
  <2>2. Accounted'
    <3>1. SumIsRight'
      BY <1>3, <1>5, <1>11, <1>6, <2>1 DEF SumIsRight
    <3>2. NoneIsExtra'
      BY <1>3, <1>5, <1>11, <1>6, <2>1 DEF NoneIsExtra
    <3> QED
      BY <3>1, <3>2 DEF Accounted
  <2> QED
    BY <1>2, <1>11, <2>1, <2>2 DEF Kept
<1>12. CASE Leave /\ UNCHANGED callbackVars
  <2>1. /\ inside' \in [Places -> Nat]
        /\ inside'["admitted"] = inside["admitted"]
        /\ inside'["accepted"] = inside["accepted"]
        /\ inside'["numbered"] = inside["numbered"]
        /\ UNCHANGED <<counts, queue>>
    BY <1>2, <1>12, <1>6 DEF Leave, Places
  <2>2. Accounted'
    <3>1. SumIsRight'
      BY <1>3, <1>5, <1>12, <1>6, <2>1 DEF SumIsRight
    <3>2. NoneIsExtra'
      BY <1>3, <1>5, <1>12, <1>6, <2>1 DEF NoneIsExtra
    <3> QED
      BY <3>1, <3>2 DEF Accounted
  <2> QED
    BY <1>2, <1>12, <2>1, <2>2 DEF Kept
<1>13. CASE /\ Number /\ numbers' = numbers \cup {counts'["callback"]}
            /\ UNCHANGED admissions
  <2>1. /\ inside' \in [Places -> Nat] /\ inside["accepted"] > 0
        /\ inside'["admitted"] = inside["admitted"]
        /\ inside'["accepted"] = inside["accepted"] - 1
        /\ inside'["numbered"] = inside["numbered"] + 1
    BY <1>2, <1>13, Moves DEF Number, Places
  <2>2. /\ counts' \in [Fields -> Nat]
        /\ counts'["callback"] = counts["callback"] + 1
        /\ counts'["overwrite"] = counts["overwrite"]
        /\ counts'["contention"] = counts["contention"]
        /\ UNCHANGED <<queue, admissions>>
    BY <1>2, <1>13, <1>6 DEF Number, Count, Fields
  <2>3. counts'["callback"] \in 1 .. MaxCallbacks
    <3>1. counts["callback"] + 1 <= admissions
      BY <1>6, <1>7, <2>1
    <3> QED
      BY <1>2, <1>6, <2>2, <3>1
  <2>4. counts'["callback"] \notin numbers
    BY <1>3, <1>6, <2>2 DEF NoneIsExtra
  <2>5. Cardinality(numbers') = inside'["numbered"]
    <3>1. Cardinality(numbers \cup {counts'["callback"]}) =
            Cardinality(numbers) + 1
      BY <1>2, <2>4, FS_AddElement
    <3> QED
      BY <1>2, <1>13, <2>1, <3>1
  <2>6. Accounted'
    <3>1. \A n \in numbers' : n <= counts'["callback"]
      <4>1. \A n \in numbers : n \in Nat
        BY <1>2
      <4> QED
        BY <1>3, <1>13, <1>6, <2>2, <4>1 DEF NoneIsExtra
    <3>3. SumIsRight'
      BY <1>5, <1>8, <2>1, <2>2 DEF SumIsRight
    <3>4. counts["callback"] + 1 + inside["admitted"]
            + (inside["accepted"] - 1) <= admissions
      BY <1>6, <1>7
    <3>5. NoneIsExtra'
      BY <2>1, <2>2, <3>1, <3>4 DEF NoneIsExtra
    <3> QED
      BY <3>3, <3>5 DEF Accounted
  <2>7. numbers' \subseteq 1 .. MaxCallbacks
    BY <1>2, <1>13, <2>3
  <2> QED
    BY <1>2, <2>1, <2>2, <2>5, <2>6, <2>7 DEF Kept
<1>14. ASSUME NEW n \in numbers, numbers' = numbers \ {n},
              UNCHANGED admissions,
              \/ QueueMayBeBusy /\ DropFrame
              \/ Enqueue([sequence |-> n, queued |-> Period])
       PROVE  Kept
  <2> DEFINE f == [sequence |-> n, queued |-> Period]
  <2>1. /\ inside' \in [Places -> Nat] /\ inside["numbered"] > 0
        /\ inside'["admitted"] = inside["admitted"]
        /\ inside'["accepted"] = inside["accepted"]
        /\ inside'["numbered"] = inside["numbered"] - 1
    BY <1>2, <1>14, Moves DEF DropFrame, Enqueue, Places
  <2>2. f \in Frames
    BY <1>2, <1>14 DEF Frames
  <2>3. /\ numbers' \subseteq 1 .. MaxCallbacks
        /\ Cardinality(numbers') = inside'["numbered"]
    BY <1>2, <1>14, <2>1, FS_RemoveElement
  <2>4. \A m \in numbers' : m <= counts["callback"]
    BY <1>3, <1>14 DEF NoneIsExtra
  <2> HIDE DEF f
  <2>5. CASE DropFrame
    <3>1. /\ counts' \in [Fields -> Nat] /\ queue' = queue
          /\ counts'["callback"] = counts["callback"]
          /\ counts'["overwrite"] = counts["overwrite"]
          /\ counts'["contention"] = counts["contention"] + 1
      BY <1>2, <1>6, <2>5 DEF DropFrame, Count, Fields
    <3>2. Accounted'
      <4>1. SumIsRight'
        BY <1>5, <1>8, <2>1, <3>1 DEF SumIsRight
      <4>2. NoneIsExtra'
        BY <1>3, <1>5, <1>14, <1>6, <2>1, <2>4, <3>1 DEF NoneIsExtra
      <4> QED
        BY <4>1, <4>2 DEF Accounted
    <3> QED
      BY <1>2, <1>14, <2>1, <2>3, <3>1, <3>2 DEF Kept
  <2>6. CASE Enqueue(f)
    <3>1. queue' = Push(queue, f)
      BY <2>6 DEF Enqueue
    <3>2. /\ Push(queue, f) \in Seq(Frames)
          /\ Lost(queue) \in {0, 1}
          /\ DOMAIN Push(queue, f) = 1 .. Len(queue) + 1 - Lost(queue)
          /\ Lost(queue) <= Len(queue)
      BY <1>2, <2>2, PushElements
    <3>3. Len(Push(queue, f)) <= QueueCapacity
      BY <1>2, <2>2, PushOrigin
    <3>4. Len(queue') = Len(queue) + 1 - Lost(queue)
      BY <1>6, <3>1, <3>2
    <3>5. /\ counts' \in [Fields -> Nat]
          /\ counts'["callback"] = counts["callback"]
          /\ counts'["overwrite"] = counts["overwrite"] + Lost(queue)
          /\ counts'["contention"] = counts["contention"]
      BY <1>2, <1>6, <2>6 DEF Enqueue, Count, Fields, Lost
    <3>6. Accounted'
      <4>1. SumIsRight'
        BY <1>5, <1>8, <2>1, <3>2, <3>4, <3>5 DEF SumIsRight
      <4>2. NoneIsExtra'
        BY <1>3, <1>5, <1>14, <1>6, <2>1, <2>4, <3>2, <3>4, <3>5 DEF NoneIsExtra
      <4> QED
        BY <4>1, <4>2 DEF Accounted
    <3> QED
      BY <1>2, <1>14, <2>1, <2>3, <3>1, <3>2, <3>3, <3>5, <3>6 DEF Kept
  <2> QED
    BY <1>14, <2>5, <2>6 DEF f
<1> QED
  BY <1>9, <1>10, <1>11, <1>12, <1>13, <1>14 DEF Callback

-------------------------------------------------------------------------------
(***************************************************************************)
(* What the probe's own steps do.                                          *)
(***************************************************************************)

\* A step of the probe, in a native call or not, and what cuts it short.
Step == Main \/ Interrupt \/ IOError

\* Of the capture it changes no callback; it empties the queue before the first
\* one, and takes a frame from it to record it.
Empties ==
  /\ pc \in {"create", "start"} /\ Quiet
  /\ queue' = <<>> /\ counts' = NoCounts /\ overall' = overall
Records ==
  /\ pc \in Recording \cup {"drain"}
  /\ Record

\* No step of the probe touches a callback, and those are the ways in which it
\* changes what is stored.
LEMMA StepOnCapture ==
  ASSUME GateIsShut, Step
  PROVE  /\ UNCHANGED <<callbackVars, mode, inside>>
         /\ Empties \/ Records \/ UNCHANGED <<counts, queue, overall>>
<1> USE DEF GateIsShut, Before
<1>1. CASE CreateSensor
  BY <1>1 DEF CreateSensor, Create, Empties, Quiet
<1>2. CASE NativeStart
  BY <1>2 DEF NativeStart, Reset, Register, Open, Empties
<1>3. CASE EnterTry \/ StartRefused \/ Confirm \/ InputEnds
  BY <1>3 DEF EnterTry, StartRefused, Confirm, InputEnds
<1>4. CASE DeviceStarts \/ DeviceStartFails \/ Detach
  BY <1>4 DEF DeviceStarts, DeviceStartFails, Detach, StartDevice, Shut
<1>5. CASE Record
  BY <1>5 DEF Record, Records, Poll
<1>6. CASE \/ EndCountdown \/ Announce \/ EndStage
           \/ EndDrain \/ Finally \/ Close \/ CallDestroy
  BY <1>6 DEF EndCountdown, Announce, EndStage, EndDrain, Finally, Close,
              CallDestroy
<1>7. CASE StopStep
  BY <1>7 DEF StopStep, StopDevice, Unregister
<1>8. CASE StopReturns \/ Destroy
  BY <1>8 DEF StopReturns, Destroy
<1>9. CASE ReadStats
  BY <1>9 DEF ReadStats, ReadCounter
<1>10. CASE WriteEvidence \/ Succeed \/ WriteFailure
  BY <1>10 DEF WriteEvidence, Succeed, WriteFailure, Wrote
<1>11. CASE Interrupt \/ IOError
  BY <1>11 DEF Interrupt, IOError
<1> QED
  BY <1>1, <1>2, <1>3, <1>4, <1>5, <1>6, <1>7, <1>8, <1>9, <1>10, <1>11
  DEF Step, Main, Run, Shutdown

\* So the account stays right.
LEMMA StepAccount ==
  ASSUME Types, GateIsShut, Step
  PROVE  /\ Accounted' /\ queue' \in Seq(Frames)
         /\ Len(queue') <= QueueCapacity
         /\ inside' \in [Places -> Nat] /\ counts' \in [Fields -> Nat]
         /\ admissions' = admissions /\ numbers' = numbers
         /\ inside' = inside
         /\ overall' \in Seq([sequence : 1 .. MaxCallbacks, queued : Periods,
                              recorded : Periods])
<1>1. /\ UNCHANGED <<callbackVars, mode, inside>>
      /\ Empties \/ Records \/ UNCHANGED <<counts, queue, overall>>
  BY StepOnCapture
<1>2. /\ inside \in [Places -> Nat] /\ counts \in [Fields -> Nat]
      /\ \A p \in Places : inside[p] \in Nat
      /\ \A f \in Fields : counts[f] \in Nat
      /\ admissions \in Nat
      /\ queue \in Seq(Frames) /\ Len(queue) \in Nat
      /\ Len(queue) <= QueueCapacity
      /\ overall \in Seq([sequence : 1 .. MaxCallbacks, queued : Periods,
                          recorded : Periods])
      /\ Len(overall) \in Nat
      /\ IsFiniteSet(numbers) /\ Cardinality(numbers) = inside["numbered"]
      /\ Period \in Periods
  BY CaptureTypes
<1>3. SumIsRight /\ NoneIsExtra
  BY DEF Types, Accounted
<1>4. UNCHANGED <<admissions, numbers, inside>>
  BY <1>1
<1>5. CASE Empties
  <2>1. overall = <<>> /\ overall' = <<>> /\ queue' = <<>> /\ counts' = NoCounts
    BY <1>5 DEF Empties, GateIsShut, Before
  <2>2. inside["numbered"] = 0 /\ inside["admitted"] = 0
        /\ inside["accepted"] = 0
    BY <1>5 DEF Empties, Quiet, Nobody, Places
  <2>3. numbers = {}
    BY <1>2, <2>2, FS_EmptySet
  <2>4. SumIsRight'
    BY <1>4, <2>1, <2>2 DEF SumIsRight, NoCounts, Fields
  <2>5. NoneIsExtra'
    BY <1>2, <1>4, <2>1, <2>2, <2>3 DEF NoneIsExtra, NoCounts, Fields
  <2>6. /\ counts' \in [Fields -> Nat] /\ queue' \in Seq(Frames)
        /\ Len(queue') <= QueueCapacity
    BY <2>1, QueueCapacityAssumption DEF NoCounts
  <2> QED
    BY <1>2, <1>4, <2>1, <2>4, <2>5, <2>6 DEF Accounted
<1>6. CASE Records
  <2> DEFINE r == [sequence |-> Head(queue).sequence,
                   queued |-> Head(queue).queued, recorded |-> Period]
  <2>1. /\ queue # <<>> /\ queue' = Tail(queue) /\ counts' = counts
        /\ overall' = Append(overall, r)
    BY <1>6 DEF Records, Record, Poll
  <2>2. Head(queue) \in Frames /\ Tail(queue) \in Seq(Frames)
        /\ Len(Tail(queue)) = Len(queue) - 1
    BY <1>2, <2>1
  <2>3. r \in [sequence : 1 .. MaxCallbacks, queued : Periods,
               recorded : Periods]
    BY <1>2, <2>2 DEF Frames
  <2> HIDE DEF r
  <2>4. /\ overall' \in Seq([sequence : 1 .. MaxCallbacks, queued : Periods,
                             recorded : Periods])
        /\ Len(overall') = Len(overall) + 1
    BY <1>2, <2>1, <2>3
  <2>5. SumIsRight'
    <3>1. Len(queue') + Len(overall') = Len(queue) + Len(overall)
      BY <1>2, <2>1, <2>2, <2>4
    <3> QED
      BY <1>3, <1>4, <2>1, <3>1 DEF SumIsRight
  <2>6. NoneIsExtra'
    BY <1>3, <1>4, <2>1 DEF NoneIsExtra
  <2>7. Len(queue') <= QueueCapacity
    BY <1>2, <2>1, <2>2, QueueCapacityAssumption
  <2> QED
    BY <1>2, <1>4, <2>1, <2>2, <2>4, <2>5, <2>6, <2>7 DEF Accounted
<1>7. CASE UNCHANGED <<counts, queue, overall>>
  BY <1>2, <1>3, <1>4, <1>7 DEF Accounted, SumIsRight, NoneIsExtra
<1> QED
  BY <1>1, <1>5, <1>6, <1>7

\* No counter exceeds the callbacks that were admitted.
LEMMA CountsAreBounded ==
  ASSUME Types
  PROVE  \A f \in Fields : counts[f] \in 0 .. MaxCallbacks
<1>1. /\ \A p \in Places : inside[p] \in Nat
      /\ \A f \in Fields : counts[f] \in Nat
      /\ admissions \in Nat /\ admissions <= MaxCallbacks
      /\ MaxCallbacks \in Nat /\ Len(queue) \in Nat /\ Len(overall) \in Nat
  BY CaptureTypes
<1>2. /\ inside["admitted"] \in Nat /\ inside["accepted"] \in Nat
      /\ inside["numbered"] \in Nat
      /\ counts["callback"] \in Nat /\ counts["overwrite"] \in Nat
      /\ counts["contention"] \in Nat
  BY <1>1 DEF Places, Fields
<1>3. counts["callback"] <= MaxCallbacks
  <2>1. counts["callback"] + inside["admitted"] + inside["accepted"]
          <= admissions
    BY DEF Types, Accounted, NoneIsExtra
  <2> QED
    BY <1>1, <1>2, <2>1
<1>4. /\ counts["overwrite"] <= counts["callback"]
      /\ counts["contention"] <= counts["callback"]
  <2>1. counts["callback"] =
          Len(queue) + Len(overall) + counts["overwrite"]
            + counts["contention"] + inside["numbered"]
    BY DEF Types, Accounted, SumIsRight
  <2> QED
    BY <1>1, <1>2, <2>1
<1> QED
  BY <1>1, <1>2, <1>3, <1>4 DEF Fields

\* What a step leaves of the types of the probe's own variables.
Sites == Native \cup Trying \cup Closing \cup Writing \cup Ended
OwnTypes ==
  /\ live \in BOOLEAN /\ running \in BOOLEAN
  /\ registered \in BOOLEAN /\ accepting \in BOOLEAN
  /\ mode \in Modes /\ pc \in Sites
  /\ caller \in {"start", "probe", "close", "destroy"} /\ failed \in BOOLEAN
  /\ stage \in 0 .. Stages
  /\ stats \in [Fields -> 0 .. MaxCallbacks]
  /\ stop_error \in BOOLEAN /\ raised \in BOOLEAN
  /\ report \in {"none", "torn", "evidence", "failure"}
  /\ interrupts \in 0 .. MaxInterrupts

\* A step of the probe keeps its variables in their types.
LEMMA StepOwnTypes ==
  ASSUME Types, Step
  PROVE  OwnTypes'
<1>1. OwnTypes /\ Modes \subseteq {"unguided", "guided", "confirmed"}
      /\ Stages \in Nat /\ Stages >= 1 /\ MaxInterrupts \in Nat
  BY ModesAssumption, ProbeAssumption
  DEF Types, TypeOK, ViewTypeOK, OwnTypes, Sites
<1> USE DEF OwnTypes, Goto
<1>2. /\ \A p \in {"register", "open", "device_start", "detach", "stop_device",
                   "unregister", "wait", "start", "confirm", "countdown",
                   "announce", "observe", "finally", "drain", "read_callback",
                   "read_overwrite", "read_contention", "close", "destroy",
                   "create",
                   "created", "writing", "written", "failing", "succeeded",
                   "failed", "died"} : p \in Sites
  BY DEF Sites, Native, Starting, Cleanup, Trying, Timed, Recording,
         Closing, Writing, Ended
<1>3. FirstStep \in Sites /\ AfterDevice \in Sites /\ AfterDetach \in Sites
      /\ AfterError \in Sites
  BY <1>1, <1>2 DEF FirstStep, AfterDevice, AfterDetach, AfterError
<1>4. CASE CreateSensor
  <2>1. pc' \in Sites
    BY <1>2, <1>4 DEF CreateSensor
  <2> QED
    BY <1>1, <1>4, <2>1 DEF CreateSensor, Create
<1>5. CASE EnterTry \/ StartRefused \/ Confirm \/ InputEnds
  <2>1. CASE EnterTry
    BY <1>1, <1>2, <2>1 DEF EnterTry
  <2>2. CASE StartRefused
    BY <1>1, <1>2, <2>2 DEF StartRefused
  <2>3. CASE Confirm
    BY <1>1, <1>2, <2>3 DEF Confirm
  <2>4. CASE InputEnds
    BY <1>1, <1>3, <2>4 DEF InputEnds
  <2> QED
    BY <1>5, <2>1, <2>2, <2>3, <2>4
<1>6. CASE NativeStart
  BY <1>1, <1>2, <1>6 DEF NativeStart, Reset, Register, Open
<1>7. CASE DeviceStarts
  BY <1>1, <1>3, <1>7 DEF DeviceStarts, StartDevice
<1>8. CASE DeviceStartFails
  BY <1>1, <1>2, <1>8 DEF DeviceStartFails, Shut
<1>9. CASE Record \/ EndCountdown \/ Announce \/ EndDrain
  BY <1>1, <1>2, <1>9 DEF Record, Poll, EndCountdown, Announce, EndDrain
<1>10. CASE EndStage
  <2>1. stage' \in 0 .. Stages /\ pc' \in Sites
    BY <1>1, <1>2, <1>3, <1>10 DEF EndStage, StageCount
  <2> QED
    BY <1>1, <1>10, <2>1 DEF EndStage
<1>11. CASE Detach
  BY <1>1, <1>3, <1>11 DEF Detach, Shut
<1>12. CASE StopStep
  <2>1. /\ pc' \in Sites /\ failed' \in BOOLEAN
        /\ live' = live /\ accepting' = accepting
        /\ running' \in BOOLEAN /\ registered' \in BOOLEAN
    <3>1. CASE pc = "stop_device"
      BY <1>1, <1>3, <1>12, <3>1 DEF StopStep, StopDevice
    <3>2. CASE pc = "unregister"
      BY <1>1, <1>2, <1>12, <3>2 DEF StopStep, Unregister
    <3> QED
      BY <1>12, <3>1, <3>2 DEF StopStep
  <2> QED
    BY <1>1, <1>12, <2>1 DEF StopStep
<1>13. CASE StopReturns
  <2>1. StopFails \in BOOLEAN
    BY DEF StopFails
  <2>2. /\ pc' \in Sites
        /\ caller' \in {"start", "probe", "close", "destroy"}
        /\ failed' \in BOOLEAN /\ stop_error' \in BOOLEAN
        /\ raised' \in BOOLEAN
    BY <1>1, <1>2, <1>13, <2>1 DEF StopReturns, CallStop
  <2> QED
    BY <1>1, <1>13, <2>2 DEF StopReturns
<1>14. CASE Destroy
  BY <1>1, <1>2, <1>14 DEF Destroy
<1>15. CASE Finally \/ Close \/ CallDestroy
  <2>1. CASE Finally
    BY <1>1, <1>2, <2>1 DEF Finally, CallStop
  <2>2. CASE Close
    BY <1>1, <1>2, <2>2 DEF Close, CallStop
  <2>3. CASE CallDestroy
    BY <1>1, <1>2, <2>3 DEF CallDestroy, CallStop
  <2> QED
    BY <1>15, <2>1, <2>2, <2>3
<1>16. CASE ReadStats
  <2>1. /\ counts["callback"] \in 0 .. MaxCallbacks
        /\ counts["overwrite"] \in 0 .. MaxCallbacks
        /\ counts["contention"] \in 0 .. MaxCallbacks
    BY CountsAreBounded DEF Fields
  <2>2. stats' \in [Fields -> 0 .. MaxCallbacks] /\ pc' \in Sites
    BY <1>1, <1>2, <1>16, <2>1 DEF ReadStats, ReadCounter
  <2> QED
    BY <1>1, <1>16, <2>2 DEF ReadStats, ReadCounter
<1>17. CASE WriteEvidence \/ Succeed \/ WriteFailure
  BY <1>1, <1>2, <1>17
  DEF WriteEvidence, Succeed, WriteFailure, Wrote, FailureReport
<1>18. CASE Interrupt \/ IOError
  <2>1. /\ UNCHANGED <<viewVars, callbackVars, mode, callVars, recordVars,
                       stop_error>>
        /\ raised' = TRUE /\ pc' = AfterError
    BY <1>18 DEF Interrupt, IOError
  <2>2. report' \in {report, "torn"}
    BY <1>18 DEF Interrupt, IOError, MayTear
  <2>3. interrupts' \in 0 .. MaxInterrupts
    BY <1>1, <1>18 DEF Interrupt, IOError
  <2> QED
    BY <1>1, <1>3, <2>1, <2>2, <2>3
<1> QED
  BY <1>4, <1>5, <1>6, <1>7, <1>8, <1>9, <1>10, <1>11, <1>12, <1>13, <1>14,
     <1>15, <1>16, <1>17, <1>18 DEF Step, Main, Run, Shutdown

\* A step of the probe keeps the types.
LEMMA StepTypes ==
  ASSUME Types, GateIsShut, Step
  PROVE  Types'
<1>1. OwnTypes'
  BY StepOwnTypes
<1>2. /\ Accounted' /\ queue' \in Seq(Frames)
      /\ Len(queue') <= QueueCapacity
      /\ inside' \in [Places -> Nat] /\ counts' \in [Fields -> Nat]
      /\ admissions' = admissions /\ numbers' = numbers
      /\ inside' = inside
      /\ overall' \in Seq([sequence : 1 .. MaxCallbacks, queued : Periods,
                           recorded : Periods])
  BY StepAccount
<1>3. ViewTypeOK'
  BY <1>1, <1>2 DEF OwnTypes, ViewTypeOK
<1>4. /\ admissions' \in 0 .. MaxCallbacks
      /\ numbers' \subseteq 1 .. MaxCallbacks
      /\ Cardinality(numbers') = inside'["numbered"]
  BY <1>2 DEF Types, TypeOK
<1>5. TypeOK'
  BY <1>1, <1>2, <1>3, <1>4 DEF OwnTypes, TypeOK, Sites
<1> QED
  BY <1>2, <1>5 DEF Types

-------------------------------------------------------------------------------
(***************************************************************************)
(* The gaps between the numbers of the frames that were recorded.  No      *)
(* induction theorem of the library can be used, which take the formula to *)
(* prove as an operator; what they rest on can, and says the same of sets: *)
(* some that are bad include a minimal one.                                *)
(***************************************************************************)

\* A set of natural numbers that is not empty has a smallest.
LEMMA Smallest ==
  ASSUME NEW T \in SUBSET Nat, T # {}
  PROVE  \E m \in T : \A k \in T : m <= k
<1>1. PICK m \in T : \A k \in T : <<k, m>> \notin OpToRel(<, Nat)
  BY NatLessThanWellFounded, WFMin
<1>2. \A k \in T : ~ (k < m)
  BY <1>1 DEF OpToRel
<1> QED
  BY <1>2

\* Of some subsets of a finite set, one has no element that can be taken away
\* and leave another of them.
LEMMA MinimalSubset ==
  ASSUME NEW S, IsFiniteSet(S), NEW Bad \in SUBSET (SUBSET S), Bad # {}
  PROVE  \E s \in Bad : \A x \in s : s \ {x} \notin Bad
<1>1. IsWellFoundedOn(StrictSubsetOrdering(S), SUBSET S)
  BY FS_StrictSubsetOrderingWellFounded, FS_FiniteSubsetsOfFinite
<1>2. PICK s \in Bad : \A t \in Bad : <<t, s>> \notin StrictSubsetOrdering(S)
  BY <1>1, WFMin
<1> QED
  BY <1>2 DEF StrictSubsetOrdering

\* What MapThenSumSet chooses a function for: the sum over each subset of S.
Picked(s) == CHOOSE x \in s : TRUE
SumsOver(S, size, sum) ==
  sum = [s \in SUBSET S |->
           IF s = {} THEN 0
           ELSE size[Picked(s)] + sum[s \ {Picked(s)}]]
Total(S, size) == (CHOOSE sum : SumsOver(S, size, sum))[S]

\* The sizes of disjoint sets add up to the size of what they cover.
LEMMA SumOfSizes ==
  ASSUME NEW S, IsFiniteSet(S), NEW part,
         \A i \in S : IsFiniteSet(part[i]),
         \A i, j \in S : i # j => part[i] \cap part[j] = {}
  PROVE  LET Covered == UNION {part[i] : i \in S}
         IN  /\ IsFiniteSet(Covered)
             /\ Total(S, [i \in S |-> Cardinality(part[i])]) =
                  Cardinality(Covered)
<1> DEFINE Cover(s) == UNION {part[i] : i \in s}
           size == [i \in S |-> Cardinality(part[i])]
           good == [s \in SUBSET S |-> Cardinality(Cover(s))]
\* Taking one set away takes its elements away.
<1>1. ASSUME NEW s \in SUBSET S, s # {}
      PROVE  /\ Picked(s) \in s
             /\ Cover(s) = part[Picked(s)] \cup Cover(s \ {Picked(s)})
             /\ part[Picked(s)] \cap Cover(s \ {Picked(s)}) = {}
  <2>1. Picked(s) \in s
    BY <1>1 DEF Picked
  <2> HIDE DEF Picked
  <2>2. Cover(s) = part[Picked(s)] \cup Cover(s \ {Picked(s)})
    BY <2>1
  <2>3. part[Picked(s)] \cap Cover(s \ {Picked(s)}) = {}
    BY <2>1
  <2> QED
    BY <2>1, <2>2, <2>3
<1> HIDE DEF Cover
\* A smallest subset on which something is wrong is not empty, and what is wrong
\* is wrong without one of its elements.
<1>2. \A s \in SUBSET S : IsFiniteSet(Cover(s))
  <2> DEFINE Bad == {s \in SUBSET S : ~ IsFiniteSet(Cover(s))}
  <2> SUFFICES ASSUME Bad # {} PROVE FALSE
    OBVIOUS
  <2>1. PICK s \in Bad : \A x \in s : s \ {x} \notin Bad
    BY MinimalSubset
  <2>2. s # {}
    BY <2>1, FS_EmptySet DEF Cover
  <2>3. /\ Picked(s) \in s
        /\ Cover(s) = part[Picked(s)] \cup Cover(s \ {Picked(s)})
    BY <1>1, <2>2
  <2>4. IsFiniteSet(Cover(s \ {Picked(s)})) /\ IsFiniteSet(part[Picked(s)])
    BY <2>1, <2>3
  <2>5. IsFiniteSet(part[Picked(s)] \cup Cover(s \ {Picked(s)}))
    BY <2>4, FS_Union
  <2> QED
    BY <2>1, <2>3, <2>5
<1>3. SumsOver(S, size, good)
  <2>1. good[{}] = 0
    BY FS_EmptySet DEF Cover
  <2>2. ASSUME NEW s \in SUBSET S, s # {}
        PROVE  good[s] = size[Picked(s)] + good[s \ {Picked(s)}]
    <3>1. /\ Picked(s) \in S /\ s \ {Picked(s)} \in SUBSET S
      BY <1>1, <2>2
    <3>2. /\ IsFiniteSet(part[Picked(s)])
          /\ IsFiniteSet(Cover(s \ {Picked(s)}))
      BY <1>2, <3>1
    <3>3. /\ Cardinality(part[Picked(s)]) \in Nat
          /\ Cardinality(Cover(s \ {Picked(s)})) \in Nat
      BY <3>2, FS_CardinalityType
    <3>4. Cardinality(part[Picked(s)] \cup Cover(s \ {Picked(s)})) =
            Cardinality(part[Picked(s)]) + Cardinality(Cover(s \ {Picked(s)}))
              - Cardinality(part[Picked(s)] \cap Cover(s \ {Picked(s)}))
      BY <3>2, FS_Union
    <3>5. Cardinality(part[Picked(s)] \cap Cover(s \ {Picked(s)})) = 0
      BY <1>1, <2>2, FS_EmptySet
    <3>6. Cover(s) = part[Picked(s)] \cup Cover(s \ {Picked(s)})
      BY <1>1, <2>2
    <3>7. Cardinality(Cover(s)) =
            Cardinality(part[Picked(s)]) + Cardinality(Cover(s \ {Picked(s)}))
      BY <3>3, <3>4, <3>5, <3>6
    <3> QED
      BY <3>1, <3>7
  <2> HIDE DEF size
  <2> QED
    BY <2>1, <2>2 DEF SumsOver
<1>4. ASSUME NEW sum, SumsOver(S, size, sum)
      PROVE  \A s \in SUBSET S : sum[s] = good[s]
  <2> DEFINE Bad == {s \in SUBSET S : sum[s] # good[s]}
  <2> HIDE DEF good, size
  <2> SUFFICES ASSUME Bad # {} PROVE FALSE
    OBVIOUS
  <2>1. PICK s \in Bad : \A x \in s : s \ {x} \notin Bad
    BY MinimalSubset
  <2>2. s # {}
    <3>1. sum[{}] = 0 /\ good[{}] = 0
      BY <1>3, <1>4 DEF SumsOver
    <3> QED
      BY <2>1, <3>1
  <2>3. Picked(s) \in s
    BY <1>1, <2>2
  <2>4. sum[s \ {Picked(s)}] = good[s \ {Picked(s)}]
    BY <2>1, <2>3
  <2>5. /\ sum[s] = size[Picked(s)] + sum[s \ {Picked(s)}]
        /\ good[s] = size[Picked(s)] + good[s \ {Picked(s)}]
    BY <1>3, <1>4, <2>2 DEF SumsOver
  <2> QED
    BY <2>1, <2>4, <2>5
<1>5. SumsOver(S, size, CHOOSE sum : SumsOver(S, size, sum))
  <2> HIDE DEF good, size
  <2> QED
    BY <1>3
<1>6. Total(S, size) = good[S]
  <2> HIDE DEF good, size
  <2> QED
    BY <1>4, <1>5 DEF Total
<1> QED
  BY <1>2, <1>6 DEF Cover

\* How many numbers there are up to a number.
LEMMA FirstNumbers ==
  ASSUME NEW m \in Nat
  PROVE  IsFiniteSet(1 .. m) /\ Cardinality(1 .. m) = m
  BY FS_Interval

\* How many there are between two.
LEMMA BetweenNumbers ==
  ASSUME NEW a \in Nat, NEW b \in Nat, a < b
  PROVE  /\ IsFiniteSet(a + 1 .. b - 1)
         /\ Cardinality(a + 1 .. b - 1) = b - a - 1
<1>1. a + 1 \in Int /\ b - 1 \in Int
  OBVIOUS
<1>2. /\ IsFiniteSet(a + 1 .. b - 1)
      /\ Cardinality(a + 1 .. b - 1) =
           IF a + 1 > b - 1 THEN 0 ELSE (b - 1) - (a + 1) + 1
  BY <1>1, FS_Interval
<1> QED
  BY <1>2

\* MapThenSumSet is such a sum.
LEMMA SkippedIsTotal ==
  Skipped =
    Total(1 .. Len(overall) - 1,
          [i \in 1 .. Len(overall) - 1 |->
             overall[i + 1].sequence - overall[i].sequence - 1])
  BY DEF Skipped, MapThenSumSet, MapThenFoldSet, Total, SumsOver, Picked

\* Frames of which each has a higher number than the one before it are in order.
LEMMA OrderOfAll ==
  ASSUME Len(overall) \in Nat, InOrder,
         \A i \in 1 .. Len(overall) : overall[i].sequence \in Nat
  PROVE  \A i, j \in 1 .. Len(overall) :
           i < j => overall[i].sequence < overall[j].sequence
<1> DEFINE n(i) == overall[i].sequence
           Bad == {j \in 1 .. Len(overall) :
                     \E i \in 1 .. Len(overall) : i < j /\ ~ (n(i) < n(j))}
<1> SUFFICES ASSUME Bad # {} PROVE FALSE
  OBVIOUS
<1>1. PICK j \in Bad : \A k \in Bad : j <= k
  <2>1. Bad \in SUBSET Nat
    OBVIOUS
  <2> QED
    BY <2>1, Smallest
<1>2. PICK i \in 1 .. Len(overall) : i < j /\ ~ (n(i) < n(j))
  BY <1>1
<1>3. j - 1 \in 1 .. Len(overall) /\ j - 1 \notin Bad /\ j \in 1 .. Len(overall)
  BY <1>1, <1>2
<1>4. n(j - 1) < n(j)
  BY <1>1, <1>2, <1>3 DEF InOrder
<1>5. i = j - 1 \/ n(i) < n(j - 1)
  <2> SUFFICES ASSUME i # j - 1 PROVE n(i) < n(j - 1)
    OBVIOUS
  <2>1. i < j - 1
    BY <1>2, <1>3
  <2> QED
    BY <1>2, <1>3, <2>1
<1>6. n(i) \in Nat /\ n(j) \in Nat /\ n(j - 1) \in Nat
  BY <1>2, <1>3
<1> QED
  BY <1>2, <1>4, <1>5, <1>6

\* The gaps between the numbers of frames in order, and those numbers, are
\* different numbers.
LEMMA GapsAreOfOthers ==
  ASSUME Len(overall) \in Nat, InOrder, NEW m \in Nat,
         \A i \in 1 .. Len(overall) : overall[i].sequence \in 1 .. m
  PROVE  Skipped \in Nat /\ Skipped + Len(overall) <= m
<1> DEFINE N == Len(overall)
           n(i) == overall[i].sequence
           I == 1 .. N - 1
           gap == [i \in I |-> n(i) + 1 .. n(i + 1) - 1]
           Gaps == UNION {gap[i] : i \in I}
           Taken == {n(i) : i \in 1 .. N}
<1>1. \A i, j \in 1 .. N : i < j => n(i) < n(j)
  BY OrderOfAll
<1>2. \A i \in I : /\ i \in 1 .. N /\ i + 1 \in 1 .. N /\ i \in Nat
                   /\ n(i) \in Nat /\ n(i + 1) \in Nat /\ n(i) < n(i + 1)
  BY <1>1
<1>3. \A i \in I :
        /\ IsFiniteSet(gap[i])
        /\ Cardinality(gap[i]) = n(i + 1) - n(i) - 1
  <2> SUFFICES ASSUME NEW i \in I
               PROVE  /\ IsFiniteSet(gap[i])
                      /\ Cardinality(gap[i]) = n(i + 1) - n(i) - 1
    OBVIOUS
  <2>1. n(i) + 1 \in Int /\ n(i + 1) - 1 \in Int /\ n(i) < n(i + 1)
        /\ n(i) \in Nat /\ n(i + 1) \in Nat
    BY <1>2
  <2>2. gap[i] = n(i) + 1 .. n(i + 1) - 1
    OBVIOUS
  <2> HIDE DEF n, gap
  <2> QED
    BY <2>1, <2>2, BetweenNumbers
<1>4. \A i, j \in I : i # j => gap[i] \cap gap[j] = {}
  <2>1. ASSUME NEW i \in I, NEW j \in I, i < j
        PROVE  gap[i] \cap gap[j] = {}
    <3>1. n(i + 1) <= n(j)
      BY <1>1, <1>2, <2>1
    <3> HIDE DEF n
    <3> QED
      BY <1>2, <3>1
  <2> HIDE DEF gap
  <2> QED
    BY <2>1
<1>5. IsFiniteSet(I)
  BY FS_Interval
<1>6. IsFiniteSet(Gaps) /\ Skipped = Cardinality(Gaps)
  <2>1. /\ IsFiniteSet(Gaps)
        /\ Total(I, [i \in I |-> Cardinality(gap[i])]) = Cardinality(Gaps)
    <3> HIDE DEF gap, I
    <3> QED
      BY <1>3, <1>4, <1>5, SumOfSizes
  <2>2. [i \in I |-> Cardinality(gap[i])] = [i \in I |-> n(i + 1) - n(i) - 1]
    <3> HIDE DEF gap
    <3> QED
      BY <1>3
  <2> QED
    BY <2>1, <2>2, SkippedIsTotal
<1>7. IsFiniteSet(Taken) /\ Cardinality(Taken) = N
  <2> DEFINE f == [i \in 1 .. N |-> n(i)]
  <2>1. f \in Surjection(1 .. N, Taken)
    BY DEF Surjection
  <2>2. f \in Injection(1 .. N, Taken)
    BY <1>1, <2>1 DEF Injection, IsInjective
  <2>3. IsFiniteSet(1 .. N) /\ Cardinality(1 .. N) = N
    BY FirstNumbers
  <2> QED
    BY <2>1, <2>2, <2>3, FS_Surjection
<1>8. Gaps \cap Taken = {}
  <2> SUFFICES ASSUME NEW i \in I, NEW j \in 1 .. N, n(j) \in gap[i]
               PROVE  FALSE
    OBVIOUS
  <2>1. n(i) < n(j) /\ n(j) < n(i + 1)
    BY <1>2
  <2>2. ~ (j <= i) /\ ~ (i + 1 <= j)
    BY <1>1, <1>2, <2>1
  <2> QED
    BY <1>2, <2>2
<1>9. Gaps \cup Taken \subseteq 1 .. m
  <2>1. ASSUME NEW i \in I, NEW k \in gap[i]
        PROVE  k \in 1 .. m
    <3>1. n(i) \in 1 .. m /\ n(i + 1) \in 1 .. m
      BY <1>2
    <3> HIDE DEF n
    <3> QED
      BY <2>1, <3>1
  <2> HIDE DEF gap, I
  <2> QED
    BY <2>1
<1>10. IsFiniteSet(1 .. m) /\ Cardinality(1 .. m) = m
  BY FirstNumbers
<1>11. Cardinality(Gaps \cup Taken) = Cardinality(Gaps) + N
  <2>1. Cardinality(Gaps) \in Nat /\ Cardinality(Gaps \cap Taken) = 0
    BY <1>6, <1>8, FS_EmptySet, FS_CardinalityType
  <2>2. IsFiniteSet(Gaps) /\ IsFiniteSet(Taken) /\ Cardinality(Taken) = N
    BY <1>6, <1>7
  <2>3. N \in Nat
    OBVIOUS
  <2> HIDE DEF Gaps, Taken, N
  <2>4. Cardinality(Gaps \cup Taken) =
          Cardinality(Gaps) + Cardinality(Taken) - Cardinality(Gaps \cap Taken)
    BY <2>2, FS_Union
  <2> QED
    BY <2>1, <2>2, <2>3, <2>4
<1>12. Cardinality(Gaps \cup Taken) <= m
  <2> HIDE DEF Gaps, Taken
  <2> QED
    BY <1>9, <1>10, FS_Subset
<1>13. Cardinality(Gaps) \in Nat
  BY <1>6, FS_CardinalityType
<1> QED
  BY <1>6, <1>11, <1>12, <1>13

\* The sum changes only with the frames.
LEMMA SkippedStays == UNCHANGED overall => Skipped' = Skipped
  BY DEF Skipped, MapThenSumSet, MapThenFoldSet

-------------------------------------------------------------------------------
(***************************************************************************)
(* The invariant holds to begin with, and a callback keeps it.             *)
(***************************************************************************)

\* Nothing has been called yet.
LEMMA Initially == Init => IInv
<1> SUFFICES ASSUME Init PROVE IInv
  OBVIOUS
<1> USE DEF Init, ViewInit
<1>1. /\ inside \in [Places -> Nat] /\ counts \in [Fields -> Nat]
      /\ stats \in [Fields -> 0 .. MaxCallbacks]
      /\ inside["numbered"] = 0 /\ inside["admitted"] = 0
      /\ inside["accepted"] = 0 /\ counts["callback"] = 0
      /\ counts["overwrite"] = 0 /\ counts["contention"] = 0
  BY ProbeAssumption DEF Nobody, NoCounts, Places, Fields
<1>2. numbers = {} /\ Cardinality(numbers) = 0
  BY FS_EmptySet
<1>3. TypeOK
  <2>1. Len(queue) <= QueueCapacity
    BY QueueCapacityAssumption
  <2>2. ViewTypeOK
    BY <1>1, <2>1 DEF ViewTypeOK
  <2>3. /\ admissions \in 0 .. MaxCallbacks /\ stage \in 0 .. Stages
        /\ interrupts \in 0 .. MaxInterrupts
    BY ProbeAssumption
  <2>4. /\ numbers \subseteq 1 .. MaxCallbacks
        /\ overall \in Seq([sequence : 1 .. MaxCallbacks, queued : Periods,
                            recorded : Periods])
    OBVIOUS
  <2> QED
    BY <1>1, <1>2, <2>2, <2>3, <2>4 DEF TypeOK, Writing
<1>4. Accounted
  BY <1>1, <1>2 DEF Accounted, SumIsRight, NoneIsExtra
<1>5. Types
  BY <1>3, <1>4 DEF Types
<1>6. GateIsShut /\ DeviceRuns
  BY DEF GateIsShut, DeviceRuns, Before, Shutting, Cleanup, Timed, Recording,
         Quiet
<1>7. Stops
  BY DEF Stops, Stopped, Drained, ReadCallback, ReadOverwrite, ReadAll,
         ClosingCalls, Cleanup
<1>8. Ends
  BY DEF Ends, EvidenceAddsUp, ReportMatchesExit
<1>9. Observed /\ Numbered
  BY DEF Observed, FramesAreOfTheirStage, Numbered
<1> QED
  BY <1>5, <1>6, <1>7, <1>8, <1>9 DEF IInv

\* A callback changes nothing of the probe, nor of what is up.
LEMMA CallbackFrame == Callback => UNCHANGED <<sessionVars, probeVars>>
  BY DEF Callback, Admit, FindAccepting, FindClosed, Leave, Number, DropFrame,
         Enqueue

\* It adds to the queue only a frame of the current period.
LEMMA CallbackQueues ==
  ASSUME Types, Callback
  PROVE  \A i \in DOMAIN queue' :
           \/ queue'[i].queued = Period
           \/ \E j \in DOMAIN queue : queue'[i] = queue[j]
<1>1. /\ queue \in Seq(Frames) /\ numbers \subseteq 1 .. MaxCallbacks
      /\ Period \in Periods
  BY CaptureTypes
<1>2. CASE queue' = queue
  BY <1>2
<1>3. ASSUME NEW n \in numbers, Enqueue([sequence |-> n, queued |-> Period])
      PROVE  \A i \in DOMAIN queue' :
               \/ queue'[i].queued = Period
               \/ \E j \in DOMAIN queue : queue'[i] = queue[j]
  <2> DEFINE f == [sequence |-> n, queued |-> Period]
  <2>1. f \in Frames /\ f.queued = Period
    BY <1>1 DEF Frames
  <2>2. queue' = Push(queue, f)
    BY <1>3 DEF Enqueue
  <2> HIDE DEF f
  <2>3. \A i \in DOMAIN Push(queue, f) :
          \/ Push(queue, f)[i] = f
          \/ \E j \in DOMAIN queue : Push(queue, f)[i] = queue[j]
    BY <1>1, <2>1, PushOrigin
  <2> QED
    BY <2>1, <2>2, <2>3
<1>4. \/ queue' = queue
      \/ \E n \in numbers : Enqueue([sequence |-> n, queued |-> Period])
  BY DEF Callback, Admit, FindAccepting, FindClosed, Leave, Number, DropFrame
<1> QED
  BY <1>2, <1>3, <1>4

\* Frames have numbers.
LEMMA FrameNumbers ==
  ASSUME Types
  PROVE  /\ \A i \in DOMAIN queue : queue[i].sequence \in 1 .. MaxCallbacks
         /\ \A i \in DOMAIN overall : overall[i].sequence \in 1 .. MaxCallbacks
<1> DEFINE R == [sequence : 1 .. MaxCallbacks, queued : Periods,
                 recorded : Periods]
<1>1. queue \in Seq(Frames) /\ overall \in Seq(R)
  BY CaptureTypes
<1>2. /\ \A f \in Frames : f.sequence \in 1 .. MaxCallbacks
      /\ \A r \in R : r.sequence \in 1 .. MaxCallbacks
  BY DEF Frames
<1> HIDE DEF R
<1>3. /\ \A i \in DOMAIN queue : queue[i] \in Frames
      /\ \A i \in DOMAIN overall : overall[i] \in R
  BY <1>1
<1> QED
  BY <1>2, <1>3

\* The numbers of its frames have been given, and stay given.
LEMMA CallbackNumbers ==
  ASSUME Types, Numbered, Callback
  PROVE  Numbered'
<1>1. /\ queue \in Seq(Frames) /\ numbers \subseteq 1 .. MaxCallbacks
      /\ Period \in Periods /\ counts \in [Fields -> Nat]
      /\ counts["callback"] \in Nat
      /\ overall \in Seq([sequence : 1 .. MaxCallbacks, queued : Periods,
                          recorded : Periods])
      /\ overall' = overall
  BY CaptureTypes, CallbackFrame DEF Fields
<1>2. /\ \A i \in DOMAIN queue : queue[i].sequence \in Nat
      /\ \A i \in DOMAIN overall : overall[i].sequence \in Nat
  BY FrameNumbers
<1>3. counts'["callback"] \in {counts["callback"], counts["callback"] + 1}
  BY <1>1 DEF Callback, Admit, FindAccepting, FindClosed, Leave, Number,
              DropFrame, Enqueue, Count, Fields
<1>4. CASE queue' = queue
  BY <1>1, <1>2, <1>3, <1>4 DEF Numbered
<1>5. ASSUME NEW n \in numbers, Enqueue([sequence |-> n, queued |-> Period])
      PROVE  Numbered'
  <2> DEFINE f == [sequence |-> n, queued |-> Period]
  <2>1. f \in Frames /\ f.sequence = n /\ queue' = Push(queue, f)
    BY <1>1, <1>5 DEF Frames, Enqueue
  <2>2. n <= counts["callback"]
    BY DEF Types, Accounted, NoneIsExtra
  <2> HIDE DEF f
  <2>3. \A i \in DOMAIN Push(queue, f) :
          \/ Push(queue, f)[i] = f
          \/ \E j \in DOMAIN queue : Push(queue, f)[i] = queue[j]
    BY <1>1, <2>1, PushOrigin
  <2>4. \A i \in DOMAIN queue' : queue'[i].sequence \in Nat
                               /\ queue'[i].sequence <= counts["callback"]
    BY <1>1, <1>2, <2>1, <2>2, <2>3 DEF Numbered
  <2> QED
    BY <1>1, <1>2, <1>3, <2>4 DEF Numbered
<1>6. \/ queue' = queue
      \/ \E n \in numbers : Enqueue([sequence |-> n, queued |-> Period])
  BY DEF Callback, Admit, FindAccepting, FindClosed, Leave, Number, DropFrame
<1> QED
  BY <1>4, <1>5, <1>6

\* A callback keeps the rest of the invariant: where it says that nothing
\* moves, the gate is shut and nobody is inside.
LEMMA CallbackKeeps ==
  ASSUME IInv, Callback
  PROVE  IInv'
<1>1. UNCHANGED <<sessionVars, probeVars>> /\ ~ (Quiet /\ ~ accepting)
  BY CallbackFrame, NoCallback
<1>2. Types' /\ Numbered'
  BY CallbackTypes, CallbackNumbers DEF IInv
<1>3. GateIsShut' /\ DeviceRuns'
  BY <1>1 DEF IInv, GateIsShut, DeviceRuns
<1>4. Stops'
  <2>1. ~ (Stopped /\ Settled)
    BY <1>1 DEF IInv, Stops
  <2>2. ~ (Stopped' /\ Settled')
    BY <1>1, <2>1 DEF Stopped, Settled, Drained, ReadCallback, ReadOverwrite,
                      ReadAll, ClosingCalls
  <2>3. ReadCallback' => Len(overall') <= stats'["callback"]
    BY <1>1 DEF IInv, Stops, ReadCallback, ReadOverwrite, ReadAll, ClosingCalls
  <2> QED
    BY <2>2, <2>3 DEF Stops, Stopped, Drained, ReadCallback, ReadOverwrite
<1>5. Ends'
  <2>1. ~ Closed
    BY <1>1 DEF Closed
  <2>2. report # "evidence" /\ pc \notin {"writing", "written"}
    BY <2>1 DEF IInv, Ends
  <2>3. ReportMatchesExit'
    BY <1>1 DEF IInv, Ends, ReportMatchesExit
  <2>4. report' # "evidence" /\ pc' \notin {"writing", "written"}
    BY <1>1, <2>2
  <2> QED
    BY <2>3, <2>4 DEF Ends, EvidenceAddsUp
<1>6. Observed'
  <2>1. FramesAreOfTheirStage'
    BY <1>1 DEF IInv, Observed, FramesAreOfTheirStage
  <2>2. ASSUME mode # "unguided", pc \in {"announce", "observe"}
        PROVE  \A i \in DOMAIN queue' : queue'[i].queued \in OfStage
    <3>1. Period \in OfStage
      BY <2>2 DEF Period, OfStage, Timed, Recording
    <3>2. \A i \in DOMAIN queue : queue[i].queued \in OfStage
      BY <2>2 DEF IInv, Observed
    <3> QED
      BY <3>1, <3>2, CallbackQueues DEF IInv
  <2> QED
    BY <1>1, <2>1, <2>2 DEF Observed, OfStage
<1> QED
  BY <1>2, <1>3, <1>4, <1>5, <1>6 DEF IInv

-------------------------------------------------------------------------------
(***************************************************************************)
(* A step of the probe keeps the invariant.                                *)
(***************************************************************************)

\* The gate is opened only by the start, and shut first thing by a stop.
LEMMA StepKeepsGate ==
  ASSUME IInv, Step
  PROVE  GateIsShut'
<1>1. GateIsShut /\ mode \in {"unguided", "guided", "confirmed"}
  BY ModesAssumption DEF IInv, Types, TypeOK
<1> USE DEF GateIsShut, Before, Shutting, Cleanup, Goto
<1>2. CASE CreateSensor
  BY <1>1, <1>2 DEF CreateSensor, Create, Quiet
<1>3. CASE EnterTry \/ StartRefused \/ Confirm \/ InputEnds
  <2>1. CASE EnterTry
    BY <1>1, <2>1 DEF EnterTry, Quiet
  <2>2. CASE StartRefused \/ Confirm \/ InputEnds
    BY <2>2 DEF StartRefused, Confirm, InputEnds, AfterError
  <2> QED
    BY <1>3, <2>1, <2>2
<1>4. CASE NativeStart
  BY <1>1, <1>4 DEF NativeStart, Reset, Register, Open, Quiet
<1>5. CASE DeviceStarts \/ EndStage
  BY <1>1, <1>5 DEF DeviceStarts, EndStage, FirstStep
<1>6. CASE DeviceStartFails
  BY <1>1, <1>6 DEF DeviceStartFails, Shut
<1>7. CASE Record \/ EndCountdown \/ Announce \/ EndDrain
  BY <1>1, <1>7 DEF Record, Recording, EndCountdown, Announce, EndDrain
<1>8. CASE Detach
  BY <1>1, <1>8 DEF Detach, Shut, AfterDetach, AfterDevice
<1>9. CASE StopStep
  BY <1>1, <1>9 DEF StopStep, StopDevice, Unregister, AfterDevice
<1>10. CASE StopReturns
  BY <1>1, <1>10 DEF StopReturns, CallStop
<1>11. CASE Destroy
  BY <1>1, <1>11 DEF Destroy
<1>12. CASE Finally \/ Close \/ CallDestroy
  BY <1>1, <1>12 DEF Finally, Close, CallDestroy, CallStop
<1>13. CASE ReadStats
  BY <1>1, <1>13 DEF ReadStats, ReadCounter
<1>14. CASE WriteEvidence \/ Succeed \/ WriteFailure
  BY <1>1, <1>14 DEF WriteEvidence, Succeed, WriteFailure, Wrote
<1>15. CASE Interrupt \/ IOError
  BY <1>15 DEF Interrupt, IOError, AfterError
<1> QED
  BY <1>2, <1>3, <1>4, <1>5, <1>6, <1>7, <1>8, <1>9, <1>10, <1>11, <1>12,
     <1>13, <1>14, <1>15 DEF Step, Main, Run, Shutdown

\* Only the native cleanup stops the device; before it, run ends its try with
\* the device running, or by an exception.
LEMMA StepKeepsDevice ==
  ASSUME IInv, Step
  PROVE  DeviceRuns'
<1>1. DeviceRuns /\ mode \in {"unguided", "guided", "confirmed"}
  BY ModesAssumption DEF IInv, Types, TypeOK
<1> USE DEF DeviceRuns, Timed, Recording, Goto
<1>2. CASE CreateSensor
  BY <1>2 DEF CreateSensor
<1>3. CASE EnterTry \/ StartRefused \/ Confirm \/ InputEnds
  BY <1>1, <1>3 DEF EnterTry, StartRefused, Confirm, InputEnds, AfterError,
                    Trying
<1>4. CASE NativeStart
  BY <1>4 DEF NativeStart
<1>5. CASE DeviceStarts
  BY <1>1, <1>5 DEF DeviceStarts, StartDevice, FirstStep
<1>6. CASE EndStage
  BY <1>1, <1>6 DEF EndStage
<1>7. CASE Record \/ EndCountdown \/ Announce \/ EndDrain
  BY <1>1, <1>7 DEF Record, Poll, EndCountdown, Announce, EndDrain
<1>8. CASE DeviceStartFails \/ Detach
  BY <1>8 DEF DeviceStartFails, Detach, AfterDetach, AfterDevice
<1>9. CASE StopStep
  BY <1>9 DEF StopStep, AfterDevice
<1>10. CASE StopReturns
  BY <1>10 DEF StopReturns, CallStop
<1>11. CASE Destroy
  BY <1>11 DEF Destroy
<1>12. CASE Finally \/ Close \/ CallDestroy
  BY <1>12 DEF Finally, Close, CallDestroy, CallStop
<1>13. CASE ReadStats
  BY <1>13 DEF ReadStats, ReadCounter
<1>14. CASE WriteEvidence \/ Succeed \/ WriteFailure
  BY <1>14 DEF WriteEvidence, Succeed, WriteFailure, Wrote
<1>15. CASE Interrupt \/ IOError
  BY <1>1, <1>15 DEF Interrupt, IOError, AfterError
<1> QED
  BY <1>2, <1>3, <1>4, <1>5, <1>6, <1>7, <1>8, <1>9, <1>10, <1>11, <1>12,
     <1>13, <1>14, <1>15 DEF Step, Main, Run, Shutdown

\* A step of the probe gives no number, and takes none back but before the first
\* callback.
LEMMA StepKeepsNumbered ==
  ASSUME IInv, Step
  PROVE  Numbered'
<1>1. /\ Empties \/ Records \/ UNCHANGED <<counts, queue, overall>>
      /\ Numbered /\ queue \in Seq(Frames)
      /\ overall \in Seq([sequence : 1 .. MaxCallbacks, queued : Periods,
                          recorded : Periods])
  BY StepOnCapture, CaptureTypes DEF IInv
<1>2. CASE Empties
  <2>1. queue' = <<>> /\ overall' = <<>>
    BY <1>2 DEF Empties, IInv, GateIsShut, Before
  <2> QED
    BY <2>1 DEF Numbered
<1>3. CASE Records
  <2> DEFINE r == [sequence |-> Head(queue).sequence,
                   queued |-> Head(queue).queued, recorded |-> Period]
  <2>1. /\ queue # <<>> /\ queue' = Tail(queue) /\ counts' = counts
        /\ overall' = Append(overall, r)
    BY <1>3 DEF Records, Record, Poll
  <2>2. /\ 1 \in DOMAIN queue /\ Head(queue) = queue[1]
        /\ \A i \in DOMAIN Tail(queue) :
             \E j \in DOMAIN queue : Tail(queue)[i] = queue[j]
    BY <1>1, <2>1, PollElements
  <2>3. r.sequence = queue[1].sequence
    BY <2>2
  <2> HIDE DEF r
  <2>4. \A i \in DOMAIN overall' :
          overall'[i] = r \/ (i \in DOMAIN overall /\ overall'[i] = overall[i])
    BY <1>1, <2>1
  <2> QED
    BY <1>1, <2>1, <2>2, <2>3, <2>4 DEF Numbered
<1>4. CASE UNCHANGED <<counts, queue, overall>>
  BY <1>1, <1>4 DEF Numbered
<1> QED
  BY <1>1, <1>2, <1>3, <1>4

\* In a guided run a stage is begun with an empty queue, and what it records was
\* in the queue.
LEMMA StepKeepsObserved ==
  ASSUME IInv, Step
  PROVE  Observed'
<1>1. /\ Observed /\ mode \in {"unguided", "guided", "confirmed"}
      /\ queue \in Seq(Frames)
      /\ overall \in Seq([sequence : 1 .. MaxCallbacks, queued : Periods,
                          recorded : Periods])
      /\ UNCHANGED mode
  BY ModesAssumption, StepOnCapture DEF IInv, Types, TypeOK
<1> USE DEF Observed, FramesAreOfTheirStage, Goto
<1>2. CASE UNCHANGED overall /\ pc' \notin {"announce", "observe"}
  BY <1>1, <1>2
<1>3. CASE Record
  <2> DEFINE r == [sequence |-> Head(queue).sequence,
                   queued |-> Head(queue).queued, recorded |-> Period]
  <2>1. /\ queue # <<>> /\ queue' = Tail(queue) /\ overall' = Append(overall, r)
        /\ UNCHANGED <<pc, stage>>
    BY <1>3 DEF Record, Poll
  <2>2. /\ 1 \in DOMAIN queue /\ Head(queue) = queue[1]
        /\ \A i \in DOMAIN Tail(queue) :
             \E j \in DOMAIN queue : Tail(queue)[i] = queue[j]
    BY <1>1, <2>1, PollElements
  <2>3. mode' # "unguided" /\ pc' \in {"announce", "observe"} =>
          \A i \in DOMAIN queue' : queue'[i].queued \in OfStage'
    BY <1>1, <2>1, <2>2 DEF OfStage
  <2>4. r.recorded = Period /\ r.queued = Head(queue).queued
    OBVIOUS
  <2>5. ASSUME mode # "unguided", r.recorded[1] = "observe"
        PROVE  /\ r.queued[1] \in {"announce", "observe"}
               /\ r.queued[2] = r.recorded[2]
    <3>1. pc = "observe" /\ Period = <<"observe", stage>>
      BY <2>4, <2>5 DEF Period, Timed, Recording
    <3>2. r.queued \in OfStage
      BY <1>1, <2>2, <2>4, <2>5, <3>1
    <3> QED
      BY <2>4, <3>1, <3>2 DEF OfStage
  <2> HIDE DEF r
  <2>6. FramesAreOfTheirStage'
    <3>1. \A i \in DOMAIN overall' :
            \/ overall'[i] = r
            \/ i \in DOMAIN overall /\ overall'[i] = overall[i]
      BY <1>1, <2>1
    <3> QED
      BY <1>1, <2>5, <3>1
  <2> QED
    BY <2>3, <2>6
<1>4. CASE EndCountdown
  BY <1>1, <1>4 DEF EndCountdown, CountdownIsDrained, ReadsNone
<1>5. CASE Announce
  <2>1. OfStage' = OfStage
    BY <1>5 DEF Announce, OfStage
  <2> QED
    BY <1>1, <1>5, <2>1 DEF Announce
<1>6. CASE DeviceStarts \/ EndStage
  BY <1>1, <1>6 DEF DeviceStarts, EndStage, FirstStep
<1>7. CASE CreateSensor \/ EnterTry \/ StartRefused \/ Confirm \/ InputEnds
  BY <1>2, <1>7 DEF CreateSensor, EnterTry, StartRefused, Confirm, InputEnds,
                    AfterError
<1>8. CASE NativeStart \/ DeviceStartFails \/ Detach
  BY <1>2, <1>8 DEF NativeStart, DeviceStartFails, Detach, AfterDetach,
                    AfterDevice
<1>9. CASE StopStep
  BY <1>2, <1>9 DEF StopStep, AfterDevice
<1>10. CASE StopReturns
  BY <1>2, <1>10 DEF StopReturns, CallStop
<1>11. CASE Destroy
  BY <1>2, <1>11 DEF Destroy
<1>12. CASE Finally \/ Close \/ CallDestroy \/ EndDrain
  BY <1>2, <1>12 DEF Finally, Close, CallDestroy, CallStop, EndDrain
<1>13. CASE ReadStats
  BY <1>2, <1>13 DEF ReadStats, ReadCounter
<1>14. CASE WriteEvidence \/ Succeed \/ WriteFailure
  BY <1>2, <1>14 DEF WriteEvidence, Succeed, WriteFailure, Wrote
<1>15. CASE Interrupt \/ IOError
  BY <1>2, <1>15 DEF Interrupt, IOError, AfterError
<1> QED
  BY <1>3, <1>4, <1>5, <1>6, <1>7, <1>8, <1>9, <1>10, <1>11, <1>12, <1>13,
     <1>14, <1>15 DEF Step, Main, Run, Shutdown

\* Where no statistics are read any more.
LEMMA NotStopped ==
  ASSUME pc \notin {"drain", "read_callback", "read_overwrite",
                    "read_contention", "close", "destroy", "writing"},
         pc \notin Cleanup \/ caller \notin {"close", "destroy"}
  PROVE  ~ Stopped
  BY DEF Stopped, Drained, ReadCallback, ReadOverwrite, ReadAll, ClosingCalls

\* Frames that were recorded have been counted.
LEMMA RecordedAreCounted ==
  ASSUME Types
  PROVE  /\ Len(overall) <= counts["callback"]
         /\ queue = <<>> /\ Quiet =>
              counts["callback"] =
                Len(overall) + counts["overwrite"] + counts["contention"]
<1>1. /\ counts["callback"] \in Nat /\ counts["overwrite"] \in Nat
      /\ counts["contention"] \in Nat /\ inside["numbered"] \in Nat
      /\ Len(overall) \in Nat /\ Len(queue) \in Nat
  BY CaptureTypes DEF Fields, Places
<1>2. SumIsRight
  BY DEF Types, Accounted
<1>3. Quiet => inside["numbered"] = 0
  BY DEF Quiet, Nobody, Places
<1> QED
  BY <1>1, <1>2, <1>3 DEF SumIsRight

\* What a stop without an error has left, the drain and the statistics find, and
\* nothing that follows changes it.
LEMMA StepKeepsStops ==
  ASSUME IInv, Step
  PROVE  Stops'
<1>1. /\ Stops /\ GateIsShut /\ DeviceRuns
      /\ mode \in {"unguided", "guided", "confirmed"}
      /\ stop_error \in BOOLEAN /\ raised \in BOOLEAN
      /\ stats \in [Fields -> 0 .. MaxCallbacks] /\ inside' = inside
  BY ModesAssumption, StepOnCapture DEF IInv, Types, TypeOK
<1> USE DEF Goto
<1> DEFINE Where == {"drain", "read_callback", "read_overwrite",
                     "read_contention", "close", "destroy",
                     "writing"}
<1>2. CASE pc' \notin Where \cup Cleanup
  <2>1. ~ Stopped'
    BY <1>2 DEF Stopped, Drained, ReadCallback, ReadOverwrite, ReadAll,
                ClosingCalls
  <2> QED
    BY <2>1 DEF Stops, Stopped, Drained, ReadCallback, ReadOverwrite
<1>3. CASE /\ pc' \in Cleanup /\ caller' \notin {"close", "destroy"}
  <2>1. ~ Stopped'
    BY <1>3 DEF Stopped, Drained, ReadCallback, ReadOverwrite, ReadAll,
                ClosingCalls, Cleanup
  <2> QED
    BY <2>1 DEF Stops, Stopped, Drained, ReadCallback, ReadOverwrite
\* It stays stopped, and what is known of the statistics stays known.
<1> DEFINE Still == UNCHANGED <<inside, queue, counts, overall, stats,
                                stop_error, raised>>
<1>4. ASSUME Still, ReadAll, accepting' => accepting
      PROVE  Stops'
  <2>1. Stopped /\ Drained /\ ReadCallback /\ ReadOverwrite
    BY <1>4 DEF Stopped, Drained, ReadCallback, ReadOverwrite
  <2>2. Settled' <=> Settled
    BY <1>4 DEF Settled
  <2>3. /\ Settled => /\ Quiet /\ ~ accepting /\ queue = <<>>
                      /\ stats["callback"] = counts["callback"]
                      /\ stats["overwrite"] = counts["overwrite"]
                      /\ stats["contention"] = counts["contention"]
        /\ Len(overall) <= stats["callback"]
    BY <1>1, <1>4, <2>1 DEF Stops
  <2>4. /\ Settled' => /\ Quiet' /\ ~ accepting' /\ queue' = <<>>
                       /\ stats'["callback"] = counts'["callback"]
                       /\ stats'["overwrite"] = counts'["overwrite"]
                       /\ stats'["contention"] = counts'["contention"]
        /\ Len(overall') <= stats'["callback"]
    BY <1>4, <2>2, <2>3 DEF Quiet
  <2> QED
    BY <2>4 DEF Stops
<1>5. CASE /\ CreateSensor \/ EnterTry \/ StartRefused \/ Confirm \/ InputEnds
              \/ NativeStart \/ DeviceStarts \/ EndCountdown \/ Announce
              \/ EndStage \/ Interrupt \/ IOError
  <2>1. pc' \notin Where \cup Cleanup
    <3>1. CASE CreateSensor \/ EnterTry \/ NativeStart
      BY <3>1 DEF CreateSensor, EnterTry, NativeStart, Cleanup
    <3>2. CASE StartRefused \/ Confirm \/ InputEnds \/ EndCountdown \/ Announce
      BY <3>2 DEF StartRefused, Confirm, InputEnds, EndCountdown, Announce,
                  AfterError, Cleanup
    <3>3. CASE DeviceStarts \/ EndStage
      BY <1>1, <3>3 DEF DeviceStarts, EndStage, FirstStep, Cleanup
    <3>4. CASE Interrupt \/ IOError
      BY <3>4 DEF Interrupt, IOError, AfterError, Cleanup
    <3> QED
      BY <1>5, <3>1, <3>2, <3>3, <3>4
  <2> QED
    BY <1>2, <2>1
<1>6. CASE WriteEvidence \/ Succeed \/ WriteFailure
  <2>1. pc' \notin Where \cup Cleanup
    BY <1>6 DEF WriteEvidence, Succeed, WriteFailure, Wrote, Cleanup
  <2> QED
    BY <1>2, <2>1
<1>7. CASE DeviceStartFails
  <2>1. pc' \in Cleanup /\ caller' = "start"
    BY <1>7 DEF DeviceStartFails, Cleanup
  <2> QED
    BY <1>3, <2>1
<1>8. CASE Record
  <2>1. pc' = pc /\ pc \in Recording \cup {"drain"}
    BY <1>8 DEF Record
  <2>2. pc = "drain" => Stopped
    BY DEF Stopped
  <2>3. /\ Settled' <=> Settled
        /\ Quiet' <=> Quiet
        /\ accepting' = accepting
    BY <1>1, <1>8 DEF Record, Poll, Settled, Quiet
  <2>4. ~ Drained' /\ ~ ReadCallback' /\ ~ ReadOverwrite' /\ ~ ReadAll'
    BY <2>1 DEF Drained, ReadCallback, ReadOverwrite, ReadAll, ClosingCalls,
                Recording, Cleanup
  <2>5. Stopped' => Stopped
    BY <2>1, <2>2, <2>4 DEF Stopped
  <2> QED
    BY <1>1, <2>3, <2>4, <2>5 DEF Stops
<1>9. CASE Detach \/ StopStep
  <2>1. pc \in Cleanup /\ caller' = caller
    BY <1>9 DEF Detach, StopStep, Cleanup
  <2>2. CASE caller \in {"close", "destroy"}
    <3>1. ReadAll
      BY <2>1, <2>2 DEF ReadAll, ClosingCalls
    <3>2. Still /\ (accepting' => accepting)
      BY <1>9 DEF Detach, StopStep, Shut, StopDevice, Unregister
    <3> QED
      BY <1>4, <3>1, <3>2
  <2>3. CASE caller \notin {"close", "destroy"}
    <3>1. pc' \in Cleanup
      BY <1>9 DEF Detach, StopStep, Cleanup, AfterDetach, AfterDevice
    <3> QED
      BY <1>3, <2>1, <2>3, <3>1
  <2> QED
    BY <2>2, <2>3
<1>10. CASE StopReturns
  <2>1. CASE caller = "start"
    <3>1. pc' = "finally"
      BY <1>10, <2>1 DEF StopReturns
    <3> QED
      BY <1>2, <3>1 DEF Cleanup
  <2>2. CASE caller = "probe"
    <3>1. /\ pc = "wait" /\ pc' = "drain" /\ stop_error' = StopFails
          /\ UNCHANGED <<viewVars, caller>>
      BY <1>10, <2>2 DEF StopReturns
    <3>2. ~ accepting'
      BY <1>1, <3>1 DEF GateIsShut, Shutting, Cleanup
    <3>3. Settled' => Quiet'
      BY <3>1 DEF Settled, StopFails, Quiet
    <3>4. ~ Drained' /\ ~ ReadCallback' /\ ~ ReadOverwrite' /\ ~ ReadAll'
      BY <3>1 DEF Drained, ReadCallback, ReadOverwrite, ReadAll, ClosingCalls,
                  Cleanup
    <3> QED
      BY <3>2, <3>3, <3>4 DEF Stops
  <2>3. CASE caller = "close"
    <3>1. ReadAll
      BY <1>10, <2>3 DEF StopReturns, ReadAll, ClosingCalls, Cleanup
    <3>2. Still /\ accepting' = accepting
      BY <1>10, <2>3 DEF StopReturns
    <3> QED
      BY <1>4, <3>1, <3>2
  <2> QED
    BY <1>10, <2>1, <2>2, <2>3 DEF StopReturns
<1>11. CASE Destroy
  <2>1. ReadAll
    BY <1>11 DEF Destroy, ReadAll, ClosingCalls, Cleanup
  <2>2. Still /\ accepting' = accepting
    BY <1>11 DEF Destroy
  <2> QED
    BY <1>4, <2>1, <2>2
<1>12. CASE Finally
  <2>1. CASE running
    <3>1. pc' \in Cleanup /\ caller' = "probe"
      BY <1>12, <2>1 DEF Finally, CallStop, Cleanup
    <3> QED
      BY <1>3, <3>1
  <2>2. CASE ~ running
    <3>1. pc' = "drain" /\ raised'
      BY <1>1, <1>12, <2>2 DEF Finally, DeviceRuns
    <3>2. ~ Settled'
      BY <3>1 DEF Settled
    <3>3. ~ Drained' /\ ~ ReadCallback' /\ ~ ReadOverwrite' /\ ~ ReadAll'
      BY <3>1 DEF Drained, ReadCallback, ReadOverwrite, ReadAll, ClosingCalls,
                  Cleanup
    <3> QED
      BY <3>2, <3>3 DEF Stops
  <2> QED
    BY <2>1, <2>2
<1>13. CASE Close \/ CallDestroy
  <2>1. ReadAll /\ Still /\ accepting' = accepting
    BY <1>13 DEF Close, CallDestroy, CallStop, ReadAll
  <2> QED
    BY <1>4, <2>1
\* The drain ends with the queue empty, and the counters are read one by one.
<1>14. CASE EndDrain
  <2>1. /\ pc = "drain" /\ pc' = "read_callback" /\ queue = <<>>
        /\ UNCHANGED <<viewVars, stop_error, raised>>
    BY <1>14 DEF EndDrain, ReadsNone
  <2>2. Stopped
    BY <2>1 DEF Stopped
  <2>3. /\ Settled' <=> Settled
        /\ Quiet' <=> Quiet
    BY <2>1 DEF Settled, Quiet
  <2>4. ~ ReadCallback' /\ ~ ReadOverwrite' /\ ~ ReadAll'
    BY <2>1 DEF ReadCallback, ReadOverwrite, ReadAll, ClosingCalls, Cleanup
  <2> QED
    BY <1>1, <2>1, <2>2, <2>3, <2>4 DEF Stops
<1>15. CASE ReadStats
  <2>1. /\ UNCHANGED <<viewVars, overall, stop_error, raised>>
        /\ Stopped /\ Drained
    BY <1>15 DEF ReadStats, ReadCounter, Stopped, Drained, ReadCallback,
                 ReadOverwrite
  <2>2. /\ Settled' <=> Settled
        /\ Quiet' <=> Quiet
    BY <2>1 DEF Settled, Quiet
  <2>3. Settled' => Quiet' /\ ~ accepting' /\ queue' = <<>>
    BY <1>1, <2>1, <2>2 DEF Stops
  <2>4. CASE ReadCounter("callback", "read_callback", "read_overwrite")
    <3>1. pc' = "read_overwrite" /\ stats'["callback"] = counts["callback"]
      BY <1>1, <2>4 DEF ReadCounter, Fields
    <3>2. Len(overall') <= stats'["callback"]
      BY <2>1, <3>1, RecordedAreCounted DEF IInv
    <3>3. ~ ReadOverwrite' /\ ~ ReadAll'
      BY <3>1 DEF ReadOverwrite, ReadAll, ClosingCalls, Cleanup
    <3> QED
      BY <2>1, <2>3, <3>1, <3>2, <3>3 DEF Stops
  <2>5. CASE ReadCounter("overwrite", "read_overwrite", "read_contention")
    <3>1. /\ pc = "read_overwrite" /\ pc' = "read_contention"
          /\ stats'["overwrite"] = counts["overwrite"]
          /\ stats'["callback"] = stats["callback"]
      BY <1>1, <2>5 DEF ReadCounter, Fields
    <3>2. ReadCallback
      BY <3>1 DEF ReadCallback
    <3>3. ~ ReadAll'
      BY <3>1 DEF ReadAll, ClosingCalls, Cleanup
    <3> QED
      BY <1>1, <2>1, <2>2, <2>3, <3>1, <3>2, <3>3 DEF Stops
  <2>6. CASE ReadCounter("contention", "read_contention", "close")
    <3>1. /\ pc = "read_contention"
          /\ stats'["contention"] = counts["contention"]
          /\ stats'["callback"] = stats["callback"]
          /\ stats'["overwrite"] = stats["overwrite"]
      BY <1>1, <2>6 DEF ReadCounter, Fields
    <3>2. ReadCallback /\ ReadOverwrite
      BY <3>1 DEF ReadCallback, ReadOverwrite
    <3> QED
      BY <1>1, <2>1, <2>2, <2>3, <3>1, <3>2 DEF Stops
  <2> QED
    BY <1>15, <2>4, <2>5, <2>6 DEF ReadStats
<1> QED
  BY <1>5, <1>6, <1>7, <1>8, <1>9, <1>10, <1>11, <1>12, <1>13, <1>14, <1>15
  DEF Step, Main, Run, Shutdown

\* Evidence is written from what the stop has left, after the capture is freed;
\* it stays, or a failure report takes its place, or it is torn.
LEMMA StepKeepsEnds ==
  ASSUME IInv, Step
  PROVE  Ends'
<1>1. /\ Ends /\ GateIsShut
      /\ UNCHANGED inside
      /\ mode \in {"unguided", "guided", "confirmed"}
  BY ModesAssumption, StepOnCapture DEF IInv, Types, TypeOK
<1> USE DEF Goto
<1> DEFINE Late == {"writing", "written", "succeeded", "failed"}
\* Before the process writes, there is no evidence.
<1>2. ASSUME report # "evidence", report' = report, pc' \notin Late
      PROVE  Ends'
  BY <1>2 DEF Ends, EvidenceAddsUp, ReportMatchesExit
<1>3. ASSUME pc \notin {"written", "succeeded", "failing", "died"}
      PROVE  report # "evidence"
  BY <1>1, <1>3 DEF Ends
<1>4. CASE CreateSensor \/ EnterTry \/ NativeStart
  <2>1. report # "evidence" /\ report' = report /\ pc' \notin Late
    BY <1>3, <1>4 DEF CreateSensor, EnterTry, NativeStart
  <2> QED
    BY <1>2, <2>1
<1>5. CASE StartRefused \/ Confirm \/ InputEnds \/ EndCountdown
           \/ Announce \/ EndDrain
  <2>1. report # "evidence" /\ report' = report /\ pc' \notin Late
    BY <1>3, <1>5 DEF StartRefused, Confirm, InputEnds, EndCountdown, Announce,
                      EndDrain, AfterError
  <2> QED
    BY <1>2, <2>1
<1>6. CASE DeviceStarts \/ EndStage \/ DeviceStartFails \/ Record
  <2>1. report # "evidence" /\ report' = report /\ pc' \notin Late
    BY <1>1, <1>3, <1>6 DEF DeviceStarts, EndStage, DeviceStartFails, Record,
                            FirstStep, Recording
  <2> QED
    BY <1>2, <2>1
<1>7. CASE Detach \/ StopStep
  <2>1. report # "evidence" /\ report' = report /\ pc' \notin Late
    BY <1>3, <1>7 DEF Detach, StopStep, AfterDetach, AfterDevice
  <2> QED
    BY <1>2, <2>1
<1>8. CASE StopReturns \/ Finally \/ Close \/ CallDestroy
  <2>1. report # "evidence" /\ report' = report /\ pc' \notin Late
    BY <1>3, <1>8 DEF StopReturns, Finally, Close, CallDestroy, CallStop
  <2> QED
    BY <1>2, <2>1
<1>9. CASE ReadStats
  <2>1. report # "evidence" /\ report' = report /\ pc' \notin Late
    BY <1>3, <1>9 DEF ReadStats, ReadCounter
  <2> QED
    BY <1>2, <2>1
<1>10. CASE Destroy
  <2>1. report # "evidence" /\ report' = report
    BY <1>3, <1>10 DEF Destroy
  <2>2. CASE DestroyFails
    <3>1. pc' = "failing"
      BY <1>10, <2>2 DEF Destroy
    <3> QED
      BY <1>2, <2>1, <3>1
  <2>3. CASE ~ DestroyFails
    <3>1. /\ pc = "wait" /\ UNCHANGED <<running, registered, accepting, raised>>
          /\ pc' = IF raised THEN "failing" ELSE "writing"
          /\ live' = FALSE
      BY <1>10, <2>3 DEF Destroy
    <3>2. Closed'
      BY <1>1, <2>3, <3>1
      DEF Closed, DestroyFails, StopFails, Quiet, GateIsShut, Shutting, Cleanup
    <3> QED
      BY <2>1, <3>1, <3>2 DEF Ends, EvidenceAddsUp, ReportMatchesExit
  <2> QED
    BY <2>2, <2>3
<1>11. CASE WriteEvidence
  <2>1. /\ pc = "writing" /\ pc' = "written" /\ report' = "evidence"
        /\ UNCHANGED <<viewVars, overall, stats, stop_error, raised>>
    BY <1>11 DEF WriteEvidence, Wrote
  <2>2. Closed /\ ~ raised /\ Quiet
    BY <1>1, <2>1 DEF Ends, Closed
  <2>3. Closed'
    BY <2>1, <2>2 DEF Closed, Quiet
  <2>4. /\ Stopped /\ Drained /\ ReadCallback /\ ReadOverwrite /\ ReadAll
    BY <2>1 DEF Stopped, Drained, ReadCallback, ReadOverwrite, ReadAll
  <2>5. /\ Len(overall) \in Nat /\ \A f \in Fields : stats[f] \in Nat
        /\ Len(overall) <= stats["callback"]
    <3>1. \A f \in Fields : stats[f] \in 0 .. MaxCallbacks
      BY DEF IInv, Types, TypeOK
    <3> QED
      BY <2>4, <3>1, CaptureTypes DEF IInv, Stops
  <2>6. Unmaterialized >= 0
    BY <2>5 DEF Unmaterialized, Fields
  <2>7. ASSUME ~ stop_error
        PROVE  Unmaterialized = Drops
    <3>1. /\ queue = <<>>
          /\ stats["callback"] = counts["callback"]
          /\ stats["overwrite"] = counts["overwrite"]
          /\ stats["contention"] = counts["contention"]
      BY <2>2, <2>4, <2>7 DEF IInv, Stops, Settled
    <3>2. counts["callback"] =
            Len(overall) + counts["overwrite"] + counts["contention"]
      BY <2>2, <3>1, RecordedAreCounted DEF IInv
    <3> QED
      BY <2>5, <3>1, <3>2 DEF Unmaterialized, Drops, Fields
  <2>8. ASSUME ~ stop_error, InOrder
        PROVE  Skipped <= Drops
    <3>1. stats["callback"] = counts["callback"] /\ counts["callback"] \in Nat
      BY <2>2, <2>4, <2>5, <2>8 DEF IInv, Stops, Settled, Fields
    <3>2. \A i \in 1 .. Len(overall) :
            overall[i].sequence \in 1 .. counts["callback"]
      <4>1. DOMAIN overall = 1 .. Len(overall)
        BY CaptureTypes DEF IInv
      <4> QED
        BY <3>1, <4>1, FrameNumbers DEF IInv, Numbered
    <3>3. Skipped \in Nat /\ Skipped + Len(overall) <= counts["callback"]
      BY <2>5, <2>8, <3>1, <3>2, GapsAreOfOthers
    <3> QED
      BY <2>5, <2>7, <2>8, <3>1, <3>3 DEF Unmaterialized
  <2>9. EvidenceAddsUp'
    <3>1. Skipped' = Skipped
      BY <2>1, SkippedStays
    <3> QED
      BY <2>1, <2>6, <2>7, <2>8, <3>1
      DEF EvidenceAddsUp, Unmaterialized, Drops, InOrder
  <2> QED
    BY <2>1, <2>3, <2>9 DEF Ends, ReportMatchesExit
\* What is left of the process touches neither the capture nor the records.
<1>12. ASSUME UNCHANGED <<viewVars, recordVars, stop_error>>
       PROVE  /\ Closed' <=> Closed
              /\ (Unmaterialized >= 0)' <=> Unmaterialized >= 0
              /\ (Unmaterialized = Drops)' <=> Unmaterialized = Drops
              /\ (InOrder => Skipped <= Drops)'
                   <=> (InOrder => Skipped <= Drops)
  <2>1. Skipped' = Skipped
    BY <1>12, SkippedStays
  <2> QED
    BY <1>12, <2>1 DEF Closed, Quiet, Unmaterialized, Drops, InOrder
<1>13. CASE Succeed
  <2>1. /\ pc = "written" /\ pc' = "succeeded" /\ report' = report
        /\ UNCHANGED <<viewVars, recordVars, stop_error>>
    BY <1>13 DEF Succeed, Wrote
  <2> QED
    BY <1>1, <1>12, <2>1 DEF Ends, EvidenceAddsUp, ReportMatchesExit
<1>14. CASE WriteFailure
  <2>1. pc' = "failed" /\ report' = "failure"
    BY <1>14 DEF WriteFailure, Wrote, FailureReport
  <2> QED
    BY <2>1 DEF Ends, EvidenceAddsUp, ReportMatchesExit
<1>15. CASE Interrupt \/ IOError
  <2>1. /\ UNCHANGED <<viewVars, recordVars, stop_error>>
        /\ pc \notin Ended /\ pc' = AfterError
        /\ report' \in {report, "torn"}
    BY <1>15 DEF Interrupt, IOError, MayTear, Trying, Timed, Recording, Ended
  <2>2. /\ pc' \in {"finally", "died", "failing"}
        /\ pc \in {"written", "failing"} => pc' \in {"died", "failing"}
    BY <2>1 DEF AfterError, Trying, Timed, Recording
  <2>3. CASE report' # "evidence"
    BY <2>2, <2>3 DEF Ends, EvidenceAddsUp, ReportMatchesExit
  <2>4. CASE report' = "evidence"
    <3>1. report = "evidence" /\ pc \in {"written", "failing"}
      BY <1>1, <2>1, <2>4 DEF Ends, Ended
    <3>2. Closed' /\ EvidenceAddsUp'
      BY <1>1, <1>12, <2>1, <3>1 DEF Ends, EvidenceAddsUp
    <3> QED
      BY <2>2, <3>1, <3>2 DEF Ends, ReportMatchesExit
  <2> QED
    BY <2>3, <2>4
<1> QED
  BY <1>4, <1>5, <1>6, <1>7, <1>8, <1>9, <1>10, <1>11, <1>13, <1>14, <1>15
  DEF Step, Main, Run, Shutdown

\* A step that changes nothing keeps the invariant.
LEMMA StutterKeeps == IInv /\ UNCHANGED vars => IInv'
<1> SUFFICES ASSUME IInv, UNCHANGED vars PROVE IInv'
  OBVIOUS
<1> USE DEF vars
<1>1. Types'
  <2>1. TypeOK' /\ queue' \in Seq(Frames)
    BY DEF IInv, Types, TypeOK, ViewTypeOK
  <2>2. Accounted'
    BY DEF IInv, Types, Accounted, SumIsRight, NoneIsExtra
  <2> QED
    BY <2>1, <2>2 DEF Types
<1>2. GateIsShut' /\ DeviceRuns'
  BY DEF IInv, GateIsShut, DeviceRuns, Quiet
<1>3. Stops'
  BY DEF IInv, Stops, Stopped, Drained, ReadCallback, ReadOverwrite, ReadAll,
         ClosingCalls, Settled, Quiet
<1>4. Ends'
  <2>1. Skipped' = Skipped
    BY SkippedStays
  <2> QED
    BY <2>1 DEF IInv, Ends, Closed, Quiet, EvidenceAddsUp, ReportMatchesExit,
                Unmaterialized, Drops, InOrder
<1>5. Observed' /\ Numbered'
  BY DEF IInv, Observed, OfStage, FramesAreOfTheirStage, Numbered
<1> QED
  BY <1>1, <1>2, <1>3, <1>4, <1>5 DEF IInv

\* So it is inductive.
LEMMA Inductive == IInv /\ [Next]_vars => IInv'
<1> SUFFICES ASSUME IInv, [Next]_vars PROVE IInv'
  OBVIOUS
<1>1. CASE Callback
  BY <1>1, CallbackKeeps
<1>2. CASE Step
  <2>1. /\ Types' /\ Numbered' /\ GateIsShut' /\ DeviceRuns'
        /\ Stops' /\ Ends' /\ Observed'
    BY <1>2, StepTypes, StepKeepsNumbered, StepKeepsGate, StepKeepsDevice,
       StepKeepsStops, StepKeepsEnds, StepKeepsObserved DEF IInv
  <2> QED
    BY <2>1 DEF IInv
<1>3. CASE UNCHANGED vars
  BY <1>3, StutterKeeps
<1> QED
  BY <1>1, <1>2, <1>3 DEF Next, Step

\* It holds in every reachable state.
LEMMA Invariance == Spec => []IInv
  BY Initially, Inductive, PTL DEF Spec

-------------------------------------------------------------------------------
(***************************************************************************)
(* What follows.                                                           *)
(***************************************************************************)

\* Every variable of the probe and of its capture keeps its type, and as many
\* numbers are waiting for their frames as callbacks are about to store one.
THEOREM TypeCorrect == Spec => []TypeOK
<1>1. IInv => TypeOK
  BY DEF IInv, Types
<1> QED
  BY <1>1, Invariance, PTL

\* No frame of an earlier stage, of the countdown or of the wait for the
\* operator is credited to a stage of a guided run: the drain that ends the
\* countdown leaves nothing of them, for any number of stages, callbacks and
\* queue slots (phase1_probe.py:213, 167).
THEOREM FramesAreOfTheirStageHolds == Spec => []FramesAreOfTheirStage
<1>1. IInv => FramesAreOfTheirStage
  BY DEF IInv, Observed
<1> QED
  BY <1>1, Invariance, PTL

\* Evidence without a stop error calls unmaterialized just what the native
\* queue gave up, and the gaps its analysis sees in frames that are in order are
\* among it, wherever an error or control-C has cut the run short before; the
\* unmaterialized are never less than none (phase1_probe.py:345).
THEOREM EvidenceAddsUpHolds == Spec => []EvidenceAddsUp
<1>1. IInv => EvidenceAddsUp
  BY DEF IInv, Ends
<1> QED
  BY <1>1, Invariance, PTL

\* Evidence is only written once nothing is left that could touch the capture
\* (phase1_probe.py:335-345).
THEOREM EvidenceIsOfAClosedCaptureHolds == Spec => []EvidenceIsOfAClosedCapture
<1>1. IInv => EvidenceIsOfAClosedCapture
  BY DEF IInv, Ends, Closed, EvidenceIsOfAClosedCapture
<1> QED
  BY <1>1, Invariance, PTL

\* The exit status tells what the file holds, also when the write or the print
\* after it was cut short (phase1_probe.py:375, 398).
THEOREM ReportMatchesExitHolds == Spec => []ReportMatchesExit
<1>1. IInv => ReportMatchesExit
  BY DEF IInv, Ends
<1> QED
  BY <1>1, Invariance, PTL
===============================================================================
