-------------------------------- MODULE Probe --------------------------------
(***************************************************************************)
(* The diagnostic trackpad_scale/phase1_probe.py from main's try to the    *)
(* file it writes, with what TrackpadSensor and the binding do for it: its *)
(* stages, the shutdown in run's finally, the close, and what can cut each *)
(* of them short: a framework call that fails, callbacks that do not leave *)
(* in time, standard input at its end, a write or print that fails, and    *)
(* KeyboardInterrupt at any point between two native calls.                *)
(*                                                                         *)
(* The capture behind it is CaptureView's; a step of the probe in a native *)
(* call is a step of the view.  Callbacks go on between any two steps.     *)
(***************************************************************************)
EXTENDS CaptureView, FiniteSetsExt

CONSTANTS
  Modes,           (* the ways it is called: see ModesAssumption            *)
  Stages,          (* stages of a guided run                                *)
  IOFails,         (* whether files and standard output may fail it         *)
  MaxInside,       (* callbacks the framework runs at once                  *)
  MaxCallbacks,    (* bound: callbacks the gate admits                      *)
  MaxInterrupts    (* bound: times the operator presses control-C           *)

\* Without --guided; with it; with --confirm-stages, too.
ASSUME ModesAssumption == Modes \subseteq {"unguided", "guided", "confirmed"}
ASSUME ProbeAssumption ==
  /\ Stages \in Nat \ {0} /\ IOFails \in BOOLEAN
  /\ MaxInside \in Nat /\ MaxCallbacks \in Nat /\ MaxInterrupts \in Nat

VARIABLES
  admissions,      (* callbacks admitted so far                             *)
  numbers,         (* numbers of callbacks whose frame is not stored yet    *)
  mode,
  pc,              (* where main, run or a native call stands               *)
  caller,          (* for whom the native cleanup runs                      *)
  failed,          (* it has seen the framework refuse                      *)
  stage,           (* stages begun                                          *)
  overall,         (* overall_frames                                        *)
  stats,           (* report["native_stats"]                                *)
  stop_error,      (* stop_error is not None                                *)
  raised,          (* an exception left run's try                           *)
  report,          (* what --json-out holds                                 *)
  interrupts       (* KeyboardInterrupts so far                             *)

callbackVars == <<admissions, numbers>>
recordVars   == <<stage, overall, stats>>
outcomeVars  == <<stop_error, raised, report, interrupts>>
callVars     == <<caller, failed>>
probeVars    == <<mode, pc, callVars, recordVars, outcomeVars>>
vars == <<viewVars, callbackVars, probeVars>>

-------------------------------------------------------------------------------
\* What the probe is about, of which the period of a frame is made.
Recording == {"countdown", "observe"}
Timed     == Recording \cup {"announce"}
Periods   == (Timed \cup {"other"}) \X (0 .. Stages)
Period    == <<IF pc \in Timed THEN pc ELSE "other", stage>>

\* Inside mt_phase1_capture_start, _stop and _destroy, where Python does not
\* raise KeyboardInterrupt.
Starting == {"register", "open", "device_start"}
Cleanup  == {"detach", "stop_device", "unregister", "wait"}
Native   == Starting \cup Cleanup
\* The try of run, its finally, and main.
Trying  == {"start", "confirm"} \cup Timed
Closing == {"finally", "drain", "read_callback", "read_overwrite",
            "read_contention", "close", "destroy"}
Writing == {"create", "created", "writing", "written", "failing"}
Ended   == {"succeeded", "failed", "died"}

TypeOK ==
  /\ ViewTypeOK
  /\ admissions \in 0 .. MaxCallbacks
  /\ numbers \subseteq 1 .. MaxCallbacks
  /\ Cardinality(numbers) = inside["numbered"]
  /\ mode \in Modes
  /\ pc \in Native \cup Trying \cup Closing \cup Writing \cup Ended
  /\ caller \in {"start", "probe", "close", "destroy"} /\ failed \in BOOLEAN
  /\ stage \in 0 .. Stages
  /\ overall \in Seq([sequence : 1 .. MaxCallbacks, queued : Periods,
                      recorded : Periods])
  /\ stats \in [Fields -> 0 .. MaxCallbacks]
  /\ stop_error \in BOOLEAN /\ raised \in BOOLEAN
  /\ report \in {"none", "torn", "evidence", "failure"}
  /\ interrupts \in 0 .. MaxInterrupts

Init ==
  /\ ViewInit
  /\ admissions = 0 /\ numbers = {}
  /\ mode \in Modes /\ pc = "create"
  /\ caller = "probe" /\ failed = FALSE
  /\ stage = 0 /\ overall = <<>> /\ stats = NoCounts
  /\ stop_error = FALSE /\ raised = FALSE
  /\ report = "none" /\ interrupts = 0

-------------------------------------------------------------------------------
(***************************************************************************)
(* Callbacks.  Those the gate refuses leave no trace the probe adds up.    *)
(***************************************************************************)

InFlight == inside["admitted"] + inside["accepted"] + inside["numbered"]
              + inside["leaving"]

\* queue_mutex may be held by a poll of the probe or by another callback.
QueueMayBeBusy == pc \in Recording \cup {"drain"} \/ inside["numbered"] > 1

Callback ==
  /\ \/ /\ Admit
        /\ InFlight < MaxInside /\ admissions < MaxCallbacks
        /\ admissions' = admissions + 1
        /\ UNCHANGED numbers
     \/ FindAccepting /\ UNCHANGED callbackVars
     \/ FindClosed /\ UNCHANGED callbackVars
     \/ Leave /\ UNCHANGED callbackVars
     \/ /\ Number
        /\ numbers' = numbers \cup {counts'["callback"]}
        /\ UNCHANGED admissions
     \/ \E n \in numbers :
          /\ \/ QueueMayBeBusy /\ DropFrame
             \/ Enqueue([sequence |-> n, queued |-> Period])
          /\ numbers' = numbers \ {n}
          /\ UNCHANGED admissions
  /\ UNCHANGED probeVars

-------------------------------------------------------------------------------
(***************************************************************************)
(* The try of run.                                                         *)
(***************************************************************************)

Goto(next) == pc' = next

\* The sensor is created outside run's try: an error goes straight to main.
CreateSensor ==
  /\ pc = "create"
  /\ \/ Create /\ Goto("created")
     \/ UNCHANGED viewVars /\ Goto("failing")
  /\ UNCHANGED <<callbackVars, mode, callVars, recordVars, outcomeVars>>

EnterTry ==
  /\ pc = "created"
  /\ Goto("start")
  /\ UNCHANGED <<viewVars, callbackVars, mode, callVars, recordVars,
                 outcomeVars>>

\* mt_phase1_capture_start, until the device has started.
NativeStart ==
  /\ \/ pc = "start"        /\ Reset       /\ Goto("register")
     \/ pc = "register"     /\ Register    /\ Goto("open")
     \/ pc = "open"         /\ Open        /\ Goto("device_start")
  /\ UNCHANGED <<callbackVars, mode, callVars, recordVars, outcomeVars>>

\* It is refused, or fails before or in the registration of the callback.
StartRefused ==
  /\ pc \in {"start", "register"}
  /\ raised' = TRUE
  /\ Goto("finally")
  /\ UNCHANGED <<viewVars, callbackVars, mode, callVars, recordVars,
                 stop_error, report, interrupts>>

\* The stages to go through, and what each begins with.
StageCount == IF mode = "unguided" THEN 1 ELSE Stages
FirstStep  == CASE mode = "unguided"  -> "announce"
                [] mode = "guided"    -> "countdown"
                [] mode = "confirmed" -> "confirm"

DeviceStarts ==
  /\ pc = "device_start"
  /\ StartDevice
  /\ stage' = 1
  /\ Goto(FirstStep)
  /\ UNCHANGED <<callbackVars, mode, callVars, overall, stats, outcomeVars>>

\* Shut the gate, and go on as a stop does.
DeviceStartFails ==
  /\ pc = "device_start"
  /\ Shut
  /\ caller' = "start" /\ failed' = TRUE
  /\ Goto("unregister")
  /\ UNCHANGED <<callbackVars, mode, recordVars, outcomeVars>>

Confirm ==
  /\ pc = "confirm"
  /\ Goto("countdown")
  /\ UNCHANGED <<viewVars, callbackVars, mode, callVars, recordVars,
                 outcomeVars>>

\* Where an exception takes the process from here.
AfterError == CASE pc \in Trying  -> "finally"
                [] pc = "failing" -> "died"
                [] OTHER          -> "failing"

\* input() raises EOFError.
InputEnds ==
  /\ pc = "confirm"
  /\ raised' = TRUE
  /\ Goto(AfterError)
  /\ UNCHANGED <<viewVars, callbackVars, mode, callVars, recordVars,
                 stop_error, report, interrupts>>

\* A fault: a capture that does not run is not polled.
RunningIsTestedFirst(timeout) ==
  ~ running \/ (queue = <<>> /\ timeout # "None")

\* A fault: only a capture that does not run ends the wait for a frame.
OnlyStopEndsTheWait(timeout) == queue = <<>> /\ ~ running

\* Whether sensor.read_frame(timeout) may return None; a timeout that is not
\* None passes at some time.
ReadsNone(timeout) == queue = <<>> /\ (~ running \/ timeout # "None")

\* A frame that read_frame finds is recorded (_record_frame): for the stage,
\* for the countdown before it, or for the shutdown.
Record ==
  /\ pc \in Recording \cup {"drain"}
  /\ Poll
  /\ overall' = Append(overall, [sequence |-> Head(queue).sequence,
                                 queued |-> Head(queue).queued,
                                 recorded |-> Period])
  /\ UNCHANGED <<callbackVars, mode, pc, callVars, stage, stats, outcomeVars>>

\* A fault: the countdown ends without a drain.
CountdownDrainsNothing == TRUE

\* The countdown and the stage end with _drain_available.
CountdownIsDrained == ReadsNone("zero")

EndCountdown ==
  /\ pc = "countdown"
  /\ CountdownIsDrained
  /\ Goto("announce")
  /\ UNCHANGED <<viewVars, callbackVars, mode, callVars, recordVars,
                 outcomeVars>>

\* "Recording" is printed, before the stage is observed.
Announce ==
  /\ pc = "announce"
  /\ Goto("observe")
  /\ UNCHANGED <<viewVars, callbackVars, mode, callVars, recordVars,
                 outcomeVars>>

EndStage ==
  /\ pc = "observe"
  /\ ReadsNone("zero")
  /\ IF stage < StageCount
     THEN stage' = stage + 1 /\ Goto(FirstStep)
     ELSE stage' = stage /\ Goto("finally")
  /\ UNCHANGED <<viewVars, callbackVars, mode, callVars, overall, stats,
                 outcomeVars>>

-------------------------------------------------------------------------------
(***************************************************************************)
(* The native cleanup: mt_phase1_capture_stop, called by run's finally, by *)
(* the binding's close and by mt_phase1_capture_destroy, and the end of a  *)
(* mt_phase1_capture_start whose device did not start.                     *)
(***************************************************************************)

CallStop(by) ==
  /\ caller' = by /\ failed' = FALSE
  /\ Goto("detach")

AfterDevice == IF registered THEN "unregister" ELSE "wait"
AfterDetach == IF running THEN "stop_device" ELSE AfterDevice

Detach ==
  /\ pc = "detach"
  /\ Shut
  /\ Goto(AfterDetach)
  /\ UNCHANGED <<callbackVars, mode, callVars, recordVars, outcomeVars>>

\* The framework stops the device and forgets the callback, or refuses to.
StopStep ==
  /\ \/ /\ pc = "stop_device" /\ Goto(AfterDevice)
        /\ \/ StopDevice /\ UNCHANGED failed
           \/ UNCHANGED viewVars /\ failed' = TRUE
     \/ /\ pc = "unregister" /\ Goto("wait")
        /\ \/ Unregister /\ UNCHANGED failed
           \/ UNCHANGED viewVars /\ failed' = TRUE
  /\ UNCHANGED <<callbackVars, mode, caller, recordVars, outcomeVars>>

\* The bounded wait has ended, with callbacks still inside or not.
StopFails == failed \/ ~ Quiet

StopReturns ==
  /\ pc = "wait"
  /\ \/ /\ caller = "start"
        /\ raised' = TRUE /\ Goto("finally")
        /\ UNCHANGED stop_error
     \/ /\ caller = "probe"
        /\ stop_error' = StopFails /\ Goto("drain")
        /\ UNCHANGED raised
     \/ /\ caller = "close"
        /\ Goto(IF StopFails THEN "failing" ELSE "destroy")
        /\ UNCHANGED <<raised, stop_error>>
  /\ UNCHANGED <<viewVars, callbackVars, mode, callVars, recordVars, report,
                 interrupts>>

\* A fault: the binding does not look at the status of the destroy.
DestroyFailsUnseen == FALSE

DestroyFails == StopFails \/ running \/ registered

\* mt_phase1_capture_destroy after its stop: what Free asks for is what
\* DestroyFails has looked at.
Destroy ==
  /\ pc = "wait" /\ caller = "destroy"
  /\ IF DestroyFails
     THEN UNCHANGED viewVars /\ Goto("failing")
     ELSE live' = FALSE /\ Goto(IF raised THEN "failing" ELSE "writing")
          /\ UNCHANGED <<running, registered, accepting, inside, counts,
                         queue>>
  /\ UNCHANGED <<callbackVars, mode, callVars, recordVars, outcomeVars>>

-------------------------------------------------------------------------------
(***************************************************************************)
(* The finally of run, and main.                                           *)
(***************************************************************************)

Finally ==
  /\ pc = "finally"
  /\ IF running THEN CallStop("probe") ELSE Goto("drain") /\ UNCHANGED callVars
  /\ UNCHANGED <<viewVars, callbackVars, mode, recordVars, outcomeVars>>

EndDrain ==
  /\ pc = "drain"
  /\ ReadsNone("zero")
  /\ Goto("read_callback")
  /\ UNCHANGED <<viewVars, callbackVars, mode, callVars, recordVars,
                 outcomeVars>>

\* mt_phase1_capture_get_stats loads one counter after the other.
ReadCounter(f, from, to) ==
  /\ pc = from
  /\ stats' = [stats EXCEPT ![f] = counts[f]]
  /\ Goto(to)
  /\ UNCHANGED <<viewVars, callbackVars, mode, callVars, stage, overall,
                 outcomeVars>>

ReadStats ==
  \/ ReadCounter("callback", "read_callback", "read_overwrite")
  \/ ReadCounter("overwrite", "read_overwrite", "read_contention")
  \/ ReadCounter("contention", "read_contention", "close")

Close ==
  /\ pc = "close"
  /\ IF running THEN CallStop("close")
                ELSE Goto("destroy") /\ UNCHANGED callVars
  /\ UNCHANGED <<viewVars, callbackVars, mode, recordVars, outcomeVars>>

\* The close has stopped the capture, or found it stopped.
CallDestroy ==
  /\ pc = "destroy"
  /\ CallStop("destroy")
  /\ UNCHANGED <<viewVars, callbackVars, mode, recordVars, outcomeVars>>

Wrote(next, what) ==
  /\ report' = what
  /\ Goto(next)
  /\ UNCHANGED <<viewVars, callbackVars, mode, callVars, recordVars,
                 stop_error, raised, interrupts>>

WriteEvidence == pc = "writing" /\ Wrote("written", "evidence")

\* "Evidence written to", and return 0.
Succeed == pc = "written" /\ Wrote("succeeded", report)

\* A fault: a failure report does not replace what was written before.
KeepReport == IF report = "none" THEN "failure" ELSE report
FailureReport == "failure"

WriteFailure == pc = "failing" /\ Wrote("failed", FailureReport)

\* A file that is being written may be left truncated.
MayTear == report' \in IF pc \in {"writing", "failing"}
                       THEN {report, "torn"} ELSE {report}

\* In the try the interrupt runs the finally; in the finally it abandons what
\* is left of it; in main's handler it ends the process.
Interrupt ==
  /\ pc \notin Native \cup Ended
  /\ interrupts < MaxInterrupts
  /\ interrupts' = interrupts + 1
  /\ raised' = TRUE
  /\ MayTear
  /\ Goto(AfterError)
  /\ UNCHANGED <<viewVars, callbackVars, mode, callVars, recordVars,
                 stop_error>>

\* OSError of a print of the try, of main or of run after its finally, or of
\* mkdir and write_text.
IOError ==
  /\ IOFails
  /\ pc \in Trying \cup {"writing", "written", "failing"}
  /\ raised' = TRUE
  /\ MayTear
  /\ Goto(AfterError)
  /\ UNCHANGED <<viewVars, callbackVars, mode, callVars, recordVars,
                 stop_error, interrupts>>

Run ==
  \/ CreateSensor \/ EnterTry \/ NativeStart \/ StartRefused
  \/ DeviceStarts \/ DeviceStartFails
  \/ Confirm \/ InputEnds \/ Record \/ EndCountdown
  \/ Announce \/ EndStage

Shutdown ==
  \/ Detach \/ StopStep \/ StopReturns \/ Destroy
  \/ Finally \/ EndDrain \/ ReadStats \/ Close \/ CallDestroy

Main == Run \/ Shutdown \/ WriteEvidence \/ Succeed \/ WriteFailure

Next == Callback \/ Main \/ Interrupt \/ IOError

Spec == Init /\ [][Next]_vars

\* The probe's thread gets to run; nothing is assumed of the callbacks.
FairSpec == Spec /\ WF_vars(Main)

-------------------------------------------------------------------------------
\* A frame that a guided run credits to a stage was queued after the countdown
\* of that stage had found the queue empty: while the stage was announced or
\* observed.  Nothing from the countdown or the wait for the operator before it,
\* nor from an earlier stage, is counted for the contact the stage asks for
\* (phase1_probe.py:213, 167).
FramesAreOfTheirStage ==
  mode # "unguided" =>
    \A i \in DOMAIN overall :
      LET f == overall[i]
      IN f.recorded[1] = "observe" =>
           /\ f.queued[1] \in {"announce", "observe"}
           /\ f.queued[2] = f.recorded[2]

Drops == stats["overwrite"] + stats["contention"]
Unmaterialized == stats["callback"] - Len(overall)

InOrder ==
  \A i \in 1 .. Len(overall) - 1 :
    overall[i].sequence < overall[i + 1].sequence

\* skipped_callback_sequence_values of the whole capture (reliability.py:64).
Skipped ==
  MapThenSumSet(LAMBDA i : overall[i + 1].sequence - overall[i].sequence - 1,
                1 .. Len(overall) - 1)

\* Evidence without a stop error accounts for every callback: what the report
\* calls unmaterialized (phase1_probe.py:345) is what the native queue gave up,
\* though drain and statistics are read one by one, and the gaps that the
\* analysis sees in a capture whose frames are in order are among it.  When the
\* stop failed, callbacks in flight may be missing, but no frame is one nobody
\* counted.
EvidenceAddsUp ==
  report = "evidence" =>
    /\ Unmaterialized >= 0
    /\ ~ stop_error =>
         /\ Unmaterialized = Drops
         /\ InOrder => Skipped <= Drops

\* Evidence is written only once the capture is freed, with nothing left that
\* could touch it; every other way out of run ends in a failure report.
EvidenceIsOfAClosedCapture ==
  report = "evidence" =>
    ~ live /\ ~ accepting /\ ~ running /\ ~ registered /\ Quiet

\* The exit status tells what the file holds, whatever cut the writing short:
\* a failure report replaces evidence written before it, whole or torn, as when
\* the print after it fails (phase1_probe.py:375, 398).
ReportMatchesExit ==
  /\ pc = "succeeded" => report = "evidence"
  /\ pc = "failed" => report = "failure"

\* Once run reaches its finally the process ends, whatever the framework
\* answers and whatever the callbacks do: the drain after a failed stop does
\* not wait for a capture that still counts as running (sensor.py:34).
ShutdownEnds == pc = "finally" ~> pc \in Ended

\* The comment of phase1_probe.py:330, "preserve evidence even if private stop
\* fails": with nobody pressing control-C, the evidence of a capture whose stop
\* failed is what the report holds.
EvidenceIsPreserved ==
  pc \in Ended /\ stop_error /\ interrupts = 0 => report = "evidence"
===============================================================================
