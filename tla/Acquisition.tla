---------------------------- MODULE Acquisition ----------------------------
(***************************************************************************)
(* From the command line, or from an application's TrackpadSensor(), to a  *)
(* started device and back: the validation of the arguments, the two gates *)
(* that compare the host with the verified target, the loading of the      *)
(* project's library, the native create with what it acquires and gives    *)
(* back, the start with its options, the close, and main's handler, each   *)
(* with the exceptions that can leave it.                                  *)
(***************************************************************************)
EXTENDS Integers

CONSTANT RegisterMax   (* 0xFFFFFFFF: the register of the start options *)

ASSUME RegisterAssumption == RegisterMax \in Nat \ {0}

VARIABLES
  entry,           (* "main", or an application's "sensor"                  *)
  arguments,
  host,            (* the machine's fingerprint, field by field             *)
  pc,
  held,            (* how often the capture holds each native resource      *)
  started,         (* whether MTDeviceStart was called                      *)
  error,           (* the exception that is under way                       *)
  file             (* what --json-out holds                                 *)

callerVars == <<entry, arguments, host>>
vars == <<callerVars, pc, held, started, error, file>>

-------------------------------------------------------------------------------
\* The values of the arguments that the code tells apart; float() reads "nan"
\* and "inf" as numbers, too.
Seconds == {"negative", "zero", "positive", "NaN", "infinity"}

\* What the parser lets through: --guided excludes --duration.
Arguments ==
  {a \in [guided : BOOLEAN, confirm_stages : BOOLEAN,
          allow_unverified_target : BOOLEAN,
          duration : Seconds, lead_in : Seconds, trials : 0 .. 2,
          start_options : {-1, 0, 1, RegisterMax, RegisterMax + 1}] :
     a.guided => a.duration = "positive"}

Allowed == arguments.allow_unverified_target
Options == arguments.start_options

FingerprintFields == {"architecture", "os_build", "hardware_model",
                      "framework_bundle_version", "framework_image_uuid"}
Profile == [f \in FingerprintFields |-> "verified"]
Hosts   == [FingerprintFields -> {"verified", "other"}]

Resources == {"memory", "mutex", "framework", "device"}
Nothing == [r \in Resources |-> 0]
Holds(r) == held[r] > 0

\* CalledProcessError and OverflowError are neither of RuntimeError nor of
\* OSError or ValueError.
Caught == {"ValueError", "RuntimeError", "OSError", "BridgeError", "EOFError",
           "KeyboardInterrupt"}
Errors == Caught \cup {"none", "CalledProcessError", "KeyError",
                       "AttributeError", "OverflowError"}

\* Among others: nothing is given back that is not held, or acquired twice.
TypeOK ==
  /\ entry \in {"main", "sensor"}
  /\ arguments \in Arguments /\ host \in Hosts
  /\ pc \in {"validate", "gate", "require", "library", "allocate", "mutex",
             "dlopen", "resolve", "device", "start", "stages", "close",
             "handle", "succeed", "ended"}
  /\ held \in [Resources -> 0 .. 1]
  /\ started \in BOOLEAN /\ error \in Errors
  /\ file \in {"none", "evidence", "failure"}

Init ==
  /\ entry \in {"main", "sensor"}
  /\ arguments \in Arguments /\ host \in Hosts
  /\ pc = IF entry = "main" THEN "validate" ELSE "require"
  /\ held = Nothing /\ started = FALSE /\ error = "none" /\ file = "none"

Goto(next) == pc' = next /\ UNCHANGED error
Raise(e, next) == pc' = next /\ error' = e

-------------------------------------------------------------------------------
InRegister(n) == n \in 0 .. RegisterMax

\* A number of seconds that is NaN compares with nothing, and passes.
Valid(a) ==
  /\ a.duration \notin {"negative", "zero"} /\ a.lead_in # "negative"
  /\ a.trials > 0
  /\ a.guided \/ (a.trials = 1 /\ ~ a.confirm_stages)
  /\ InRegister(a.start_options)
  /\ a.start_options # 0 => a.allow_unverified_target

Validate ==
  /\ pc = "validate"
  /\ IF Valid(arguments) THEN Goto("gate") ELSE Raise("ValueError", "handle")
  /\ UNCHANGED <<callerVars, held, started, file>>

\* A fault: a host that differs in one field passes.
MatchesButOne ==
  \E f \in FingerprintFields :
    \A g \in FingerprintFields \ {f} : host[g] = Profile[g]
Matches == \A f \in FingerprintFields : host[f] = Profile[f]

\* current_target_fingerprint: Info.plist and its keys, dyld_info and what it
\* prints, sw_vers, sysctl.
FingerprintFails ==
  /\ pc \in {"gate", "require"}
  /\ \E e \in {"OSError", "ValueError", "KeyError", "CalledProcessError",
               "RuntimeError"} : Raise(e, "handle")
  /\ UNCHANGED <<callerVars, held, started, file>>

\* run looks at the target for its report, the binding's constructor for every
\* caller.
Gate ==
  /\ pc \in {"gate", "require"}
  /\ IF Matches \/ Allowed
     THEN Goto(IF pc = "gate" THEN "require" ELSE "library")
     ELSE Raise("RuntimeError", "handle")
  /\ UNCHANGED <<callerVars, held, started, file>>

\* The signatures of all functions are set before the library is asked for its
\* version, so that a function an older one lacks is an AttributeError.
LoadLibrary ==
  /\ pc = "library"
  /\ \/ Goto("allocate")
     \/ \E e \in {"BridgeError", "OSError", "AttributeError"} :
          Raise(e, "handle")
  /\ UNCHANGED <<callerVars, held, started, file>>

-------------------------------------------------------------------------------
(***************************************************************************)
(* mt_phase1_capture_create.                                               *)
(***************************************************************************)

Acquire(from, what, next) ==
  /\ pc = from
  /\ held' = [held EXCEPT ![what] = @ + 1]
  /\ Goto(next)
  /\ UNCHANGED <<callerVars, started, file>>

Allocate      == Acquire("allocate", "memory", "mutex")
InitMutex     == Acquire("mutex", "mutex", "dlopen")
LoadFramework == Acquire("dlopen", "framework", "resolve")
CreateDevice  == Acquire("device", "device", "start")

\* The required symbols; the optional ones may be missing.
Resolve ==
  /\ pc = "resolve"
  /\ Goto("device")
  /\ UNCHANGED <<callerVars, held, started, file>>

\* A fault: a symbol that is missing leaves the framework loaded.
GivesBackLess(from) ==
  {r \in {"memory", "mutex"} :
     from # "allocate" /\ (r = "mutex" => from # "mutex")}

\* A fault: one exit for all failures.
GivesBackAll(from) == Resources

\* What the failure of a step gives back before it returns.
GivesBack(from) ==
  {r \in Resources :
     \/ r = "memory" /\ from \in {"mutex", "dlopen", "resolve", "device"}
     \/ r = "mutex" /\ from \in {"dlopen", "resolve", "device"}
     \/ r = "framework" /\ from \in {"resolve", "device"}}

CreateFails ==
  /\ pc \in {"allocate", "mutex", "dlopen", "resolve", "device"}
  /\ held' = [r \in Resources |->
               held[r] - IF r \in GivesBack(pc) THEN 1 ELSE 0]
  /\ Raise("BridgeError", "handle")
  /\ UNCHANGED <<callerVars, started, file>>

-------------------------------------------------------------------------------
\* The rule of the start options in the binding.
MayStart == InRegister(Options) /\ (Options # 0 => Allowed)

\* The sensor's start; the callback may not be registered, or the device, asked
\* to start, may refuse, and control-C may come before either is reported.
Start ==
  /\ pc = "start"
  /\ \/ ~ MayStart /\ Raise("ValueError", "close") /\ UNCHANGED started
     \/ /\ MayStart
        /\ \/ /\ \E e \in {"BridgeError", "KeyboardInterrupt"} :
                   Raise(e, "close")
              /\ started' \in BOOLEAN
           \/ Goto("stages") /\ started' = TRUE
  /\ UNCHANGED <<callerVars, held, file>>

\* int(remaining + 0.999) in the countdown of a guided stage.
CountdownRaises ==
  IF arguments.lead_in = "NaN" THEN "ValueError"
  ELSE IF arguments.lead_in = "infinity" THEN "OverflowError" ELSE "none"

\* The operator is asked to confirm each stage, and may have gone away.
GoThroughStages ==
  /\ pc = "stages"
  /\ \/ Raise(IF entry = "main" /\ arguments.guided THEN CountdownRaises
              ELSE "none", "close")
     \/ entry = "main" /\ arguments.confirm_stages /\ Raise("EOFError", "close")
  /\ UNCHANGED <<callerVars, held, started, file>>

\* run's finally, or the application's with: the native destroy refuses to
\* free a capture that it could not stop.
Close ==
  /\ pc = "close"
  /\ \/ held' = Nothing /\ Goto(IF error = "none" THEN "succeed" ELSE "handle")
     \/ started /\ UNCHANGED held /\ Raise("BridgeError", "handle")
  /\ UNCHANGED <<callerVars, started, file>>

Succeed ==
  /\ pc = "succeed"
  /\ file' = IF entry = "main" THEN "evidence" ELSE file
  /\ Goto("ended")
  /\ UNCHANGED <<callerVars, held, started>>

\* main's except; an application gets the exception.
Handle ==
  /\ pc = "handle"
  /\ file' = IF entry = "main" /\ error \in Caught THEN "failure" ELSE file
  /\ Goto("ended")
  /\ UNCHANGED <<callerVars, held, started>>

\* Control-C, outside the native calls, which nothing interrupts.  Between the
\* constructor's return and the try, or the with, nobody has taken charge of the
\* capture yet; in the finally, the call of close is missed.
Interrupt ==
  /\ pc \in {"validate", "gate", "require", "library", "start", "stages",
             "close", "succeed"}
  /\ \/ pc # "stages" /\ Raise("KeyboardInterrupt", "handle")
     \/ pc \in {"start", "stages"} /\ Raise("KeyboardInterrupt", "close")
  /\ UNCHANGED <<callerVars, held, started, file>>

Next ==
  \/ Validate \/ FingerprintFails \/ Gate \/ LoadLibrary
  \/ Allocate \/ InitMutex \/ LoadFramework \/ Resolve \/ CreateDevice
  \/ CreateFails \/ Start \/ GoThroughStages \/ Close \/ Succeed \/ Handle
  \/ Interrupt

Spec == Init /\ [][Next]_vars

-------------------------------------------------------------------------------
\* However the framework is reached, by the diagnostic or by an application of
\* its own: without the override it is not even loaded on a host that is not
\* the verified one in every field, and started with no option but 0; with it,
\* with none that the register cannot hold ("so a future Python application
\* cannot silently bypass it", README.md:55).
NothingUnverifiedRuns ==
  /\ ~ Allowed =>
       /\ Holds("framework") => \A f \in DOMAIN host : host[f] = "verified"
       /\ started => Options = 0
  /\ started => InRegister(Options)

\* A constructor that raises keeps nothing, at whichever step of the create it
\* failed, and a started run that ends well has given everything back; nothing
\* is held without what it depends on.  An interrupt may come when nobody would
\* close the capture: the steps that fail are what this is about.
NothingLeaks ==
  /\ pc = "ended" /\ ~ started /\ error # "KeyboardInterrupt" => held = Nothing
  /\ pc = "ended" /\ error = "none" => held = Nothing
  /\ Holds("device") => \A r \in Resources : Holds(r)
  /\ Holds("framework") => Holds("memory") /\ Holds("mutex")

\* README.md:87, of a framework, device, registration, start or cleanup step
\* that fails: "--json-out receives a failure record rather than silently
\* losing the experiment".
FailureIsRecorded ==
  pc = "ended" /\ entry = "main" /\ error # "none" => file = "failure"
===============================================================================
