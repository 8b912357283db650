-------------------------- MODULE AcquisitionProofs --------------------------
(***************************************************************************)
(* What the gates and the native create guarantee, whichever step fails    *)
(* and however wide the register of the start options is.                  *)
(***************************************************************************)
EXTENDS Acquisition, TLAPS

\* Where the code holds which resource.
WithDevice    == {"start", "stages", "close"}
WithFramework == WithDevice \cup {"resolve", "device"}
WithMutex     == WithFramework \cup {"dlopen"}
WithMemory    == WithMutex \cup {"mutex"}

Holding(p) ==
  {r \in Resources :
     \/ r = "memory" /\ p \in WithMemory
     \/ r = "mutex" /\ p \in WithMutex
     \/ r = "framework" /\ p \in WithFramework
     \/ r = "device" /\ p \in WithDevice}

Ungated == {"validate", "gate", "require"}
Unbuilt == Ungated \cup {"library", "allocate", "mutex", "dlopen", "resolve",
                         "device"}
Over    == {"handle", "succeed", "ended"}

HeldAt(p, h) == h = [r \in Resources |-> IF r \in Holding(p) THEN 1 ELSE 0]

\* While it goes on the code holds what it has come by; in the end it has given
\* all of it back, unless a started device kept the close from doing so or an
\* interrupt came when nobody would close.
HeldInOrder ==
  /\ pc \notin Over => HeldAt(pc, held)
  /\ pc \in Over =>
       \/ held = Nothing
       \/ /\ error # "none" /\ (started \/ error = "KeyboardInterrupt")
          /\ held = [r \in Resources |-> 1]

\* Past the gate, and for good while anything is held or once the device was
\* started, the host matches or the override was given.
Gated ==
  /\ pc \notin Ungated \cup Over \/ started \/ held # Nothing
       => Matches \/ Allowed
  /\ pc \in Unbuilt \cup {"start"} => ~ started
  /\ started => MayStart

IInv == TypeOK /\ HeldInOrder /\ Gated

-------------------------------------------------------------------------------
\* The invariant holds at first,
LEMMA Initially == Init => IInv
<1> SUFFICES ASSUME Init PROVE IInv
  OBVIOUS
<1>1. pc \in {"validate", "require"}
  BY DEF Init
<1>2. TypeOK
  <2>1. held \in [Resources -> 0 .. 1]
    BY DEF Init, Nothing
  <2> QED  BY <1>1, <2>1 DEF Init, TypeOK, Errors, Caught
<1>3. HeldInOrder
  BY <1>1 DEF Init, HeldInOrder, HeldAt, Holding, WithDevice, WithFramework,
              WithMutex, WithMemory, Over, Nothing, Resources
<1>4. Gated
  BY <1>1 DEF Init, Gated, Ungated, Unbuilt, Over
<1> QED  BY <1>2, <1>3, <1>4 DEF IInv

\* No step changes who calls, and on which host.
LEMMA CallerStays ==
  ASSUME Next
  PROVE  UNCHANGED callerVars
  BY DEF Next, Validate, FingerprintFails, Gate, LoadLibrary, Acquire,
         Allocate, InitMutex, LoadFramework, Resolve, CreateDevice,
         CreateFails, Start, GoThroughStages, Close, Succeed, Handle, Interrupt

\* every step keeps the types,
LEMMA TypesStep == IInv /\ [Next]_vars => TypeOK'
<1> SUFFICES ASSUME IInv, [Next]_vars PROVE TypeOK'
  OBVIOUS
<1> USE DEF IInv, TypeOK, Goto, Raise, Errors, Caught
<1>1. CASE Validate
  BY <1>1 DEF Validate, callerVars
<1>2. CASE FingerprintFails
  BY <1>2 DEF FingerprintFails, callerVars
<1>3. CASE Gate
  BY <1>3 DEF Gate, callerVars
<1>4. CASE LoadLibrary
  BY <1>4 DEF LoadLibrary, callerVars
<1>5. ASSUME NEW from \in {"allocate", "mutex", "dlopen", "device"},
             NEW what \in Resources, what \notin Holding(from),
             NEW next \in {"mutex", "dlopen", "resolve", "start"},
             Acquire(from, what, next)
      PROVE  TypeOK'
  <2>1. held[what] = 0
    BY <1>5 DEF Acquire, HeldInOrder, HeldAt, Over
  <2> QED  BY <1>5, <2>1 DEF Acquire, callerVars
<1>6. CASE Allocate \/ InitMutex \/ LoadFramework \/ CreateDevice
  BY <1>5, <1>6 DEF Allocate, InitMutex, LoadFramework, CreateDevice, Holding,
                    WithDevice, WithFramework, WithMutex, WithMemory,
                    Resources
<1>7. CASE Resolve
  BY <1>7 DEF Resolve, callerVars
<1>8. CASE CreateFails
  <2>1. \A r \in GivesBack(pc) : r \in Resources => held[r] = 1
    BY <1>8 DEF CreateFails, GivesBack, HeldInOrder, HeldAt, Holding,
                WithDevice, WithFramework, WithMutex, WithMemory, Over
  <2>2. held' \in [Resources -> 0 .. 1]
    BY <1>8, <2>1 DEF CreateFails
  <2> QED  BY <1>8, <2>2 DEF CreateFails, callerVars
<1>9. CASE Start
  BY <1>9 DEF Start, callerVars
<1>10. CASE GoThroughStages
  BY <1>10 DEF GoThroughStages, CountdownRaises, callerVars
<1>11. CASE Close
  BY <1>11 DEF Close, Nothing, callerVars
<1>12. CASE Succeed
  BY <1>12 DEF Succeed, callerVars
<1>13. CASE Handle
  BY <1>13 DEF Handle, callerVars
<1>14. CASE Interrupt
  BY <1>14 DEF Interrupt, callerVars
<1>15. CASE UNCHANGED vars
  BY <1>15 DEF vars, callerVars
<1> QED
  BY <1>1, <1>2, <1>3, <1>4, <1>6, <1>7, <1>8, <1>9, <1>10, <1>11, <1>12,
     <1>13, <1>14, <1>15 DEF Next

\* the locks are taken and left in their order,
LEMMA HeldStep == IInv /\ [Next]_vars => HeldInOrder'
<1> SUFFICES ASSUME IInv, [Next]_vars PROVE HeldInOrder'
  OBVIOUS
<1> USE DEF IInv, TypeOK, Goto, Raise, HeldInOrder, HeldAt, Over
<1>1. CASE Validate \/ FingerprintFails \/ Gate \/ LoadLibrary
  BY <1>1 DEF Validate, FingerprintFails, Gate, LoadLibrary, Holding,
              WithDevice, WithFramework, WithMutex, WithMemory, Nothing
<1>2. CASE Allocate \/ InitMutex \/ LoadFramework \/ CreateDevice
  BY <1>2 DEF Allocate, InitMutex, LoadFramework, CreateDevice, Acquire,
              Holding, WithDevice, WithFramework, WithMutex, WithMemory,
              Resources
<1>3. CASE Resolve
  BY <1>3 DEF Resolve, Holding, WithDevice, WithFramework, WithMutex,
              WithMemory
<1>4. CASE CreateFails
  <2>1. GivesBack(pc) = Holding(pc)
    BY <1>4 DEF CreateFails, GivesBack, Holding, WithDevice, WithFramework,
                WithMutex, WithMemory
  <2>2. held' = Nothing
    BY <1>4, <2>1 DEF CreateFails, Nothing
  <2> QED  BY <1>4, <2>2 DEF CreateFails
<1>5. CASE Start \/ GoThroughStages
  BY <1>5 DEF Start, GoThroughStages, Holding, WithDevice, WithFramework,
              WithMutex, WithMemory
<1> DEFINE Everything == [r \in Resources |-> 1]
<1>0. pc \in WithDevice => held = Everything
  <2>1. pc \in WithDevice => \A r \in Resources : r \in Holding(pc)
    BY DEF Holding, Resources, WithDevice, WithFramework, WithMutex,
           WithMemory
  <2> QED  BY <2>1 DEF WithDevice
<1>6. CASE Close
  <2>1. held = Everything
    BY <1>0, <1>6 DEF Close, WithDevice
  <2>2. pc' \in Over
    BY <1>6 DEF Close
  <2>3. held' = Nothing \/ (started' /\ error' # "none" /\ held' = held)
    BY <1>6 DEF Close
  <2> QED  BY <2>1, <2>2, <2>3
<1>7. CASE Succeed \/ Handle
  BY <1>7 DEF Succeed, Handle
<1>8. CASE Interrupt
  <2>1. CASE pc \in {"validate", "gate", "require", "library", "succeed"}
    BY <1>8, <2>1 DEF Interrupt, Holding, WithDevice, WithFramework,
                      WithMutex, WithMemory, Nothing
  <2>2. CASE pc \in WithDevice
    BY <1>0, <1>8, <2>2 DEF Interrupt, Holding, WithDevice, WithFramework,
                            WithMutex, WithMemory
  <2> QED  BY <1>8, <2>1, <2>2 DEF Interrupt, WithDevice
<1>9. CASE UNCHANGED vars
  BY <1>9 DEF vars
<1> QED  BY <1>1, <1>2, <1>3, <1>4, <1>5, <1>6, <1>7, <1>8, <1>9 DEF Next

\* and nothing is allocated before the gate of the target profile,
LEMMA GatedStep == IInv /\ [Next]_vars => Gated'
<1> SUFFICES ASSUME IInv, [Next]_vars PROVE Gated'
  OBVIOUS
<1>1. UNCHANGED <<entry, arguments, host>>
  BY CallerStays DEF vars, callerVars
<1>2. /\ Matches' <=> Matches
      /\ Allowed' <=> Allowed
      /\ MayStart' <=> MayStart
  BY <1>1 DEF Matches, Allowed, MayStart, Options
<1> USE <1>2 DEF IInv, Gated, Goto, Raise, Ungated, Unbuilt, Over
<1>3. CASE Validate \/ FingerprintFails \/ Gate \/ LoadLibrary
  BY <1>3 DEF Validate, FingerprintFails, Gate, LoadLibrary
<1>4. CASE Allocate \/ InitMutex \/ LoadFramework \/ Resolve \/ CreateDevice
  BY <1>4 DEF Allocate, InitMutex, LoadFramework, Resolve, CreateDevice,
              Acquire
<1>5. CASE CreateFails
  BY <1>5 DEF CreateFails
<1>6. CASE Start \/ GoThroughStages
  BY <1>6 DEF Start, GoThroughStages
<1>7. CASE Close \/ Succeed \/ Handle \/ Interrupt
  BY <1>7 DEF Close, Succeed, Handle, Interrupt
<1>8. CASE UNCHANGED vars
  BY <1>8 DEF vars
<1> QED  BY <1>3, <1>4, <1>5, <1>6, <1>7, <1>8 DEF Next

\* so that all of it is invariant.
LEMMA Invariance == Spec => []IInv
<1>1. IInv /\ [Next]_vars => IInv'
  BY TypesStep, HeldStep, GatedStep DEF IInv
<1> QED  BY Initially, <1>1, PTL DEF Spec

-------------------------------------------------------------------------------
\* No resource is given back that is not held, or acquired twice, whichever
\* step of the create fails.
THEOREM TypeCorrect == Spec => []TypeOK
<1>1. IInv => TypeOK
  BY DEF IInv
<1> QED  BY Invariance, <1>1, PTL

\* The gates of run and of the binding: for every width of the register no
\* framework is loaded and no device started that they should have kept out.
THEOREM NothingUnverifiedRunsHolds == Spec => []NothingUnverifiedRuns
<1>1. IInv => NothingUnverifiedRuns
  <2> SUFFICES ASSUME IInv PROVE NothingUnverifiedRuns
    OBVIOUS
  <2>1. Holds("framework") => Matches \/ Allowed
    BY DEF IInv, HeldInOrder, HeldAt, Holding, WithDevice, WithFramework,
           WithMutex, WithMemory, Holds, Nothing, Gated, Over,
           Ungated, Resources
  <2>2. Matches => \A f \in DOMAIN host : host[f] = "verified"
    BY DEF IInv, TypeOK, Hosts, Matches, Profile
  <2> QED  BY <2>1, <2>2 DEF IInv, Gated, MayStart, NothingUnverifiedRuns
<1> QED  BY Invariance, <1>1, PTL

\* What a create that fails, a start that fails and a close that succeeds leave
\* behind: nothing.
THEOREM NothingLeaksHolds == Spec => []NothingLeaks
<1>1. IInv => NothingLeaks
  <2> SUFFICES ASSUME IInv PROVE NothingLeaks
    OBVIOUS
  <2>1. CASE pc \in Over
    BY <2>1 DEF IInv, HeldInOrder, Over, NothingLeaks, Holds, Nothing,
                Resources
  <2>2. CASE pc \notin Over
    BY <2>2 DEF IInv, HeldInOrder, HeldAt, Holding, WithDevice, WithFramework,
                WithMutex, WithMemory, Over, NothingLeaks, Holds,
                Resources
  <2> QED  BY <2>1, <2>2
<1> QED  BY Invariance, <1>1, PTL
===============================================================================
