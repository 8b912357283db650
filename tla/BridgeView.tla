------------------------------ MODULE BridgeView ------------------------------
(***************************************************************************)
(* Each capture of the native bridge is what CaptureView says its owner    *)
(* can tell of it.  The models of the Python code, which are built on that *)
(* view, thereby rest on the bridge's locks and counters.                  *)
(***************************************************************************)
EXTENDS BridgeProperties

\* Where a callback is in the view, and how many are there.
PlaceOf == [admitted |-> {"admitted"}, accepted |-> {"accepted"},
            numbered |-> Numbered, leaving |-> {"finish"}]
At(c, p)   == {t \in Inside(c) : cb[t] \in PlaceOf[p]}
HowMany(c) == [p \in DOMAIN PlaceOf |-> Cardinality(At(c, p))]

\* The counters of the view.
CountsOf(c) == [f \in {"callback", "overwrite", "contention"} |-> count[c][f]]

View(c) == INSTANCE CaptureView
  WITH live <- ctl[c] # "absent",
       running <- running[c], registered <- registered[c],
       accepting <- accepting[c],
       inside <- HowMany(c), counts <- CountsOf(c), queue <- queue[c]

\* The frames that can come up within the bound.
FramesInBound == [sequence : 1 .. MaxCallbacks, refcon : Contexts]

\* A step of the view of c, or none.
ViewStep(c) ==
  UNCHANGED View(c)!viewVars \/ View(c)!ViewNext(FramesInBound)

\* Whatever the other captures and their cleanup do, a capture goes through
\* its session in order: it opens once, it is emptied and counted from zero
\* only with no callback in it, and it is freed only when it is down and left.
ImplementsView ==
  /\ \A c \in Captures : View(c)!ViewInit
  /\ [][\A c \in Captures : ViewStep(c)]_vars
===============================================================================
