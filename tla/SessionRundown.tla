---------------------------- MODULE SessionRundown ----------------------------
(***************************************************************************)
(* What the native bridge promises of a capture session, without its locks *)
(* and counters.  One capture at a time has a session.  The session opens  *)
(* once; while it is open callbacks enter the capture it belongs to; once  *)
(* it is shut none enters, and only when the last one has left is the      *)
(* session over.  A capture may be freed only while it has no session.     *)
(***************************************************************************)
CONSTANTS Captures, Threads, None

VARIABLES
  live,     (* the captures that are allocated          *)
  owner,    (* the capture that has the session         *)
  phase,    (* how far the session has come             *)
  inside    (* the capture each callback is inside      *)

vars == <<live, owner, phase, inside>>

Init ==
  /\ live = {} /\ owner = None /\ phase = "vacant"
  /\ inside = [t \in Threads |-> None]

Allocate(c) ==
  /\ c \notin live
  /\ live' = live \cup {c}
  /\ UNCHANGED <<owner, phase, inside>>

Claim(c) ==
  /\ phase = "vacant" /\ c \in live
  /\ owner' = c /\ phase' = "claimed"
  /\ UNCHANGED <<live, inside>>

Open ==
  /\ phase = "claimed"
  /\ phase' = "open"
  /\ UNCHANGED <<live, owner, inside>>

Enter(t) ==
  /\ phase = "open" /\ inside[t] = None
  /\ inside' = [inside EXCEPT ![t] = owner]
  /\ UNCHANGED <<live, owner, phase>>

Leave(t) ==
  /\ inside[t] # None
  /\ inside' = [inside EXCEPT ![t] = None]
  /\ UNCHANGED <<live, owner, phase>>

Shut ==
  /\ phase = "open"
  /\ phase' = "shut"
  /\ UNCHANGED <<live, owner, inside>>

Release ==
  /\ phase = "shut"
  /\ \A t \in Threads : inside[t] = None
  /\ owner' = None /\ phase' = "vacant"
  /\ UNCHANGED <<live, inside>>

Free(c) ==
  /\ c \in live /\ owner # c
  /\ live' = live \ {c}
  /\ UNCHANGED <<owner, phase, inside>>

Next ==
  \/ \E c \in Captures : Allocate(c) \/ Claim(c) \/ Free(c)
  \/ \E t \in Threads : Enter(t) \/ Leave(t)
  \/ Open \/ Shut \/ Release

Spec == Init /\ [][Next]_vars
===============================================================================
