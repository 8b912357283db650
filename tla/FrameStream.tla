----------------------------- MODULE FrameStream ------------------------------
(***************************************************************************)
(* What the frame queue of a capture promises, one operation at a time: a  *)
(* poll gives the oldest frame still kept, a callback is never refused for *)
(* want of room, and a restart starts from nothing.                        *)
(***************************************************************************)
EXTENDS FrameQueue

CONSTANTS Frames, NoFrame   (* NoFrame: a poll that found the queue empty *)

VARIABLES pending,  (* the frames kept, oldest first   *)
          out       (* what the last poll came back with *)

Init == pending = <<>> /\ out = NoFrame

Put(f) == pending' = Push(pending, f) /\ UNCHANGED out

Get ==
  /\ pending # <<>>
  /\ out' = Head(pending)
  /\ pending' = Tail(pending)

GetNone == pending = <<>> /\ out' = NoFrame /\ UNCHANGED pending

Clear == pending' = <<>> /\ UNCHANGED out

Next == (\E f \in Frames : Put(f)) \/ Get \/ GetNone \/ Clear

Spec == Init /\ [][Next]_<<pending, out>>
===============================================================================
