---------------------------- MODULE StageAnalysis ----------------------------
(***************************************************************************)
(* analyze_stage of trackpad_scale/reliability.py: what a report says of   *)
(* the order of the frames it was given.  A step takes one more frame, in  *)
(* the order the probe recorded them, and does what the loop does with the *)
(* pair of it and its predecessor.  The histogram of touch counts and the  *)
(* rate of callbacks, which say nothing of order, are left out.            *)
(***************************************************************************)
EXTENDS Integers, Sequences

CONSTANTS
  FrameIds,        (* values of raw_frame_register                          *)
  Numbers,         (* values of sequence                                    *)
  Times,           (* finite values of device_timestamp                     *)
  NaN,             (* the timestamps that are not finite                    *)
  Infinity,
  MinusInfinity,
  MaxSamples       (* bound: frames in the list                             *)

ASSUME AnalysisAssumption ==
  /\ FrameIds \subseteq Nat /\ Numbers \subseteq Nat /\ Times \subseteq Int
  /\ NaN \notin Int
  /\ Infinity \notin Int \cup {NaN}
  /\ MinusInfinity \notin Int \cup {NaN, Infinity}
  /\ MaxSamples \in Nat

VARIABLES
  samples,
  tally            (* the local counters of analyze_stage                   *)

vars == <<samples, tally>>

Timestamps == Times \cup {NaN, Infinity, MinusInfinity}
Samples == [frame : FrameIds, number : Numbers, time : Timestamps]

Kinds == {"duplicate", "regressing", "forward", "non_unit", "skipped",
          "gaps", "lost", "backwards", "non_finite"}

Tallies == [Kinds -> Nat]

TypeOK ==
  /\ samples \in Seq(Samples) /\ Len(samples) <= MaxSamples
  /\ tally \in Tallies

Init ==
  /\ samples = <<>>
  /\ tally = [k \in Kinds |-> 0]

-------------------------------------------------------------------------------
One(test) == IF test THEN 1 ELSE 0
Beyond(d) == IF d > 1 THEN d - 1 ELSE 0

\* The comparison of floats: infinities compare like numbers beyond all
\* others, and no comparison with NaN is true.
Earlier(s, t) ==
  \/ s \in Times /\ t \in Times /\ s < t
  \/ s = MinusInfinity /\ t \in Times \cup {Infinity}
  \/ s \in Times /\ t = Infinity

\* A fault: a step backwards is taken for a wrap of the frame id.
RegressionIsForward(d, c) ==
  [c EXCEPT !["duplicate"] = @ + One(d = 0), !["forward"] = @ + One(d # 0),
            !["non_unit"] = @ + One(d > 1), !["skipped"] = @ + Beyond(d)]

\* What the frame ids of two frames in a row add; d is their difference.
FrameStep(d, c) ==
  [c EXCEPT !["duplicate"] = @ + One(d = 0), !["regressing"] = @ + One(d < 0),
            !["forward"] = @ + One(d > 0), !["non_unit"] = @ + One(d > 1),
            !["skipped"] = @ + Beyond(d)]

\* A fault: a gap is as wide as the step across it.
GapIsTheStep(d, c) ==
  [c EXCEPT !["gaps"] = @ + One(d > 1),
            !["lost"] = @ + (IF d > 1 THEN d ELSE 0)]

\* What their callback sequence numbers add; d is their difference.
NumberStep(d, c) ==
  [c EXCEPT !["gaps"] = @ + One(d > 1), !["lost"] = @ + Beyond(d)]

\* A fault: a frame is compared with the first one.
TimeStepFromFirst(p, s, c) ==
  [c EXCEPT !["backwards"] = @ + One(Earlier(s.time, samples[1].time))]

\* What their timestamps add.
TimeStep(p, s, c) ==
  [c EXCEPT !["backwards"] = @ + One(Earlier(s.time, p.time))]

PairStep(p, s, c) ==
  TimeStep(p, s, NumberStep(s.number - p.number,
                            FrameStep(s.frame - p.frame, c)))

Take(s) ==
  /\ Len(samples) < MaxSamples
  /\ samples' = Append(samples, s)
  /\ LET c == [tally EXCEPT !["non_finite"] = @ + One(s.time \notin Times)]
     IN tally' = IF samples = <<>> THEN c
                 ELSE PairStep(samples[Len(samples)], s, c)

Next == \E s \in Samples : Take(s)

Spec == Init /\ [][Next]_vars

-------------------------------------------------------------------------------
InCallbackOrder ==
  \A i \in 1 .. Len(samples) - 1 : samples[i].number < samples[i + 1].number

\* When the queue kept the callbacks' order, skipped_callback_sequence_values
\* is the number of callbacks between the first and the last frame whose frames
\* were lost (reliability.py:64-67).  A queue that two callbacks reach out of
\* order gives no such number.
SkippedAreLost ==
  InCallbackOrder /\ samples # <<>> =>
    tally["lost"] =
      samples[Len(samples)].number - samples[1].number + 1 - Len(samples)

\* The report counts a non-finite timestamp whenever there is one, and unless
\* one is NaN it counts no step backwards just when the timestamps never
\* decrease, infinite ones included, over the whole stage and not only from one
\* frame to the next.  A NaN, which compares with nothing, hides a decrease
\* across it (reliability.py:68).
TimesAreOrdered ==
  /\ tally["non_finite"] = 0 <=>
       \A i \in 1 .. Len(samples) : samples[i].time \in Times
  /\ (\A i \in 1 .. Len(samples) : samples[i].time # NaN) =>
       (tally["backwards"] = 0 <=>
          \A i, j \in 1 .. Len(samples) :
            i < j => ~ Earlier(samples[j].time, samples[i].time))

\* Every pair of frames is a duplicate, a regression or a step forward, and a
\* stage whose frame ids never regress has run through the ids from its first
\* to its last: each is a step forward or skipped (reliability.py:54-63).
FrameIdsAddUp ==
  samples # <<>> =>
    /\ tally["duplicate"] + tally["regressing"] + tally["forward"] =
         Len(samples) - 1
    /\ tally["regressing"] = 0 =>
         tally["forward"] + tally["skipped"] =
           samples[Len(samples)].frame - samples[1].frame
===============================================================================
