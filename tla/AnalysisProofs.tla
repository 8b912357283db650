---------------------------- MODULE AnalysisProofs ----------------------------
(***************************************************************************)
(* What analyze_stage reports of the order of any list of frames, of any   *)
(* length and over any values.                                             *)
(***************************************************************************)
EXTENDS StageAnalysis, TLAPS

\* Before the first frame nothing is counted.
Untouched ==
  samples = <<>> =>
    /\ tally["duplicate"] = 0 /\ tally["regressing"] = 0
    /\ tally["forward"] = 0
    /\ tally["skipped"] = 0 /\ tally["lost"] = 0

IInv == TypeOK /\ Untouched /\ SkippedAreLost /\ FrameIdsAddUp

\* The ids and numbers of a frame can be subtracted.
LEMMA SampleFields ==
  ASSUME NEW s \in Samples
  PROVE  s.frame \in Nat /\ s.number \in Nat
<1>1. s.frame \in FrameIds /\ s.number \in Numbers
  BY DEF Samples
<1> QED  BY <1>1, AnalysisAssumption DEF AnalysisAssumption

\* What the frame ids of a pair add to the fields of the tally,
LEMMA FrameStepFields ==
  ASSUME NEW c \in Tallies, NEW d \in Int
  PROVE  LET t == FrameStep(d, c)
         IN /\ t \in Tallies
            /\ t["duplicate"] = c["duplicate"] + (IF d = 0 THEN 1 ELSE 0)
            /\ t["regressing"] = c["regressing"] + (IF d < 0 THEN 1 ELSE 0)
            /\ t["forward"] = c["forward"] + (IF d > 0 THEN 1 ELSE 0)
            /\ t["skipped"] = c["skipped"] + Beyond(d)
            /\ t["lost"] = c["lost"]
<1>1. /\ One(d = 0) = (IF d = 0 THEN 1 ELSE 0)
      /\ One(d < 0) = (IF d < 0 THEN 1 ELSE 0)
      /\ One(d > 0) = (IF d > 0 THEN 1 ELSE 0)
      /\ One(d > 1) \in Nat /\ Beyond(d) \in Nat
  BY DEF One, Beyond
<1> DEFINE t == FrameStep(d, c)
<1>2. /\ t["duplicate"] = c["duplicate"] + (IF d = 0 THEN 1 ELSE 0)
      /\ t["regressing"] = c["regressing"] + (IF d < 0 THEN 1 ELSE 0)
      /\ t["forward"] = c["forward"] + (IF d > 0 THEN 1 ELSE 0)
      /\ t["skipped"] = c["skipped"] + Beyond(d)
      /\ t["lost"] = c["lost"]
  BY <1>1 DEF FrameStep, Tallies, Kinds
<1>4. t \in Tallies
  BY <1>1 DEF FrameStep, Tallies, Kinds
<1> QED  BY <1>2, <1>4

\* what its sequence numbers add,
LEMMA NumberStepFields ==
  ASSUME NEW c \in Tallies, NEW d \in Int
  PROVE  LET t == NumberStep(d, c)
         IN /\ t \in Tallies
            /\ t["duplicate"] = c["duplicate"]
            /\ t["regressing"] = c["regressing"]
            /\ t["forward"] = c["forward"] /\ t["skipped"] = c["skipped"]
            /\ t["lost"] = c["lost"] + Beyond(d)
<1>1. One(d > 1) \in Nat /\ Beyond(d) \in Nat
  BY DEF One, Beyond
<1> QED  BY <1>1 DEF NumberStep, Tallies, Kinds

\* that its timestamps add nothing to these fields,
LEMMA TimeStepFields ==
  ASSUME NEW c \in Tallies, NEW p, NEW s
  PROVE  LET t == TimeStep(p, s, c)
         IN /\ t \in Tallies
            /\ t["duplicate"] = c["duplicate"]
            /\ t["regressing"] = c["regressing"]
            /\ t["forward"] = c["forward"] /\ t["skipped"] = c["skipped"]
            /\ t["lost"] = c["lost"]
<1>1. One(Earlier(s.time, p.time)) \in Nat
  BY DEF One
<1> QED  BY <1>1 DEF TimeStep, Tallies, Kinds

\* and what all of them add together.
LEMMA PairStepFields ==
  ASSUME NEW c \in Tallies, NEW p \in Samples, NEW s \in Samples
  PROVE  /\ PairStep(p, s, c) \in Tallies
         /\ PairStep(p, s, c)["duplicate"] =
              c["duplicate"] + (IF s.frame - p.frame = 0 THEN 1 ELSE 0)
         /\ PairStep(p, s, c)["regressing"] =
              c["regressing"] + (IF s.frame - p.frame < 0 THEN 1 ELSE 0)
         /\ PairStep(p, s, c)["forward"] =
              c["forward"] + (IF s.frame - p.frame > 0 THEN 1 ELSE 0)
         /\ PairStep(p, s, c)["skipped"] =
              c["skipped"] + Beyond(s.frame - p.frame)
         /\ PairStep(p, s, c)["lost"] =
              c["lost"] + Beyond(s.number - p.number)
<1> DEFINE f == s.frame - p.frame
           n == s.number - p.number
           a == FrameStep(f, c)
           b == NumberStep(n, a)
<1>1. f \in Int /\ n \in Int
  BY SampleFields
<1>2. PairStep(p, s, c) = TimeStep(p, s, b)
  BY DEF PairStep
<1> HIDE DEF f, n
<1>3. /\ a \in Tallies
      /\ a["duplicate"] = c["duplicate"] + (IF f = 0 THEN 1 ELSE 0)
      /\ a["regressing"] = c["regressing"] + (IF f < 0 THEN 1 ELSE 0)
      /\ a["forward"] = c["forward"] + (IF f > 0 THEN 1 ELSE 0)
      /\ a["skipped"] = c["skipped"] + Beyond(f)
      /\ a["lost"] = c["lost"]
  BY <1>1, FrameStepFields
<1> HIDE DEF a
<1>4. /\ b \in Tallies
      /\ b["duplicate"] = a["duplicate"] /\ b["regressing"] = a["regressing"]
      /\ b["forward"] = a["forward"] /\ b["skipped"] = a["skipped"]
      /\ b["lost"] = a["lost"] + Beyond(n)
  BY <1>1, <1>3, NumberStepFields
<1> HIDE DEF b
<1>5. LET t == TimeStep(p, s, b)
      IN /\ t \in Tallies
         /\ t["duplicate"] = b["duplicate"]
         /\ t["regressing"] = b["regressing"]
         /\ t["forward"] = b["forward"] /\ t["skipped"] = b["skipped"]
         /\ t["lost"] = b["lost"]
  BY <1>4, TimeStepFields
<1> QED  BY <1>2, <1>3, <1>4, <1>5 DEF f, n

\* The first frame is still to come,
LEMMA Initially == Init => IInv
  BY AnalysisAssumption
  DEF AnalysisAssumption, Init, IInv, TypeOK, Untouched, SkippedAreLost,
     FrameIdsAddUp, Tallies, Kinds

\* and one more frame keeps what was said of those before it.
LEMMA Inductive == IInv /\ [Next]_vars => IInv'
<1> SUFFICES ASSUME IInv, [Next]_vars PROVE IInv'
  OBVIOUS
<1>1. CASE UNCHANGED vars
  BY <1>1 DEF IInv, TypeOK, Untouched, SkippedAreLost, FrameIdsAddUp,
     InCallbackOrder, vars
<1>2. ASSUME NEW s \in Samples, Take(s) PROVE IInv'
  <2> DEFINE m == Len(samples)
             p == samples[m]
             c == [tally EXCEPT !["non_finite"] = @ + One(s.time \notin Times)]
  <2>1. /\ samples \in Seq(Samples) /\ m \in Nat /\ m < MaxSamples
        /\ samples' = Append(samples, s)
    BY <1>2 DEF IInv, TypeOK, Take
  <2>2. /\ c \in Tallies
        /\ c["duplicate"] = tally["duplicate"]
        /\ c["regressing"] = tally["regressing"]
        /\ c["forward"] = tally["forward"] /\ c["skipped"] = tally["skipped"]
        /\ c["lost"] = tally["lost"]
    BY DEF IInv, TypeOK, Tallies, Kinds, One
  <2>3. tally' = IF samples = <<>> THEN c ELSE PairStep(p, s, c)
    BY <1>2 DEF Take
  <2>4. /\ samples' \in Seq(Samples) /\ Len(samples') = m + 1
        /\ samples'[m + 1] = s
        /\ \A i \in 1 .. m : samples'[i] = samples[i]
        /\ samples' # <<>>
    BY <2>1
  <2>5. Len(samples') <= MaxSamples
    BY <2>1, <2>4, AnalysisAssumption DEF AnalysisAssumption
  <2> HIDE DEF c
  <2>6. s.frame \in Nat /\ s.number \in Nat
    BY SampleFields
  <2>7. CASE samples = <<>>
    <3>1. m = 0 /\ samples'[1] = s /\ tally' = c
      BY <2>1, <2>3, <2>4, <2>7
    <3>2. c["duplicate"] = 0 /\ c["regressing"] = 0 /\ c["forward"] = 0
          /\ c["skipped"] = 0 /\ c["lost"] = 0
      BY <2>2, <2>7 DEF IInv, Untouched
    <3> QED  BY <3>1, <3>2, <2>2, <2>4, <2>5, <2>6
             DEF IInv, TypeOK, Untouched, SkippedAreLost, FrameIdsAddUp
  <2>8. CASE samples # <<>>
    <3>1. /\ m >= 1 /\ p \in Samples /\ samples[1] \in Samples
          /\ samples'[1] = samples[1] /\ samples'[m] = p
      BY <2>1, <2>4, <2>8
    <3>2. /\ p.frame \in Nat /\ p.number \in Nat
          /\ samples[1].frame \in Nat /\ samples[1].number \in Nat
      BY <3>1, SampleFields
    <3> HIDE DEF p
    <3>3. tally' = PairStep(p, s, c)
      BY <2>3, <2>8
    <3>4. /\ PairStep(p, s, c) \in Tallies
          /\ PairStep(p, s, c)["duplicate"] =
               c["duplicate"] + (IF s.frame - p.frame = 0 THEN 1 ELSE 0)
          /\ PairStep(p, s, c)["regressing"] =
               c["regressing"] + (IF s.frame - p.frame < 0 THEN 1 ELSE 0)
          /\ PairStep(p, s, c)["forward"] =
               c["forward"] + (IF s.frame - p.frame > 0 THEN 1 ELSE 0)
          /\ PairStep(p, s, c)["skipped"] =
               c["skipped"] + Beyond(s.frame - p.frame)
          /\ PairStep(p, s, c)["lost"] =
               c["lost"] + Beyond(s.number - p.number)
      BY <2>2, <3>1, PairStepFields
    <3>5. tally' \in Tallies
      BY <2>2, <3>4, <3>3, Zenon
    <3>6. tally'["duplicate"] =
            tally["duplicate"] + (IF s.frame - p.frame = 0 THEN 1 ELSE 0)
      BY <2>2, <3>4, <3>3, Zenon
    <3>7. tally'["regressing"] =
            tally["regressing"] + (IF s.frame - p.frame < 0 THEN 1 ELSE 0)
      BY <2>2, <3>4, <3>3, Zenon
    <3>8. tally'["forward"] =
            tally["forward"] + (IF s.frame - p.frame > 0 THEN 1 ELSE 0)
      BY <2>2, <3>4, <3>3, Zenon
    <3>9. tally'["skipped"] = tally["skipped"] + Beyond(s.frame - p.frame)
      BY <2>2, <3>4, <3>3, Zenon
    <3>10. tally'["lost"] = tally["lost"] + Beyond(s.number - p.number)
      BY <2>2, <3>4, <3>3, Zenon
    <3>11. m \in Nat
      BY <2>1
    <3>12. /\ tally["duplicate"] \in Nat /\ tally["regressing"] \in Nat
          /\ tally["forward"] \in Nat /\ tally["skipped"] \in Nat
          /\ tally["lost"] \in Nat
      BY DEF IInv, TypeOK, Tallies, Kinds
    <3>13. TypeOK' /\ Untouched'
      BY <2>4, <2>5, <3>5 DEF TypeOK, Untouched
    <3>14. SkippedAreLost'
      <4> SUFFICES ASSUME InCallbackOrder'
                   PROVE  tally'["lost"] = s.number - samples[1].number + 1
                                        - (m + 1)
        BY <2>4, <3>1 DEF SkippedAreLost
      <4>1. p.number < s.number
        BY <2>1, <2>4, <3>1 DEF InCallbackOrder
      <4>2. InCallbackOrder
        BY <2>1, <2>4 DEF InCallbackOrder
      <4>3. tally["lost"] = p.number - samples[1].number + 1 - m
        BY <2>8, <4>2 DEF IInv, SkippedAreLost, p
      <4>4. tally'["lost"] = tally["lost"] + (s.number - p.number - 1)
        BY <2>6, <3>2, <3>12, <3>10, <4>1 DEF Beyond
      <4> HIDE DEF m
      <4> QED  BY <2>6, <3>2, <3>12, <3>11, <4>3, <4>4
    <3>15. FrameIdsAddUp'
      <4>1. /\ tally["duplicate"] + tally["regressing"] + tally["forward"] =
                 m - 1
            /\ tally["regressing"] = 0 =>
                 tally["forward"] + tally["skipped"] =
                   p.frame - samples[1].frame
        BY <2>8 DEF IInv, FrameIdsAddUp, p
      <4>2. tally'["duplicate"] + tally'["regressing"] + tally'["forward"] =
              tally["duplicate"] + tally["regressing"] + tally["forward"] + 1
        BY <2>6, <3>2, <3>12, <3>6, <3>7, <3>8
      <4>3. tally'["regressing"] = 0 =>
              /\ tally["regressing"] = 0
              /\ tally'["forward"] + tally'["skipped"] =
                   tally["forward"] + tally["skipped"] + (s.frame - p.frame)
        <5>1. tally'["regressing"] = 0 =>
                tally["regressing"] = 0 /\ s.frame >= p.frame
          BY <2>6, <3>2, <3>12, <3>7
        <5>2. s.frame >= p.frame =>
                tally'["forward"] + tally'["skipped"] =
                  tally["forward"] + tally["skipped"] + (s.frame - p.frame)
          BY <2>6, <3>2, <3>12, <3>8, <3>9 DEF Beyond
        <5> QED  BY <5>1, <5>2
      <4> HIDE DEF m
      <4>4. tally'["duplicate"] + tally'["regressing"] + tally'["forward"] = m
        BY <3>12, <3>11, <4>1, <4>2
      <4>5. tally'["regressing"] = 0 =>
              tally'["forward"] + tally'["skipped"] =
                s.frame - samples[1].frame
        BY <2>6, <3>2, <3>12, <4>1, <4>3
      <4> USE DEF m
      <4> QED  BY <2>1, <2>4, <3>1, <4>4, <4>5 DEF FrameIdsAddUp
    <3> QED  BY <3>13, <3>14, <3>15 DEF IInv
  <2> QED  BY <2>7, <2>8
<1> QED  BY <1>1, <1>2 DEF Next

-------------------------------------------------------------------------------
(***************************************************************************)
(* The timestamps.                                                         *)
(***************************************************************************)

\* What a pair adds to the two counts of timestamps.
LEMMA PairStepTimes ==
  ASSUME NEW c \in Tallies, NEW p \in Samples, NEW s \in Samples
  PROVE  /\ PairStep(p, s, c)["backwards"] =
              c["backwards"] + One(Earlier(s.time, p.time))
         /\ PairStep(p, s, c)["non_finite"] = c["non_finite"]
<1> DEFINE f == s.frame - p.frame
           n == s.number - p.number
           a == FrameStep(f, c)
           b == NumberStep(n, a)
<1>1. /\ f \in Int /\ n \in Int
      /\ PairStep(p, s, c) = TimeStep(p, s, b)
  BY SampleFields DEF PairStep
<1> HIDE DEF f, n
<1>2. /\ a \in Tallies
      /\ a["backwards"] = c["backwards"]
      /\ a["non_finite"] = c["non_finite"]
  BY <1>1, FrameStepFields DEF FrameStep, Tallies, Kinds
<1> HIDE DEF a
<1>3. /\ b \in Tallies
      /\ b["backwards"] = a["backwards"]
      /\ b["non_finite"] = a["non_finite"]
  BY <1>1, <1>2, NumberStepFields DEF NumberStep, Tallies, Kinds
<1> HIDE DEF b
<1>4. /\ TimeStep(p, s, b)["backwards"] =
           b["backwards"] + One(Earlier(s.time, p.time))
      /\ TimeStep(p, s, b)["non_finite"] = b["non_finite"]
  BY <1>3 DEF TimeStep, Tallies, Kinds
<1> QED  BY <1>1, <1>2, <1>3, <1>4

\* The timestamps of a list are finite; are no NaN; and never decrease.
Finite(q)     == \A i \in 1 .. Len(q) : q[i].time \in Times
Comparable(q) == \A i \in 1 .. Len(q) : q[i].time # NaN
Ascending(q)  ==
  \A i, j \in 1 .. Len(q) : i < j => ~ Earlier(q[j].time, q[i].time)

\* Of timestamps that are no NaN, not being earlier is transitive.
LEMMA NotEarlierTransitive ==
  ASSUME NEW x \in Timestamps \ {NaN}, NEW y \in Timestamps \ {NaN},
         NEW z \in Timestamps \ {NaN}, ~ Earlier(y, x), ~ Earlier(z, y)
  PROVE  ~ Earlier(z, x)
  BY AnalysisAssumption DEF Earlier, Timestamps

\* One more frame keeps a list finite or comparable if it is; then it keeps
\* the list ascending if it is not earlier than the last.
LEMMA AscendingAppend ==
  ASSUME NEW q \in Seq(Samples), q # <<>>, NEW s \in Samples
  PROVE  /\ Finite(Append(q, s)) <=> Finite(q) /\ s.time \in Times
         /\ Comparable(Append(q, s)) <=> Comparable(q) /\ s.time # NaN
         /\ Comparable(Append(q, s)) =>
              (Ascending(Append(q, s)) <=>
                 Ascending(q) /\ ~ Earlier(s.time, q[Len(q)].time))
<1> DEFINE m == Len(q)
           r == Append(q, s)
<1>1. /\ m \in Nat /\ m >= 1 /\ Len(r) = m + 1 /\ r[m + 1] = s
      /\ \A i \in 1 .. m : r[i] = q[i]
  OBVIOUS
<1>2. \A i \in 1 .. m : q[i].time \in Timestamps
  <2>1. \A i \in 1 .. m : q[i] \in Samples
    OBVIOUS
  <2> QED
    BY <2>1 DEF Samples
<1>3. s.time \in Timestamps
  BY DEF Samples
<1> HIDE DEF m, r
<1>4. Finite(r) <=> Finite(q) /\ s.time \in Times
  BY <1>1 DEF Finite, m
<1>5. Comparable(r) <=> Comparable(q) /\ s.time # NaN
  BY <1>1 DEF Comparable, m
<1>6. ASSUME Ascending(r)
      PROVE  Ascending(q) /\ ~ Earlier(s.time, q[m].time)
  <2>1. \A i, j \in 1 .. m : i < j => ~ Earlier(q[j].time, q[i].time)
    BY <1>1, <1>6 DEF Ascending
  <2>2. m \in 1 .. m + 1 /\ m + 1 \in 1 .. m + 1 /\ m < m + 1
    BY <1>1
  <2>3. ~ Earlier(r[m + 1].time, r[m].time)
    BY <1>1, <1>6, <2>2 DEF Ascending
  <2> QED
    BY <1>1, <2>1, <2>3 DEF Ascending, m
<1>7. ASSUME Comparable(r), Ascending(q), ~ Earlier(s.time, q[m].time)
      PROVE  Ascending(r)
  <2>1. \A i \in 1 .. m : q[i].time \in Timestamps \ {NaN}
    BY <1>2, <1>5, <1>7 DEF Comparable, m
  <2>2. s.time \in Timestamps \ {NaN}
    BY <1>3, <1>5, <1>7
  <2>3. ASSUME NEW i \in 1 .. m
        PROVE  ~ Earlier(s.time, q[i].time)
    <3>1. CASE i = m
      BY <1>7, <3>1
    <3>2. CASE i # m
      <4>1. ~ Earlier(q[m].time, q[i].time)
        BY <1>1, <1>7, <3>2 DEF Ascending, m
      <4>2. q[m].time \in Timestamps \ {NaN}
        BY <1>1, <2>1
      <4> QED
        BY <1>7, <2>1, <2>2, <4>1, <4>2, NotEarlierTransitive
    <3> QED
      BY <3>1, <3>2
  <2>4. ASSUME NEW i \in 1 .. m + 1, NEW j \in 1 .. m + 1, i < j
        PROVE  ~ Earlier(r[j].time, r[i].time)
    <3>1. CASE j = m + 1
      BY <1>1, <2>3, <2>4, <3>1
    <3>2. CASE j # m + 1
      <4>1. i \in 1 .. m /\ j \in 1 .. m
        BY <1>1, <2>4, <3>2
      <4> QED
        BY <1>1, <1>7, <2>4, <4>1 DEF Ascending, m
    <3> QED
      BY <3>1, <3>2
  <2> QED
    BY <1>1, <2>4 DEF Ascending
<1> QED
  BY <1>4, <1>5, <1>6, <1>7 DEF m, r

\* One more frame keeps the verdict on the timestamps right.
LEMMA TimesStep ==
  ASSUME TypeOK, TimesAreOrdered, NEW s \in Samples, Take(s)
  PROVE  TimesAreOrdered'
<1> DEFINE p == samples[Len(samples)]
           c == [tally EXCEPT !["non_finite"] = @ + One(s.time \notin Times)]
<1>1. /\ samples \in Seq(Samples) /\ samples' = Append(samples, s)
      /\ tally' = IF samples = <<>> THEN c ELSE PairStep(p, s, c)
  BY DEF TypeOK, Take
<1>2. /\ c \in Tallies /\ c["backwards"] = tally["backwards"]
      /\ c["non_finite"] = tally["non_finite"] + One(s.time \notin Times)
      /\ tally["backwards"] \in Nat /\ tally["non_finite"] \in Nat
  BY DEF TypeOK, Tallies, Kinds, One
<1>3. /\ tally["non_finite"] = 0 <=> Finite(samples)
      /\ Comparable(samples) => (tally["backwards"] = 0 <=> Ascending(samples))
  BY DEF TimesAreOrdered, Finite, Comparable, Ascending
<1> HIDE DEF c
<1>4. /\ tally'["non_finite"] = 0 <=> Finite(samples')
      /\ Comparable(samples') =>
           (tally'["backwards"] = 0 <=> Ascending(samples'))
  <2>1. CASE samples = <<>>
    <3>1. /\ Len(samples) = 0 /\ Len(samples') = 1 /\ samples'[1] = s
      BY <1>1, <2>1
    <3>2. /\ Finite(samples) /\ Comparable(samples) /\ Ascending(samples)
          /\ Ascending(samples') /\ (Finite(samples') <=> s.time \in Times)
      BY <3>1 DEF Finite, Comparable, Ascending
    <3>3. /\ tally'["backwards"] = 0
          /\ tally'["non_finite"] = One(s.time \notin Times)
      <4>1. tally' = c
        BY <1>1, <2>1
      <4>2. tally["backwards"] = 0 /\ tally["non_finite"] = 0
        BY <1>3, <3>2
      <4>3. c["backwards"] = 0 /\ c["non_finite"] = One(s.time \notin Times)
        BY <1>2, <4>2 DEF One
      <4> QED
        BY <4>1, <4>3, Zenon
    <3> QED
      BY <3>2, <3>3 DEF One
  <2>2. CASE samples # <<>>
    <3>1. p \in Samples
      BY <1>1, <2>2
    <3>2. tally' = PairStep(p, s, c)
      BY <1>1, <2>2
    <3>3. /\ PairStep(p, s, c)["backwards"] =
               c["backwards"] + One(Earlier(s.time, p.time))
          /\ PairStep(p, s, c)["non_finite"] = c["non_finite"]
      BY <1>2, <3>1, PairStepTimes
    <3>4. /\ tally'["backwards"] =
               tally["backwards"] + One(Earlier(s.time, p.time))
          /\ tally'["non_finite"] =
               tally["non_finite"] + One(s.time \notin Times)
      BY <1>2, <3>2, <3>3, Zenon
    <3>5. /\ Finite(samples') <=> Finite(samples) /\ s.time \in Times
          /\ Comparable(samples') <=> Comparable(samples) /\ s.time # NaN
          /\ Comparable(samples') =>
               (Ascending(samples') <=>
                  Ascending(samples) /\ ~ Earlier(s.time, p.time))
      BY <1>1, <2>2, AscendingAppend
    <3> HIDE DEF p
    <3> QED
      BY <1>2, <1>3, <3>4, <3>5 DEF One
  <2> QED
    BY <2>1, <2>2
<1> QED
  BY <1>4 DEF TimesAreOrdered, Finite, Comparable, Ascending

-------------------------------------------------------------------------------
\* Types of the analysis.
THEOREM TypeCorrect == Spec => []TypeOK
<1>1. IInv => TypeOK
  BY DEF IInv
<1> QED  BY <1>1, Initially, Inductive, PTL DEF Spec

\* In callback order, the skipped sequence values are the callbacks lost
\* between the first frame and the last.
THEOREM SkippedAreLostHolds == Spec => []SkippedAreLost
<1>1. IInv => SkippedAreLost
  BY DEF IInv
<1> QED  BY <1>1, Initially, Inductive, PTL DEF Spec

\* Every pair of frames is one kind of step, and without a regression the
\* steps forward and the skipped ids lead from the first id to the last.
THEOREM FrameIdsAddUpHolds == Spec => []FrameIdsAddUp
<1>1. IInv => FrameIdsAddUp
  BY DEF IInv
<1> QED  BY <1>1, Initially, Inductive, PTL DEF Spec

\* A report counts a timestamp that is not finite whenever there is one, and,
\* unless one is NaN, its count of steps backwards vouches for every two frames
\* of the stage and not for neighbours only, infinite timestamps included.
THEOREM TimesAreOrderedHolds == Spec => []TimesAreOrdered
<1>1. Init => TimesAreOrdered
  BY DEF Init, TimesAreOrdered, Kinds
<1>2. IInv /\ TimesAreOrdered /\ [Next]_vars => TimesAreOrdered'
  BY TimesStep DEF IInv, Next, vars, TimesAreOrdered
<1> QED  BY <1>1, <1>2, Initially, Inductive, PTL DEF Spec
===============================================================================
