-------------------------- MODULE CaptureStatistics --------------------------
(***************************************************************************)
(* mt_phase1_capture_get_stats beside the native bridge: it loads one      *)
(* counter after the other, and takes queue_mutex for the last, while      *)
(* callbacks and the calls of other captures go on.  Its caller keeps the  *)
(* other calls of the same capture out.                                    *)
(***************************************************************************)
EXTENDS BridgeProperties

CONSTANT Readers   (* the captures whose owners read their statistics *)

ASSUME ReadersAssumption == Readers \subseteq Captures

VARIABLES
  reading,         (* the load that is next in each reader's get_stats      *)
  stats,           (* out_stats                                             *)
  (* What the properties remember. *)
  due,             (* own, when the last get_stats began                    *)
  own,             (* callbacks with the reader's refcon that have returned *)
                   (* since its counters were cleared                       *)
  all,             (* callbacks with any refcon that have returned since    *)
                   (* it was given its refcon                               *)
  taken            (* frames polled since its counters were cleared         *)

statsVars == <<reading, stats, due>>
memoryVars == <<own, all, taken>>
allVars == <<vars, statsVars, memoryVars>>

Statistics == {"callback", "enqueued", "overwrite", "contention", "late",
               "in_flight", "depth"}
NoStatistics == [f \in Statistics |-> 0]

Loads == <<"callback", "enqueued", "overwrite", "contention", "late",
           "rejected", "in_flight", "lock", "depth">>
HasReturned(c) == reading[c] = Len(Loads) + 1
IsReading(c)   == reading[c] \in 1 .. Len(Loads)
IsNext(c, load) == IsReading(c) /\ Loads[reading[c]] = load

StatsInit ==
  /\ Init
  /\ reading = [c \in Readers |-> 0]
  /\ stats = [c \in Readers |-> NoStatistics]
  /\ due = [c \in Readers |-> 0] /\ own = [c \in Readers |-> 0]
  /\ all = [c \in Readers |-> 0] /\ taken = [c \in Readers |-> 0]

-------------------------------------------------------------------------------
\* The reader's counters are cleared, or its refcon is about to change.
Clears(c)  == /\ ctl[c] \in {"absent", "start_reset", "start_token"}
              /\ ctl'[c] # ctl[c]
Renews(c)  == context'[c] # context[c]
Returned   == {t \in Threads : cb[t] # "idle" /\ cb'[t] = "idle"}
Takes(c)   == ctl[c] = "poll" /\ ctl'[c] # "poll" /\ queue[c] # <<>>

Remember ==
  /\ own' = [c \in Readers |->
               IF Clears(c) THEN 0 ELSE own[c]
                 + Cardinality({t \in Returned : refcon[t] = context[c]})]
  /\ all' = [c \in Readers |->
               IF Renews(c) THEN 0 ELSE all[c] + Cardinality(Returned)]
  /\ taken' = [c \in Readers |->
                 IF Clears(c) THEN 0
                 ELSE taken[c] + IF Takes(c) THEN 1 ELSE 0]

\* A call on the capture makes what its statistics said history.
Forget(c) ==
  /\ reading' = [r \in Readers |-> IF r = c THEN 0 ELSE reading[r]]
  /\ stats' = [r \in Readers |-> IF r = c THEN NoStatistics ELSE stats[r]]
  /\ due' = [r \in Readers |-> IF r = c THEN 0 ELSE due[r]]

BridgeStep ==
  /\ \/ /\ \E t \in Threads : Deliver(t) \/ CallbackStep(t)
        /\ UNCHANGED statsVars
     \/ \E c \in Captures :
          /\ c \in Readers => ~ IsReading(c)
          /\ CallStep(c) \/ ControlStep(c)
          /\ Forget(c)
  /\ Remember

StatsCalled(c) ==
  /\ ctl[c] = "idle" /\ reading[c] = 0
  /\ reading' = [reading EXCEPT ![c] = 1]
  /\ due' = [due EXCEPT ![c] = own[c]]
  /\ UNCHANGED <<vars, stats, memoryVars>>

Store(c, f, n) ==
  /\ stats' = [stats EXCEPT ![c][f] = n]
  /\ reading' = [reading EXCEPT ![c] = @ + 1]
  /\ UNCHANGED <<due, memoryVars>>

LoadCounter(c) ==
  /\ \E f \in {"callback", "enqueued", "overwrite", "contention", "late"} :
       IsNext(c, f) /\ Store(c, f, count[c][f])
  /\ UNCHANGED vars

\* A fault: the rejections are left out.
LateAlone(c) == stats[c]["late"]
LateInAll(c) == stats[c]["late"] + (gRejected - baseline[c])

LoadRejected(c) ==
  /\ IsNext(c, "rejected")
  /\ Store(c, "late", LateInAll(c))
  /\ UNCHANGED vars

LoadInFlight(c) ==
  /\ IsNext(c, "in_flight")
  /\ Store(c, "in_flight", in_flight[c])
  /\ UNCHANGED vars

\* While the depth is read a callback finds the queue locked, and drops its
\* frame.
LockDepth(c) ==
  /\ IsNext(c, "lock")
  /\ queue_mutex[c] = None
  /\ queue_mutex' = [queue_mutex EXCEPT ![c] = c]
  /\ reading' = [reading EXCEPT ![c] = @ + 1]
  /\ UNCHANGED <<lifecycleVars, gateVars, in_flight, count, queue,
                 callbackVars, stats, due, memoryVars>>

LoadDepth(c) ==
  /\ IsNext(c, "depth")
  /\ Store(c, "depth", Len(queue[c]))
  /\ queue_mutex' = [queue_mutex EXCEPT ![c] = None]
  /\ UNCHANGED <<lifecycleVars, gateVars, in_flight, count, queue,
                 callbackVars>>

StatsStep(c) ==
  \/ StatsCalled(c) \/ LoadCounter(c) \/ LoadRejected(c)
  \/ LoadInFlight(c) \/ LockDepth(c) \/ LoadDepth(c)

StatsNext == BridgeStep \/ \E c \in Readers : StatsStep(c)

StatsSpec == StatsInit /\ [][StatsNext]_allVars

-------------------------------------------------------------------------------
\* No callback of a session disappears from its statistics: one that returned
\* before get_stats began is among those it reports, as a callback or, when it
\* met the gate shut, or its mutex held by the call of some other capture, as a
\* late one; it is in native_drop_count in neither case (mt_phase1.c:262).
NoCallbackUnreported ==
  \A c \in Readers : HasReturned(c) =>
    due[c] <= stats[c]["callback"] + stats[c]["late"]

\* The count of rejections is the process's, not the session's, so that of
\* other sessions' callbacks some are charged to this one; but never one that
\* had returned before this session began (mt_phase1.c:570, 832).  A capture
\* that was never started has no session, and is charged with all of them.
NothingOlderIsCharged ==
  \A c \in Readers : HasReturned(c) /\ context[c] # NoContext =>
    stats[c]["callback"] + stats[c]["late"]
      <= all[c] + Cardinality({t \in Threads : cb[t] # "idle"})

\* Read while the session runs, the statistics need not fit each other; read
\* when nothing can reach the capture they are one account of its last session:
\* each callback was queued or dropped for contention, and what was queued and
\* neither overwritten nor polled is still there.
SettledStatisticsAddUp ==
  \A c \in Readers : HasReturned(c) /\ gActive # c =>
    /\ stats[c]["callback"] = stats[c]["enqueued"] + stats[c]["contention"]
    /\ stats[c]["depth"] =
         stats[c]["enqueued"] - stats[c]["overwrite"] - taken[c]
    /\ stats[c]["in_flight"] = 0
===============================================================================
