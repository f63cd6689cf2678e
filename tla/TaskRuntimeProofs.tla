-------------------------- MODULE TaskRuntimeProofs --------------------------
(***************************************************************************)
(* Theorems about entry and settlement in TaskRuntime, for any set of      *)
(* tasks, any dependencies and corrections, any number of workers, crashes *)
(* and failed calls.                                                       *)
(***************************************************************************)
EXTENDS TaskRuntimeTypeProofs

-----------------------------------------------------------------------------
(* Entry *)

(* The types that matter to entry and settlement. *)
LEMMA EntryTypes ==
    ASSUME TypeOK
    PROVE  /\ state \in [Tasks -> States] /\ start \in [Tasks -> Starts]
           /\ result \in [Tasks -> Statuses \cup {"none"}]
           /\ exec \in [Tasks -> Places] /\ effects \in [Tasks -> Nat]
           /\ held \in SUBSET Tasks
BY DEF TypeOK, RecordTypeOK, ProcessTypeOK

(* A commit stores the states and starts it is given. *)
LEMMA CommitStores ==
    ASSUME NEW s, NEW f, NEW sp, NEW w, Commit(s, f, sp, w)
    PROVE  state' = s /\ start' = f
BY DEF Commit, CommitUnder

(* What mark_uncertain stores: nothing for a settled task. *)
LEMMA MarkUncertainStores ==
    ASSUME NEW t \in Tasks, MarkUncertain(t)
    PROVE  /\ UNCHANGED result
           /\ \/ state[t] \in Settled /\ UNCHANGED <<state, start>>
              \/ /\ state[t] \notin Settled
                 /\ state' = [state EXCEPT ![t] = "Uncertain"]
                 /\ start' = [start EXCEPT ![t] = IF @ = "accepted" THEN "unresolved" ELSE @]
BY CommitStores DEF MarkUncertain

(* A step that leaves the entry's state alone keeps the invariant. *)
LEMMA EntryFrame ==
    ASSUME EntryInvariant, UNCHANGED <<state, start, result, effects, exec, held>>,
           owner' = "tick" => owner = "tick" /\ todo' \subseteq todo
    PROVE  EntryInvariant'
BY DEF EntryInvariant, EntryInv

(* Edits keep the entry invariant. *)
LEMMA EditsKeepEntry ==
    ASSUME TypeOK, EntryInvariant, Edits PROVE EntryInvariant'
<1>1. ASSUME NEW t \in Tasks, Add(t) PROVE EntryInvariant'
  <2> SUFFICES ASSUME NEW u \in Tasks PROVE EntryInv(u)'
    BY DEF EntryInvariant
  <2> QED
    BY <1>1, EntryTypes DEF Add, Edit, Commit, limits, loop, workers, bounds,
       history, CommitUnder, EntryInvariant, EntryInv, Settled, GateFree
<1>2. ASSUME NEW t \in Tasks, NEW d \in SUBSET InitialDeps[t], Revise(t, d) PROVE EntryInvariant'
  BY <1>2, EntryFrame DEF Revise, Edit, Commit, GateFree, limits, loop, workers,
     bounds, history, CommitUnder
<1>3. ASSUME NEW t \in Tasks, Remove(t) PROVE EntryInvariant'
  <2> SUFFICES ASSUME NEW u \in Tasks PROVE EntryInv(u)'
    BY DEF EntryInvariant
  <2> QED
    BY <1>3, EntryTypes DEF Remove, Edit, limits, loop, workers, bounds, history,
       CommitUnder, EntryInvariant, EntryInv, Settled, FutureTask, GateFree
<1>4. ASSUME NEW t \in Tasks, Stop(t) PROVE EntryInvariant'
  <2> SUFFICES ASSUME NEW u \in Tasks PROVE EntryInv(u)'
    BY DEF EntryInvariant
  <2> QED
    BY <1>4, EntryTypes DEF Stop, Edit, Commit, limits, loop, workers, bounds,
       history, CommitUnder, EntryInvariant, EntryInv, Settled, GateFree
<1>5. ASSUME NEW t \in Tasks, NEW c \in Tasks, NEW r \in SUBSET Tasks, AdoptCorrection(t, c, r) PROVE EntryInvariant'
  BY <1>5, EntryFrame DEF AdoptCorrection, Edit, GateFree, limits, loop, workers,
     bounds, history, CommitUnder
<1>6. ASSUME NEW c \in 1 .. MaxConcurrent, NEW f \in 1 .. MaxFailures, NEW ex \in BOOLEAN, SetLimits(c, f, ex) PROVE EntryInvariant'
  BY <1>6, EntryFrame DEF SetLimits, Edit, GateFree, limits, loop, workers, bounds,
     history, CommitUnder
<1>7. ASSUME Continue PROVE EntryInvariant'
  BY <1>7, EntryFrame DEF Continue, Edit, Commit, GateFree, limits, loop, workers,
     bounds, history, CommitUnder
<1>8. ASSUME BindInput PROVE EntryInvariant'
  BY <1>8, EntryFrame DEF BindInput, Edit, Commit, GateFree, limits, loop, workers,
     bounds, history, CommitUnder
<1>9. ASSUME Wait PROVE EntryInvariant'
  BY <1>9, EntryFrame DEF Wait, Edit, Commit, GateFree, limits, loop, workers,
     bounds, history, CommitUnder
<1>10. ASSUME Finish PROVE EntryInvariant'
  BY <1>10, EntryFrame DEF Finish, Edit, Commit, GateFree, limits, loop, workers,
     bounds, history, CommitUnder
<1> QED
  BY <1>1, <1>2, <1>3, <1>4, <1>5, <1>6, <1>7, <1>8, <1>9, <1>10 DEF Edits

(* Steps of the scheduler keep the entry invariant. *)
LEMMA TickKeepEntry ==
    ASSUME TypeOK, EntryInvariant, Tick PROVE EntryInvariant'
<1>1. ASSUME NEW ex \in Accrued, NEW late \in SUBSET Open, TickBegin(ex, late) PROVE EntryInvariant'
  <2> SUFFICES ASSUME NEW u \in Tasks PROVE EntryInv(u)'
    BY DEF EntryInvariant
  <2> QED
    BY <1>1, EntryTypes DEF TickBegin, Observe, Commit, limits, loop, workers,
       bounds, history, CommitUnder, EntryInvariant, EntryInv, Settled, GateFree
<1>2. ASSUME NEW t \in Tasks, NEW ex \in Accrued, NEW late \in SUBSET Open, TickStart(t, ex, late) PROVE EntryInvariant'
  <2> SUFFICES ASSUME NEW u \in Tasks PROVE EntryInv(u)'
    BY DEF EntryInvariant
  <2> QED
    BY <1>2, EntryTypes DEF TickStart, TickResolved, TickAt, Commit, limits, loop,
       workers, bounds, history, CommitUnder, EntryInvariant, EntryInv, Settled
<1>3. ASSUME NEW t \in Tasks, NEW ex \in Accrued, NEW late \in SUBSET Open, TickPostpone(t, ex, late) PROVE EntryInvariant'
  BY <1>3, EntryFrame DEF TickPostpone, TickResolved, TickAt, Commit, limits, loop,
     workers, bounds, history, CommitUnder
<1>4. ASSUME NEW t \in Tasks, NEW ex \in Accrued, NEW late \in SUBSET Open, TickRefuse(t, ex, late) PROVE EntryInvariant'
  <2> SUFFICES ASSUME NEW u \in Tasks PROVE EntryInv(u)'
    BY DEF EntryInvariant
  <2> QED
    BY <1>4, EntryTypes DEF TickRefuse, TickResolved, TickAt, Commit, limits, loop,
       workers, bounds, history, CommitUnder, EntryInvariant, EntryInv, Settled
<1>5. ASSUME NEW t \in Tasks, TickRedispatch(t) PROVE EntryInvariant'
  <2> SUFFICES ASSUME NEW u \in Tasks PROVE EntryInv(u)'
    BY DEF EntryInvariant
  <2> QED
    BY <1>5, EntryTypes DEF TickRedispatch, TickAt, Commit, limits, loop, workers,
       bounds, history, CommitUnder, EntryInvariant, EntryInv, Settled
<1>6. ASSUME NEW t \in Tasks, TickSkip(t) PROVE EntryInvariant'
  BY <1>6, EntryFrame DEF TickSkip, TickAt, Commit, limits, loop, workers, bounds,
     history, CommitUnder
<1>7. ASSUME TickEnd PROVE EntryInvariant'
  BY <1>7, EntryFrame DEF TickEnd, durable, Handover, limits, loop, bounds, history
<1> QED
  BY <1>1, <1>2, <1>3, <1>4, <1>5, <1>6, <1>7 DEF Tick

(* Steps of an execution worker keep the entry invariant. *)
LEMMA ExecuteKeepEntry ==
    ASSUME TypeOK, EntryInvariant, NEW t \in Tasks, Execute(t) PROVE EntryInvariant'
<1>1. ASSUME ExecuteClaim(t) PROVE EntryInvariant'
  <2> SUFFICES ASSUME NEW u \in Tasks PROVE EntryInv(u)'
    BY DEF EntryInvariant
  <2> QED
    BY <1>1, EntryTypes DEF ExecuteClaim, durable, limits, loop, bounds, history,
       EntryInvariant, EntryInv, Settled
<1>2. ASSUME ExecuteCheck(t) PROVE EntryInvariant'
  <2> SUFFICES ASSUME NEW u \in Tasks PROVE EntryInv(u)'
    BY DEF EntryInvariant
  <2> QED
    BY <1>2, EntryTypes DEF ExecuteCheck, durable, Goto, WorkerRest, limits, loop,
       bounds, history, EntryInvariant, EntryInv, Settled, OwnsUnentered, GateFree
<1>3. ASSUME NEW place \in {"entry", "defer", "fail", "uncertain"}, NEW claimed \in BOOLEAN, Prepare(t, place, claimed) PROVE EntryInvariant'
  <2> SUFFICES ASSUME NEW u \in Tasks PROVE EntryInv(u)'
    BY DEF EntryInvariant
  <2> QED
    BY <1>3, EntryTypes DEF Prepare, durable, Goto, WorkerRest, limits, loop, bounds,
       EntryInvariant, EntryInv, Settled
<1>4. ASSUME NEW ex \in Accrued, DeferBeforeEntry(t, ex) PROVE EntryInvariant'
  <2> SUFFICES ASSUME NEW u \in Tasks PROVE EntryInv(u)'
    BY DEF EntryInvariant
  <2> QED
    BY <1>4, EntryTypes DEF DeferBeforeEntry, Requeue, Release, Goto, WorkerRest,
       Commit, limits, loop, bounds, history, CommitUnder, EntryInvariant, EntryInv,
       Settled, OwnsUnentered, GateFree
<1>5. ASSUME NEW ex \in Accrued, NEW late \in SUBSET Open, NEW place \in {"settle", "fail", "pause", "done", "stop"}, EntryRefused(t, ex, late, place) PROVE EntryInvariant'
  <2> SUFFICES ASSUME NEW u \in Tasks PROVE EntryInv(u)'
    BY DEF EntryInvariant
  <2> QED
    BY <1>5, EntryTypes DEF EntryRefused, EntryObserved, Goto, WorkerRest, Commit,
       limits, loop, bounds, history, CommitUnder, EntryInvariant, EntryInv, Settled,
       OwnsUnentered, EntryRefusal, GateFree
<1>6. ASSUME NEW ex \in Accrued, NEW late \in SUBSET Open, CommitEntry(t, ex, late) PROVE EntryInvariant'
  <2> SUFFICES ASSUME NEW u \in Tasks PROVE EntryInv(u)'
    BY DEF EntryInvariant
  <2> QED
    BY <1>6, EntryTypes DEF CommitEntry, EntryObserved, Goto, WorkerRest, Commit,
       limits, loop, bounds, history, CommitUnder, EntryInvariant, EntryInv, Settled,
       OwnsUnentered, GateFree
<1>7. ASSUME Enter(t) PROVE EntryInvariant'
  <2> SUFFICES ASSUME NEW u \in Tasks PROVE EntryInv(u)'
    BY DEF EntryInvariant
  <2> QED
    BY <1>7, EntryTypes DEF Enter, durable, Goto, WorkerRest, limits, loop, bounds,
       EntryInvariant, EntryInv, Settled
<1>8. ASSUME AfterReturn(t) PROVE EntryInvariant'
  <2> SUFFICES ASSUME NEW u \in Tasks PROVE EntryInv(u)'
    BY DEF EntryInvariant
  <2> QED
    BY <1>8, EntryTypes DEF AfterReturn, durable, Goto, WorkerRest, limits, loop,
       bounds, history, EntryInvariant, EntryInv, Settled
<1>9. ASSUME Settle(t) PROVE EntryInvariant'
  <2> SUFFICES ASSUME NEW u \in Tasks PROVE EntryInv(u)'
    BY DEF EntryInvariant
  <2> QED
    BY <1>9, EntryTypes DEF Settle, durable, Goto, WorkerRest, limits, loop, bounds,
       history, EntryInvariant, EntryInv, Settled
<1>10. ASSUME WorkerFinish(t) PROVE EntryInvariant'
  <2> SUFFICES ASSUME NEW u \in Tasks PROVE EntryInv(u)'
    BY DEF EntryInvariant
  <2> QED
    BY <1>10, EntryTypes DEF WorkerFinish, FinishWithoutEntry, Goto, WorkerRest,
       Commit, limits, loop, bounds, history, CommitUnder, EntryInvariant, EntryInv,
       Settled, GateFree, NonEntryEvidence
<1>11. ASSUME WorkerUncertain(t) PROVE EntryInvariant'
  <2> SUFFICES ASSUME NEW u \in Tasks PROVE EntryInv(u)'
    BY DEF EntryInvariant
  <2> QED
    BY <1>11, MarkUncertainStores, EntryTypes DEF WorkerUncertain, Goto, WorkerRest,
       limits, loop, bounds, history, EntryInvariant, EntryInv, Settled, GateFree
<1>12. ASSUME ExecuteReturn(t) PROVE EntryInvariant'
  <2> SUFFICES ASSUME NEW u \in Tasks PROVE EntryInv(u)'
    BY DEF EntryInvariant
  <2> QED
    BY <1>12, EntryTypes DEF ExecuteReturn, durable, Release, WorkerRest, limits,
       loop, bounds, history, EntryInvariant, EntryInv, Settled
<1> QED
  BY <1>1, <1>2, <1>3, <1>4, <1>5, <1>6, <1>7, <1>8, <1>9, <1>10, <1>11, <1>12 DEF
     Execute

(* Reports and heartbeats of an adapter keep the entry invariant. *)
LEMMA AdapterKeepEntry ==
    ASSUME TypeOK, EntryInvariant, NEW t \in Tasks, Adapter(t) PROVE EntryInvariant'
<1>1. ASSUME NEW ex \in Accrued, NEW late \in SUBSET Open, NEW status \in Statuses \cup {"progress"}, NEW satisfied \in BOOLEAN, Record(t, ex, late, status, satisfied) PROVE EntryInvariant'
  <2> SUFFICES ASSUME NEW u \in Tasks PROVE EntryInv(u)'
    BY DEF EntryInvariant
  <2>1. CASE status = "progress"
    <3>1. UNCHANGED <<state, start, result, effects, exec, held, owner, todo>>
      BY <1>1, <2>1, CommitStores DEF Record, WorkerRest, loop, workers, history
    <3> QED
      BY <3>1, EntryFrame DEF EntryInvariant
  <2>2. CASE status # "progress"
    <3> DEFINE to == CASE status = "Success" -> IF satisfied THEN "Completed" ELSE "Failed"
                       [] status = "Failure" -> "Failed"
                       [] status = "Cancelled" -> "Stopped"
                       [] status = "Uncertain" -> "Uncertain"
    <3>1. /\ state' = [state EXCEPT ![t] = to]
          /\ start' = start
          /\ result' = [result EXCEPT ![t] = status]
          /\ UNCHANGED <<effects, exec, held, owner, todo>>
      BY <1>1, <2>2, CommitStores DEF Record, WorkerRest, loop, workers, history
    <3>2. to \in Settled => status \in {"Success", "Failure", "Cancelled"}
      BY <2>2 DEF Statuses, Settled
    <3>3. exec[t] = "running" /\ start[t] = "entered" /\ state[t] \notin Settled /\ owner # "tick"
      BY <1>1 DEF Record, ReportAccepted, GateFree
    <3> HIDE DEF to
    <3> QED
      BY <3>1, <3>2, <3>3 DEF EntryInvariant, EntryInv, TypeOK, RecordTypeOK
  <2> QED
    BY <2>1, <2>2
<1>2. ASSUME NEW ex \in Accrued, NEW late \in SUBSET Open, Heartbeat(t, ex, late) PROVE EntryInvariant'
  BY <1>2, EntryFrame DEF Heartbeat, Observe, WorkerRest, Commit, workers, GateFree,
     limits, loop, workers, bounds, history, CommitUnder
<1>3. ASSUME AdapterReturns(t) PROVE EntryInvariant'
  <2> SUFFICES ASSUME NEW u \in Tasks PROVE EntryInv(u)'
    BY DEF EntryInvariant
  <2> QED
    BY <1>3, EntryTypes DEF AdapterReturns, durable, Goto, WorkerRest, limits, loop,
       bounds, history, EntryInvariant, EntryInv, Settled
<1> QED
  BY <1>1, <1>2, <1>3 DEF Adapter

(* Steps of a cancellation worker keep the entry invariant. *)
LEMMA CancellationKeepEntry ==
    ASSUME TypeOK, EntryInvariant, NEW t \in Tasks, Cancellation(t) PROVE EntryInvariant'
<1>1. ASSUME CancelBegin(t) PROVE EntryInvariant'
  BY <1>1, EntryFrame DEF CancelBegin, durable, CancelRest, limits, loop, workers,
     bounds, history
<1>2. ASSUME CancelFinish(t) PROVE EntryInvariant'
  <2> SUFFICES ASSUME NEW u \in Tasks PROVE EntryInv(u)'
    BY DEF EntryInvariant
  <2> QED
    BY <1>2, EntryTypes DEF CancelFinish, FinishWithoutEntry, CancelRest, Commit,
       limits, loop, workers, bounds, history, CommitUnder, EntryInvariant, EntryInv,
       Settled, GateFree, NonEntryEvidence
<1>3. ASSUME NEW place \in {"acknowledged", "unresolved"}, CancelSend(t, place) PROVE EntryInvariant'
  BY <1>3, EntryFrame DEF CancelSend, durable, CancelRest, limits, loop, workers,
     bounds, history
<1>4. ASSUME CancelAcknowledged(t) PROVE EntryInvariant'
  BY <1>4, EntryFrame DEF CancelAcknowledged, CancelRest, Commit, GateFree, limits,
     loop, workers, bounds, history, CommitUnder
<1>5. ASSUME CancelUnresolved(t) PROVE EntryInvariant'
  <2> SUFFICES ASSUME NEW u \in Tasks PROVE EntryInv(u)'
    BY DEF EntryInvariant
  <2> QED
    BY <1>5, MarkUncertainStores, EntryTypes DEF CancelUnresolved, CancelRest,
       limits, loop, workers, bounds, history, EntryInvariant, EntryInv, Settled,
       GateFree
<1> QED
  BY <1>1, <1>2, <1>3, <1>4, <1>5 DEF Cancellation

(* Steps of recover() keep the entry invariant. *)
LEMMA RecoveryKeepEntry ==
    ASSUME TypeOK, EntryInvariant, Recovery PROVE EntryInvariant'
<1>1. ASSUME NEW ex \in Accrued, NEW late \in SUBSET Open, Restart(ex, late) PROVE EntryInvariant'
  BY <1>1, EntryFrame DEF Restart, Observe, Commit, limits, loop, workers, bounds,
     history, CommitUnder
<1>2. ASSUME NEW t \in Tasks, RecoverSettled(t) PROVE EntryInvariant'
  <2> SUFFICES ASSUME NEW u \in Tasks PROVE EntryInv(u)'
    BY DEF EntryInvariant
  <2> QED
    BY <1>2, EntryTypes DEF RecoverSettled, durable, RecoverAt, limits, loop,
       workers, bounds, history, EntryInvariant, EntryInv, Settled
<1>3. ASSUME NEW t \in Tasks, RecoverEntered(t) PROVE EntryInvariant'
  <2> SUFFICES ASSUME NEW u \in Tasks PROVE EntryInv(u)'
    BY DEF EntryInvariant
  <2> QED
    BY <1>3, MarkUncertainStores, EntryTypes DEF RecoverEntered, RecoverAt, limits,
       loop, workers, bounds, history, EntryInvariant, EntryInv, Settled
<1>4. ASSUME NEW t \in Tasks, RecoverUnentered(t) PROVE EntryInvariant'
  <2> SUFFICES ASSUME NEW u \in Tasks PROVE EntryInv(u)'
    BY DEF EntryInvariant
  <2> QED
    BY <1>4, EntryTypes DEF RecoverUnentered, RecoverAt, Commit, limits, loop,
       workers, bounds, history, CommitUnder, EntryInvariant, EntryInv, Settled
<1>5. ASSUME NEW t \in Tasks, RecoverOther(t) PROVE EntryInvariant'
  BY <1>5, EntryFrame DEF RecoverOther, durable, RecoverAt, limits, loop, workers,
     bounds, history
<1>6. ASSUME RecoverEnd PROVE EntryInvariant'
  BY <1>6, EntryFrame DEF RecoverEnd, durable, Handover, limits, loop, bounds,
     history
<1> QED
  BY <1>1, <1>2, <1>3, <1>4, <1>5, <1>6 DEF Recovery

(* Failed clock and store calls keep the entry invariant. *)
LEMMA FaultKeepEntry ==
    ASSUME TypeOK, EntryInvariant, Fault PROVE EntryInvariant'
<1>1. ASSUME TickFault PROVE EntryInvariant'
  BY <1>1, EntryFrame DEF TickFault, durable, limits, loop, workers, bounds, history
<1>2. ASSUME NEW t \in Tasks, WorkerFault(t) PROVE EntryInvariant'
  <2> SUFFICES ASSUME NEW u \in Tasks PROVE EntryInv(u)'
    BY DEF EntryInvariant
  <2> QED
    BY <1>2, EntryTypes DEF WorkerFault, durable, Goto, limits, loop, bounds,
       history, EntryInvariant, EntryInv, Settled
<1>3. ASSUME NEW t \in Tasks, ReleaseFault(t) PROVE EntryInvariant'
  <2> SUFFICES ASSUME NEW u \in Tasks PROVE EntryInv(u)'
    BY DEF EntryInvariant
  <2> QED
    BY <1>3, EntryTypes DEF ReleaseFault, FinishWithoutEntry, Goto, Commit, limits,
       loop, bounds, history, CommitUnder, EntryInvariant, EntryInv, Settled,
       GateFree, NonEntryEvidence
<1>4. ASSUME NEW c \in cancelling, CancelFault(c) PROVE EntryInvariant'
  BY <1>4, EntryFrame DEF CancelFault, durable, CancelRest, limits, loop, workers,
     bounds, history
<1> QED
  BY <1>1, <1>2, <1>3, <1>4 DEF Fault

(* Every step keeps the entry invariant. *)
LEMMA EntryStep == ASSUME TypeOK, EntryInvariant, [Next]_vars PROVE EntryInvariant'
<1>1. CASE BeginShutdown
  BY <1>1, EntryFrame DEF BeginShutdown, durable, loop, workers, history
<1>2. CASE Crash
  BY <1>2 DEF Crash, durable, history, EntryInvariant, EntryInv
<1>3. CASE UNCHANGED vars
  BY <1>3, EntryFrame DEF vars, durable, loop, workers, history
<1> QED
  BY <1>1, <1>2, <1>3, EditsKeepEntry, TickKeepEntry, ExecuteKeepEntry,
     AdapterKeepEntry, CancellationKeepEntry, RecoveryKeepEntry, FaultKeepEntry DEF
     Next

-----------------------------------------------------------------------------
(* What the entry invariant shows *)

(* Entry, settlement and path claims stay consistent with the workers' places.     *)
THEOREM EntryConsistent == Spec => []EntryInvariant
<1>1. Init => EntryInvariant
  BY DEF Init, EntryInvariant, EntryInv, Settled
<1> QED
  BY <1>1, TypeCorrect, EntryStep, PTL DEF Spec

(* The adapter of an accepted start is entered at most once, and only after its    *)
(* entry was committed, through any number of crashes, restarts and failed calls.  *)
THEOREM AtMostOneEntry == Spec => []EntersOnce
<1>1. EntryInvariant => EntersOnce
  BY DEF EntryInvariant, EntryInv, EntersOnce
<1> QED
  BY <1>1, EntryConsistent, PTL

(* A task settles on the terminal report of its adapter, or without entry.         *)
THEOREM TruthfulSettlement == Spec => []SettledOnEvidence
<1>1. TypeOK /\ EntryInvariant => SettledOnEvidence
  BY DEF TypeOK, RecordTypeOK, EntryInvariant, EntryInv, SettledOnEvidence
<1> QED
  BY <1>1, TypeCorrect, EntryConsistent, PTL

(* An entered, unsettled execution keeps its native path claims.                   *)
THEOREM OpenExecutionHoldsPaths == Spec => []PathsHeldWhileOpen
<1>1. EntryInvariant => PathsHeldWhileOpen
  BY DEF EntryInvariant, EntryInv, PathsHeldWhileOpen
<1> QED
  BY <1>1, EntryConsistent, PTL

-----------------------------------------------------------------------------
(* Settlement is final *)

(* Edits change no settled task. *)
LEMMA EditsKeepSettled ==
    ASSUME TypeOK, EntryInvariant, Edits PROVE SettledKept
<1>1. ASSUME NEW t \in Tasks, Add(t) PROVE SettledKept
  BY <1>1, EntryTypes DEF Add, Edit, Commit, limits, loop, workers, bounds, history,
     CommitUnder, SettledKept, EntryInvariant, EntryInv, Settled
<1>2. ASSUME NEW t \in Tasks, NEW d \in SUBSET InitialDeps[t], Revise(t, d) PROVE SettledKept
  BY <1>2, EntryTypes DEF Revise, Edit, Commit, limits, loop, workers, bounds,
     history, CommitUnder, SettledKept, EntryInvariant, EntryInv, Settled, FutureTask
<1>3. ASSUME NEW t \in Tasks, Remove(t) PROVE SettledKept
  BY <1>3, EntryTypes DEF Remove, Edit, limits, loop, workers, bounds, history,
     CommitUnder, SettledKept, EntryInvariant, EntryInv, Settled, FutureTask
<1>4. ASSUME NEW t \in Tasks, Stop(t) PROVE SettledKept
  BY <1>4, EntryTypes DEF Stop, Edit, Commit, limits, loop, workers, bounds, history,
     CommitUnder, SettledKept, EntryInvariant, EntryInv, Settled
<1>5. ASSUME NEW t \in Tasks, NEW c \in Tasks, NEW r \in SUBSET Tasks, AdoptCorrection(t, c, r) PROVE SettledKept
  BY <1>5, EntryTypes DEF AdoptCorrection, Edit, limits, loop, workers, bounds,
     history, CommitUnder, SettledKept, EntryInvariant, EntryInv, Settled, FutureTask
<1>6. ASSUME NEW c \in 1 .. MaxConcurrent, NEW f \in 1 .. MaxFailures, NEW ex \in BOOLEAN, SetLimits(c, f, ex) PROVE SettledKept
  BY <1>6, EntryTypes DEF SetLimits, Edit, limits, loop, workers, bounds, history,
     CommitUnder, SettledKept, EntryInvariant, EntryInv, Settled
<1>7. ASSUME Continue PROVE SettledKept
  BY <1>7, EntryTypes DEF Continue, Edit, Commit, limits, loop, workers, bounds,
     history, CommitUnder, SettledKept, EntryInvariant, EntryInv, Settled
<1>8. ASSUME BindInput PROVE SettledKept
  BY <1>8, EntryTypes DEF BindInput, Edit, Commit, limits, loop, workers, bounds,
     history, CommitUnder, SettledKept, EntryInvariant, EntryInv, Settled
<1>9. ASSUME Wait PROVE SettledKept
  BY <1>9, EntryTypes DEF Wait, Edit, Commit, limits, loop, workers, bounds, history,
     CommitUnder, SettledKept, EntryInvariant, EntryInv, Settled
<1>10. ASSUME Finish PROVE SettledKept
  BY <1>10, EntryTypes DEF Finish, Edit, Commit, limits, loop, workers, bounds,
     history, CommitUnder, SettledKept, EntryInvariant, EntryInv, Settled
<1> QED
  BY <1>1, <1>2, <1>3, <1>4, <1>5, <1>6, <1>7, <1>8, <1>9, <1>10 DEF Edits

(* Steps of the scheduler change no settled task. *)
LEMMA TickKeepSettled ==
    ASSUME TypeOK, EntryInvariant, Tick PROVE SettledKept
<1>1. ASSUME NEW ex \in Accrued, NEW late \in SUBSET Open, TickBegin(ex, late) PROVE SettledKept
  BY <1>1, EntryTypes DEF TickBegin, Observe, Commit, limits, loop, workers, bounds,
     history, CommitUnder, SettledKept, EntryInvariant, EntryInv, Settled
<1>2. ASSUME NEW t \in Tasks, NEW ex \in Accrued, NEW late \in SUBSET Open, TickStart(t, ex, late) PROVE SettledKept
  BY <1>2, EntryTypes DEF TickStart, TickResolved, TickAt, Commit, limits, loop,
     workers, bounds, history, CommitUnder, SettledKept, EntryInvariant, EntryInv,
     Settled
<1>3. ASSUME NEW t \in Tasks, NEW ex \in Accrued, NEW late \in SUBSET Open, TickPostpone(t, ex, late) PROVE SettledKept
  BY <1>3, EntryTypes DEF TickPostpone, TickResolved, TickAt, Commit, limits, loop,
     workers, bounds, history, CommitUnder, SettledKept, EntryInvariant, EntryInv,
     Settled
<1>4. ASSUME NEW t \in Tasks, NEW ex \in Accrued, NEW late \in SUBSET Open, TickRefuse(t, ex, late) PROVE SettledKept
  BY <1>4, EntryTypes DEF TickRefuse, TickResolved, TickAt, Commit, limits, loop,
     workers, bounds, history, CommitUnder, SettledKept, EntryInvariant, EntryInv,
     Settled
<1>5. ASSUME NEW t \in Tasks, TickRedispatch(t) PROVE SettledKept
  BY <1>5, EntryTypes DEF TickRedispatch, TickAt, Commit, limits, loop, workers,
     bounds, history, CommitUnder, SettledKept, EntryInvariant, EntryInv, Settled
<1>6. ASSUME NEW t \in Tasks, TickSkip(t) PROVE SettledKept
  BY <1>6, EntryTypes DEF TickSkip, TickAt, Commit, limits, loop, workers, bounds,
     history, CommitUnder, SettledKept, EntryInvariant, EntryInv, Settled
<1>7. ASSUME TickEnd PROVE SettledKept
  BY <1>7, EntryTypes DEF TickEnd, durable, Handover, limits, loop, bounds, history,
     SettledKept, EntryInvariant, EntryInv, Settled
<1> QED
  BY <1>1, <1>2, <1>3, <1>4, <1>5, <1>6, <1>7 DEF Tick

(* Steps of an execution worker change no settled task. *)
LEMMA ExecuteKeepSettled ==
    ASSUME TypeOK, EntryInvariant, NEW t \in Tasks, Execute(t) PROVE SettledKept
<1>1. ASSUME ExecuteClaim(t) PROVE SettledKept
  BY <1>1, EntryTypes DEF ExecuteClaim, durable, limits, loop, bounds, history,
     SettledKept, EntryInvariant, EntryInv, Settled
<1>2. ASSUME ExecuteCheck(t) PROVE SettledKept
  BY <1>2, EntryTypes DEF ExecuteCheck, durable, Goto, WorkerRest, limits, loop,
     bounds, history, SettledKept, EntryInvariant, EntryInv, Settled, OwnsUnentered
<1>3. ASSUME NEW place \in {"entry", "defer", "fail", "uncertain"}, NEW claimed \in BOOLEAN, Prepare(t, place, claimed) PROVE SettledKept
  BY <1>3, EntryTypes DEF Prepare, durable, Goto, WorkerRest, limits, loop, bounds,
     SettledKept, EntryInvariant, EntryInv, Settled
<1>4. ASSUME NEW ex \in Accrued, DeferBeforeEntry(t, ex) PROVE SettledKept
  BY <1>4, EntryTypes DEF DeferBeforeEntry, Requeue, Release, Goto, WorkerRest,
     Commit, limits, loop, bounds, history, CommitUnder, SettledKept, EntryInvariant,
     EntryInv, Settled, OwnsUnentered
<1>5. ASSUME NEW ex \in Accrued, NEW late \in SUBSET Open, NEW place \in {"settle", "fail", "pause", "done", "stop"}, EntryRefused(t, ex, late, place) PROVE SettledKept
  BY <1>5, EntryTypes DEF EntryRefused, EntryObserved, Goto, WorkerRest, Commit,
     limits, loop, bounds, history, CommitUnder, SettledKept, EntryInvariant,
     EntryInv, Settled
<1>6. ASSUME NEW ex \in Accrued, NEW late \in SUBSET Open, CommitEntry(t, ex, late) PROVE SettledKept
  BY <1>6, EntryTypes DEF CommitEntry, EntryObserved, Goto, WorkerRest, Commit,
     limits, loop, bounds, history, CommitUnder, SettledKept, EntryInvariant,
     EntryInv, Settled, OwnsUnentered
<1>7. ASSUME Enter(t) PROVE SettledKept
  BY <1>7, EntryTypes DEF Enter, durable, Goto, WorkerRest, limits, loop, bounds,
     SettledKept, EntryInvariant, EntryInv, Settled
<1>8. ASSUME AfterReturn(t) PROVE SettledKept
  BY <1>8, EntryTypes DEF AfterReturn, durable, Goto, WorkerRest, limits, loop,
     bounds, history, SettledKept, EntryInvariant, EntryInv, Settled
<1>9. ASSUME Settle(t) PROVE SettledKept
  BY <1>9, EntryTypes DEF Settle, durable, Goto, WorkerRest, limits, loop, bounds,
     history, SettledKept, EntryInvariant, EntryInv, Settled
<1>10. ASSUME WorkerFinish(t) PROVE SettledKept
  BY <1>10, EntryTypes DEF WorkerFinish, FinishWithoutEntry, Goto, WorkerRest,
     Commit, limits, loop, bounds, history, CommitUnder, SettledKept, EntryInvariant,
     EntryInv, Settled, NonEntryEvidence
<1>11. ASSUME WorkerUncertain(t) PROVE SettledKept
  BY <1>11, MarkUncertainStores, EntryTypes DEF WorkerUncertain, Goto, WorkerRest,
     limits, loop, bounds, history, SettledKept, Settled
<1>12. ASSUME ExecuteReturn(t) PROVE SettledKept
  BY <1>12, EntryTypes DEF ExecuteReturn, durable, Release, WorkerRest, limits, loop,
     bounds, history, SettledKept, EntryInvariant, EntryInv, Settled
<1> QED
  BY <1>1, <1>2, <1>3, <1>4, <1>5, <1>6, <1>7, <1>8, <1>9, <1>10, <1>11, <1>12 DEF
     Execute

(* Reports and heartbeats of an adapter change no settled task. *)
LEMMA AdapterKeepSettled ==
    ASSUME TypeOK, EntryInvariant, NEW t \in Tasks, Adapter(t) PROVE SettledKept
<1>1. ASSUME NEW ex \in Accrued, NEW late \in SUBSET Open, NEW status \in Statuses \cup {"progress"}, NEW satisfied \in BOOLEAN, Record(t, ex, late, status, satisfied) PROVE SettledKept
  BY <1>1, CommitStores, EntryTypes DEF Record, ReportAccepted, SettledKept
<1>2. ASSUME NEW ex \in Accrued, NEW late \in SUBSET Open, Heartbeat(t, ex, late) PROVE SettledKept
  BY <1>2, EntryTypes DEF Heartbeat, Observe, WorkerRest, Commit, workers, limits,
     loop, workers, bounds, history, CommitUnder, SettledKept, EntryInvariant,
     EntryInv, Settled
<1>3. ASSUME AdapterReturns(t) PROVE SettledKept
  BY <1>3, EntryTypes DEF AdapterReturns, durable, Goto, WorkerRest, limits, loop,
     bounds, history, SettledKept, EntryInvariant, EntryInv, Settled
<1> QED
  BY <1>1, <1>2, <1>3 DEF Adapter

(* Steps of a cancellation worker change no settled task. *)
LEMMA CancellationKeepSettled ==
    ASSUME TypeOK, EntryInvariant, NEW t \in Tasks, Cancellation(t) PROVE SettledKept
<1>1. ASSUME CancelBegin(t) PROVE SettledKept
  BY <1>1, EntryTypes DEF CancelBegin, durable, CancelRest, limits, loop, workers,
     bounds, history, SettledKept, EntryInvariant, EntryInv, Settled
<1>2. ASSUME CancelFinish(t) PROVE SettledKept
  BY <1>2, EntryTypes DEF CancelFinish, FinishWithoutEntry, CancelRest, Commit,
     limits, loop, workers, bounds, history, CommitUnder, SettledKept,
     EntryInvariant, EntryInv, Settled, NonEntryEvidence
<1>3. ASSUME NEW place \in {"acknowledged", "unresolved"}, CancelSend(t, place) PROVE SettledKept
  BY <1>3, EntryTypes DEF CancelSend, durable, CancelRest, limits, loop, workers,
     bounds, history, SettledKept, EntryInvariant, EntryInv, Settled
<1>4. ASSUME CancelAcknowledged(t) PROVE SettledKept
  BY <1>4, EntryTypes DEF CancelAcknowledged, CancelRest, Commit, limits, loop,
     workers, bounds, history, CommitUnder, SettledKept, EntryInvariant, EntryInv,
     Settled
<1>5. ASSUME CancelUnresolved(t) PROVE SettledKept
  BY <1>5, MarkUncertainStores, EntryTypes DEF CancelUnresolved, CancelRest, limits,
     loop, workers, bounds, history, SettledKept, Settled
<1> QED
  BY <1>1, <1>2, <1>3, <1>4, <1>5 DEF Cancellation

(* Steps of recover() change no settled task. *)
LEMMA RecoveryKeepSettled ==
    ASSUME TypeOK, EntryInvariant, Recovery PROVE SettledKept
<1>1. ASSUME NEW ex \in Accrued, NEW late \in SUBSET Open, Restart(ex, late) PROVE SettledKept
  BY <1>1, EntryTypes DEF Restart, Observe, Commit, limits, loop, workers, bounds,
     history, CommitUnder, SettledKept, EntryInvariant, EntryInv, Settled
<1>2. ASSUME NEW t \in Tasks, RecoverSettled(t) PROVE SettledKept
  BY <1>2, EntryTypes DEF RecoverSettled, durable, RecoverAt, limits, loop, workers,
     bounds, history, SettledKept, EntryInvariant, EntryInv, Settled
<1>3. ASSUME NEW t \in Tasks, RecoverEntered(t) PROVE SettledKept
  BY <1>3, MarkUncertainStores, EntryTypes DEF RecoverEntered, RecoverAt, limits,
     loop, workers, bounds, history, SettledKept, Settled
<1>4. ASSUME NEW t \in Tasks, RecoverUnentered(t) PROVE SettledKept
  BY <1>4, EntryTypes DEF RecoverUnentered, RecoverAt, Commit, limits, loop, workers,
     bounds, history, CommitUnder, SettledKept, EntryInvariant, EntryInv, Settled
<1>5. ASSUME NEW t \in Tasks, RecoverOther(t) PROVE SettledKept
  BY <1>5, EntryTypes DEF RecoverOther, durable, RecoverAt, limits, loop, workers,
     bounds, history, SettledKept, EntryInvariant, EntryInv, Settled
<1>6. ASSUME RecoverEnd PROVE SettledKept
  BY <1>6, EntryTypes DEF RecoverEnd, durable, Handover, limits, loop, bounds,
     history, SettledKept, EntryInvariant, EntryInv, Settled
<1> QED
  BY <1>1, <1>2, <1>3, <1>4, <1>5, <1>6 DEF Recovery

(* Failed clock and store calls change no settled task. *)
LEMMA FaultKeepSettled ==
    ASSUME TypeOK, EntryInvariant, Fault PROVE SettledKept
<1>1. ASSUME TickFault PROVE SettledKept
  BY <1>1, EntryTypes DEF TickFault, durable, limits, loop, workers, bounds, history,
     SettledKept, EntryInvariant, EntryInv, Settled
<1>2. ASSUME NEW t \in Tasks, WorkerFault(t) PROVE SettledKept
  BY <1>2, EntryTypes DEF WorkerFault, durable, Goto, limits, loop, bounds, history,
     SettledKept, EntryInvariant, EntryInv, Settled
<1>3. ASSUME NEW t \in Tasks, ReleaseFault(t) PROVE SettledKept
  BY <1>3, EntryTypes DEF ReleaseFault, FinishWithoutEntry, Goto, Commit, limits,
     loop, bounds, history, CommitUnder, SettledKept, EntryInvariant, EntryInv,
     Settled, NonEntryEvidence
<1>4. ASSUME NEW c \in cancelling, CancelFault(c) PROVE SettledKept
  BY <1>4, EntryTypes DEF CancelFault, durable, CancelRest, limits, loop, workers,
     bounds, history, SettledKept, EntryInvariant, EntryInv, Settled
<1> QED
  BY <1>1, <1>2, <1>3, <1>4 DEF Fault

(* No step changes the state or the result of a settled task.                      *)
THEOREM SettlementIsFinal == Spec => SettledIsFinal
<1>1. ASSUME TypeOK, EntryInvariant, [Next]_vars PROVE [SettledKept]_vars
  <2>1. CASE BeginShutdown
    BY <2>1 DEF BeginShutdown, durable, SettledKept
  <2>2. CASE Crash
    BY <2>2 DEF Crash, durable, SettledKept
  <2> QED
    BY <1>1, <2>1, <2>2, EditsKeepSettled, TickKeepSettled, ExecuteKeepSettled,
       AdapterKeepSettled, CancellationKeepSettled, RecoveryKeepSettled,
       FaultKeepSettled DEF Next
<1> QED
  BY <1>1, TypeCorrect, EntryConsistent, PTL DEF Spec, SettledIsFinal

=============================================================================
