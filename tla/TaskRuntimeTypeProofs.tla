------------------------ MODULE TaskRuntimeTypeProofs ------------------------
(***************************************************************************)
(* The types of TaskRuntime, for any set of tasks, any dependencies and    *)
(* corrections, any number of workers, crashes and failed calls.           *)
(***************************************************************************)
EXTENDS TaskRuntime, TLAPS

-----------------------------------------------------------------------------
(* Types *)

(* The stops that a duration limit requests are Booleans. *)
LEMMA LimitStopType ==
    ASSUME TypeOK, NEW ex, NEW late, NEW s, NEW f
    PROVE  LimitStop(ex, late, s, f) \in [Tasks -> BOOLEAN]
BY DEF LimitStop, TypeOK, RecordTypeOK

(* What a commit stores has the type of what it is given. *)
LEMMA CommitType ==
    ASSUME TypeOK, NEW s \in [Tasks -> States], NEW f \in [Tasks -> Starts],
           NEW sp \in [Tasks -> BOOLEAN], NEW w \in BOOLEAN, Commit(s, f, sp, w)
    PROVE  /\ state' \in [Tasks -> States] /\ start' \in [Tasks -> Starts]
           /\ stop' \in [Tasks -> BOOLEAN] /\ wait' \in BOOLEAN
           /\ removed' \in SUBSET Tasks /\ adopted' \in [Tasks -> Tasks \cup {NoTask}]
           /\ concurrent' \in 1 .. MaxConcurrent /\ failures' \in 1 .. MaxFailures
BY DEF Commit, CommitUnder, limits, TypeOK, RecordTypeOK

(* mark_uncertain keeps the types of the record. *)
LEMMA MarkUncertainType ==
    ASSUME TypeOK, NEW t \in Tasks, MarkUncertain(t)
    PROVE  RecordTypeOK'
<1>1. CASE state[t] \in Settled
  BY <1>1 DEF MarkUncertain, limits, TypeOK, RecordTypeOK
<1>2. CASE state[t] \notin Settled
  <2>1. PICK ex \in {exhausted, TRUE}, late \in SUBSET (Open \cup {t}) :
          LET s == [state EXCEPT ![t] = "Uncertain"]
              f == [start EXCEPT ![t] = IF @ = "accepted" THEN "unresolved" ELSE @]
          IN  /\ exhausted' = ex
              /\ Commit(s, f, LimitStop(ex, late, s, f), LimitWait(ex))
    BY <1>2 DEF MarkUncertain
  <2> DEFINE s == [state EXCEPT ![t] = "Uncertain"]
  <2> DEFINE f == [start EXCEPT ![t] = IF @ = "accepted" THEN "unresolved" ELSE @]
  <2>2. s \in [Tasks -> States] /\ f \in [Tasks -> Starts]
    BY DEF TypeOK, RecordTypeOK, States, Starts
  <2>3. LimitStop(ex, late, s, f) \in [Tasks -> BOOLEAN] /\ LimitWait(ex) \in BOOLEAN
    BY LimitStopType DEF LimitWait
  <2>4. exhausted' = ex /\ Commit(s, f, LimitStop(ex, late, s, f), LimitWait(ex))
    BY <2>1
  <2> HIDE DEF s, f
  <2>5. exhausted' \in BOOLEAN
    BY <2>4 DEF TypeOK, RecordTypeOK
  <2> QED
    BY <2>2, <2>3, <2>4, <2>5, CommitType DEF MarkUncertain, TypeOK, RecordTypeOK
<1> QED
  BY <1>1, <1>2

(* finish_without_entry keeps the types of the record. *)
LEMMA FinishType ==
    ASSUME TypeOK, NEW t \in Tasks, NEW s \in {"Stopped", "Failed"}, NEW pause \in BOOLEAN,
           NEW released \in BOOLEAN, FinishWithoutEntry(t, s, pause, released)
    PROVE  RecordTypeOK' /\ held' \in SUBSET Tasks
<1>1. [state EXCEPT ![t] = s] \in [Tasks -> States]
  BY DEF TypeOK, RecordTypeOK, States, Settled
<1>2. held' \in SUBSET Tasks
  BY DEF FinishWithoutEntry, TypeOK, ProcessTypeOK
<1>3. CASE NonEntryEvidence(t)
  BY <1>1, <1>2, <1>3, CommitType DEF FinishWithoutEntry, TypeOK, RecordTypeOK
<1>4. CASE ~NonEntryEvidence(t)
  BY <1>2, <1>4 DEF FinishWithoutEntry, limits, TypeOK, RecordTypeOK
<1> QED
  BY <1>3, <1>4

(* Edits keep the types. *)
LEMMA EditsType == ASSUME TypeOK, Edits PROVE TypeOK'
<1>1. ASSUME NEW t \in Tasks, Add(t) PROVE TypeOK'
  <2>1. RecordTypeOK'
    BY <1>1, ConstantsAssumption DEF CommitUnder, Add, Edit, Commit, limits, loop,
       workers, bounds, history, TypeOK, RecordTypeOK, ProcessTypeOK, States,
       Settled, Starts, Places, Owners, Statuses, CancelPlaces
  <2>2. ProcessTypeOK'
    BY <1>1 DEF Add, Edit, limits, loop, workers, bounds, history, TypeOK,
       RecordTypeOK, ProcessTypeOK, States, Settled, Starts, Places, Owners,
       Statuses, CancelPlaces
  <2> QED
    BY <2>1, <2>2 DEF TypeOK
<1>2. ASSUME NEW t \in Tasks, NEW d \in SUBSET InitialDeps[t], Revise(t, d) PROVE TypeOK'
  <2>1. RecordTypeOK'
    <3>1. d \in SUBSET Tasks
      BY ConstantsAssumption
    <3>2. /\ version' \in [Tasks -> Nat]
          /\ deps' \in [Tasks -> SUBSET Tasks]
      BY <1>2, <3>1 DEF Revise, TypeOK, RecordTypeOK
    <3> QED
      BY <1>2, <3>2, CommitType DEF Revise, TypeOK, RecordTypeOK
  <2>2. ProcessTypeOK'
    BY <1>2 DEF Revise, Edit, limits, loop, workers, bounds, history, TypeOK,
       RecordTypeOK, ProcessTypeOK, States, Settled, Starts, Places, Owners,
       Statuses, CancelPlaces
  <2> QED
    BY <2>1, <2>2 DEF TypeOK
<1>3. ASSUME NEW t \in Tasks, Remove(t) PROVE TypeOK'
  <2>1. RecordTypeOK'
    BY <1>3, ConstantsAssumption DEF CommitUnder, Remove, Edit, limits, loop,
       workers, bounds, history, TypeOK, RecordTypeOK, ProcessTypeOK, States,
       Settled, Starts, Places, Owners, Statuses, CancelPlaces
  <2>2. ProcessTypeOK'
    BY <1>3 DEF Remove, Edit, limits, loop, workers, bounds, history, TypeOK,
       RecordTypeOK, ProcessTypeOK, States, Settled, Starts, Places, Owners,
       Statuses, CancelPlaces
  <2> QED
    BY <2>1, <2>2 DEF TypeOK
<1>4. ASSUME NEW t \in Tasks, Stop(t) PROVE TypeOK'
  <2>1. RecordTypeOK'
    BY <1>4, ConstantsAssumption DEF CommitUnder, Stop, Edit, Commit, limits, loop,
       workers, bounds, history, TypeOK, RecordTypeOK, ProcessTypeOK, States,
       Settled, Starts, Places, Owners, Statuses, CancelPlaces
  <2>2. ProcessTypeOK'
    BY <1>4 DEF Stop, Edit, limits, loop, workers, bounds, history, TypeOK,
       RecordTypeOK, ProcessTypeOK, States, Settled, Starts, Places, Owners,
       Statuses, CancelPlaces
  <2> QED
    BY <2>1, <2>2 DEF TypeOK
<1>5. ASSUME NEW t \in Tasks, NEW c \in Tasks, NEW r \in SUBSET Tasks, AdoptCorrection(t, c, r) PROVE TypeOK'
  <2>1. RecordTypeOK'
    BY <1>5, ConstantsAssumption DEF CommitUnder, AdoptCorrection, Edit, limits,
       loop, workers, bounds, history, TypeOK, RecordTypeOK, ProcessTypeOK, States,
       Settled, Starts, Places, Owners, Statuses, CancelPlaces
  <2>2. ProcessTypeOK'
    BY <1>5 DEF AdoptCorrection, Edit, limits, loop, workers, bounds, history,
       TypeOK, RecordTypeOK, ProcessTypeOK, States, Settled, Starts, Places, Owners,
       Statuses, CancelPlaces
  <2> QED
    BY <2>1, <2>2 DEF TypeOK
<1>6. ASSUME NEW c \in 1 .. MaxConcurrent, NEW f \in 1 .. MaxFailures, NEW ex \in BOOLEAN, SetLimits(c, f, ex) PROVE TypeOK'
  <2>1. RecordTypeOK'
    BY <1>6, ConstantsAssumption DEF CommitUnder, SetLimits, Edit, limits, loop,
       workers, bounds, history, TypeOK, RecordTypeOK, ProcessTypeOK, States,
       Settled, Starts, Places, Owners, Statuses, CancelPlaces
  <2>2. ProcessTypeOK'
    BY <1>6 DEF SetLimits, Edit, limits, loop, workers, bounds, history, TypeOK,
       RecordTypeOK, ProcessTypeOK, States, Settled, Starts, Places, Owners,
       Statuses, CancelPlaces
  <2> QED
    BY <2>1, <2>2 DEF TypeOK
<1>7. ASSUME Continue PROVE TypeOK'
  <2>1. RecordTypeOK'
    BY <1>7, ConstantsAssumption DEF CommitUnder, Continue, Edit, Commit, limits,
       loop, workers, bounds, history, TypeOK, RecordTypeOK, ProcessTypeOK, States,
       Settled, Starts, Places, Owners, Statuses, CancelPlaces
  <2>2. ProcessTypeOK'
    BY <1>7 DEF Continue, Edit, limits, loop, workers, bounds, history, TypeOK,
       RecordTypeOK, ProcessTypeOK, States, Settled, Starts, Places, Owners,
       Statuses, CancelPlaces
  <2> QED
    BY <2>1, <2>2 DEF TypeOK
<1>8. ASSUME BindInput PROVE TypeOK'
  <2>1. RecordTypeOK'
    BY <1>8, ConstantsAssumption DEF CommitUnder, BindInput, Edit, Commit, limits,
       loop, workers, bounds, history, TypeOK, RecordTypeOK, ProcessTypeOK, States,
       Settled, Starts, Places, Owners, Statuses, CancelPlaces
  <2>2. ProcessTypeOK'
    BY <1>8 DEF BindInput, Edit, limits, loop, workers, bounds, history, TypeOK,
       RecordTypeOK, ProcessTypeOK, States, Settled, Starts, Places, Owners,
       Statuses, CancelPlaces
  <2> QED
    BY <2>1, <2>2 DEF TypeOK
<1>9. ASSUME Wait PROVE TypeOK'
  <2>1. RecordTypeOK'
    BY <1>9, ConstantsAssumption DEF CommitUnder, Wait, Edit, Commit, limits, loop,
       workers, bounds, history, TypeOK, RecordTypeOK, ProcessTypeOK, States,
       Settled, Starts, Places, Owners, Statuses, CancelPlaces
  <2>2. ProcessTypeOK'
    BY <1>9 DEF Wait, Edit, limits, loop, workers, bounds, history, TypeOK,
       RecordTypeOK, ProcessTypeOK, States, Settled, Starts, Places, Owners,
       Statuses, CancelPlaces
  <2> QED
    BY <2>1, <2>2 DEF TypeOK
<1>10. ASSUME Finish PROVE TypeOK'
  <2>1. RecordTypeOK'
    BY <1>10, ConstantsAssumption DEF CommitUnder, Finish, Edit, Commit, limits,
       loop, workers, bounds, history, TypeOK, RecordTypeOK, ProcessTypeOK, States,
       Settled, Starts, Places, Owners, Statuses, CancelPlaces
  <2>2. ProcessTypeOK'
    BY <1>10 DEF Finish, Edit, limits, loop, workers, bounds, history, TypeOK,
       RecordTypeOK, ProcessTypeOK, States, Settled, Starts, Places, Owners,
       Statuses, CancelPlaces
  <2> QED
    BY <2>1, <2>2 DEF TypeOK
<1> QED
  BY <1>1, <1>2, <1>3, <1>4, <1>5, <1>6, <1>7, <1>8, <1>9, <1>10 DEF Edits

(* Steps of the scheduler keep the types. *)
LEMMA TickType == ASSUME TypeOK, Tick PROVE TypeOK'
<1>1. ASSUME NEW ex \in Accrued, NEW late \in SUBSET Open, TickBegin(ex, late) PROVE TypeOK'
  <2>1. RecordTypeOK'
    BY <1>1, ConstantsAssumption DEF CommitUnder, LimitStop, LimitWait, Accrued,
       TickBegin, Observe, Commit, limits, loop, workers, bounds, history, TypeOK,
       RecordTypeOK, ProcessTypeOK, States, Settled, Starts, Places, Owners,
       Statuses, CancelPlaces
  <2>2. ProcessTypeOK'
    BY <1>1 DEF TickBegin, Observe, limits, loop, workers, bounds, history, TypeOK,
       RecordTypeOK, ProcessTypeOK, States, Settled, Starts, Places, Owners,
       Statuses, CancelPlaces
  <2> QED
    BY <2>1, <2>2 DEF TypeOK
<1>2. ASSUME NEW t \in Tasks, NEW ex \in Accrued, NEW late \in SUBSET Open, TickStart(t, ex, late) PROVE TypeOK'
  <2>1. RecordTypeOK'
    BY <1>2, ConstantsAssumption DEF CommitUnder, LimitStop, LimitWait, Accrued,
       TickStart, TickResolved, TickAt, Commit, limits, loop, workers, bounds,
       history, TypeOK, RecordTypeOK, ProcessTypeOK, States, Settled, Starts, Places,
       Owners, Statuses, CancelPlaces
  <2>2. ProcessTypeOK'
    BY <1>2 DEF TickStart, TickResolved, TickAt, limits, loop, workers, bounds,
       history, TypeOK, RecordTypeOK, ProcessTypeOK, States, Settled, Starts, Places,
       Owners, Statuses, CancelPlaces
  <2> QED
    BY <2>1, <2>2 DEF TypeOK
<1>3. ASSUME NEW t \in Tasks, NEW ex \in Accrued, NEW late \in SUBSET Open, TickPostpone(t, ex, late) PROVE TypeOK'
  <2>1. RecordTypeOK'
    BY <1>3, ConstantsAssumption DEF CommitUnder, LimitStop, LimitWait, Accrued,
       TickPostpone, TickResolved, TickAt, Commit, limits, loop, workers, bounds,
       history, TypeOK, RecordTypeOK, ProcessTypeOK, States, Settled, Starts, Places,
       Owners, Statuses, CancelPlaces
  <2>2. ProcessTypeOK'
    BY <1>3 DEF TickPostpone, TickResolved, TickAt, limits, loop, workers, bounds,
       history, TypeOK, RecordTypeOK, ProcessTypeOK, States, Settled, Starts, Places,
       Owners, Statuses, CancelPlaces
  <2> QED
    BY <2>1, <2>2 DEF TypeOK
<1>4. ASSUME NEW t \in Tasks, NEW ex \in Accrued, NEW late \in SUBSET Open, TickRefuse(t, ex, late) PROVE TypeOK'
  <2>1. RecordTypeOK'
    BY <1>4, ConstantsAssumption DEF CommitUnder, LimitStop, LimitWait, Accrued,
       TickRefuse, TickResolved, TickAt, Commit, limits, loop, workers, bounds,
       history, TypeOK, RecordTypeOK, ProcessTypeOK, States, Settled, Starts, Places,
       Owners, Statuses, CancelPlaces
  <2>2. ProcessTypeOK'
    BY <1>4 DEF TickRefuse, TickResolved, TickAt, limits, loop, workers, bounds,
       history, TypeOK, RecordTypeOK, ProcessTypeOK, States, Settled, Starts, Places,
       Owners, Statuses, CancelPlaces
  <2> QED
    BY <2>1, <2>2 DEF TypeOK
<1>5. ASSUME NEW t \in Tasks, TickRedispatch(t) PROVE TypeOK'
  <2>1. RecordTypeOK'
    BY <1>5, ConstantsAssumption DEF CommitUnder, Accrued, TickRedispatch, TickAt,
       Commit, limits, loop, workers, bounds, history, TypeOK, RecordTypeOK,
       ProcessTypeOK, States, Settled, Starts, Places, Owners, Statuses, CancelPlaces
  <2>2. ProcessTypeOK'
    BY <1>5 DEF TickRedispatch, TickAt, limits, loop, workers, bounds, history,
       TypeOK, RecordTypeOK, ProcessTypeOK, States, Settled, Starts, Places, Owners,
       Statuses, CancelPlaces
  <2> QED
    BY <2>1, <2>2 DEF TypeOK
<1>6. ASSUME NEW t \in Tasks, TickSkip(t) PROVE TypeOK'
  <2>1. RecordTypeOK'
    BY <1>6, ConstantsAssumption DEF CommitUnder, Accrued, TickSkip, TickAt, Commit,
       limits, loop, workers, bounds, history, TypeOK, RecordTypeOK, ProcessTypeOK,
       States, Settled, Starts, Places, Owners, Statuses, CancelPlaces
  <2>2. ProcessTypeOK'
    BY <1>6 DEF TickSkip, TickAt, limits, loop, workers, bounds, history, TypeOK,
       RecordTypeOK, ProcessTypeOK, States, Settled, Starts, Places, Owners,
       Statuses, CancelPlaces
  <2> QED
    BY <2>1, <2>2 DEF TypeOK
<1>7. ASSUME TickEnd PROVE TypeOK'
  <2>1. RecordTypeOK'
    BY <1>7, ConstantsAssumption DEF Accrued, TickEnd, durable, Handover, limits,
       loop, bounds, history, TypeOK, RecordTypeOK, ProcessTypeOK, States, Settled,
       Starts, Places, Owners, Statuses, CancelPlaces
  <2>2. ProcessTypeOK'
    BY <1>7 DEF TickEnd, durable, Handover, limits, loop, bounds, history, TypeOK,
       RecordTypeOK, ProcessTypeOK, States, Settled, Starts, Places, Owners,
       Statuses, CancelPlaces
  <2> QED
    BY <2>1, <2>2 DEF TypeOK
<1> QED
  BY <1>1, <1>2, <1>3, <1>4, <1>5, <1>6, <1>7 DEF Tick

(* Steps of an execution worker keep the types. *)
LEMMA ExecuteType == ASSUME TypeOK, NEW t \in Tasks, Execute(t) PROVE TypeOK'
<1>1. ASSUME ExecuteClaim(t) PROVE TypeOK'
  <2>1. RecordTypeOK'
    BY <1>1, ConstantsAssumption DEF ExecuteClaim, durable, limits, loop, bounds,
       history, TypeOK, RecordTypeOK, ProcessTypeOK, States, Settled, Starts, Places,
       Owners, Statuses, CancelPlaces
  <2>2. ProcessTypeOK'
    BY <1>1 DEF ExecuteClaim, durable, limits, loop, bounds, history, TypeOK,
       RecordTypeOK, ProcessTypeOK, States, Settled, Starts, Places, Owners,
       Statuses, CancelPlaces
  <2> QED
    BY <2>1, <2>2 DEF TypeOK
<1>2. ASSUME ExecuteCheck(t) PROVE TypeOK'
  <2>1. RecordTypeOK'
    BY <1>2, ConstantsAssumption DEF ExecuteCheck, durable, Goto, WorkerRest, limits,
       loop, bounds, history, TypeOK, RecordTypeOK, ProcessTypeOK, States, Settled,
       Starts, Places, Owners, Statuses, CancelPlaces
  <2>2. ProcessTypeOK'
    BY <1>2 DEF ExecuteCheck, durable, Goto, WorkerRest, limits, loop, bounds,
       history, TypeOK, RecordTypeOK, ProcessTypeOK, States, Settled, Starts, Places,
       Owners, Statuses, CancelPlaces
  <2> QED
    BY <2>1, <2>2 DEF TypeOK
<1>3. ASSUME NEW place \in {"entry", "defer", "fail", "uncertain"}, NEW claimed \in BOOLEAN, Prepare(t, place, claimed) PROVE TypeOK'
  <2>1. RecordTypeOK'
    BY <1>3, ConstantsAssumption DEF Prepare, durable, Goto, WorkerRest, limits,
       loop, bounds, TypeOK, RecordTypeOK, ProcessTypeOK, States, Settled, Starts,
       Places, Owners, Statuses, CancelPlaces
  <2>2. ProcessTypeOK'
    BY <1>3 DEF Prepare, durable, Goto, WorkerRest, limits, loop, bounds, TypeOK,
       RecordTypeOK, ProcessTypeOK, States, Settled, Starts, Places, Owners,
       Statuses, CancelPlaces
  <2> QED
    BY <2>1, <2>2 DEF TypeOK
<1>4. ASSUME NEW ex \in Accrued, DeferBeforeEntry(t, ex) PROVE TypeOK'
  <2>1. RecordTypeOK'
    <3>1. CASE Requeue(t) /\ exhausted' = ex
      <4> DEFINE s == [state EXCEPT ![t] = "Queued"]
      <4>1. s \in [Tasks -> States]
        BY DEF TypeOK, RecordTypeOK, States
      <4>2. Commit(s, start, stop, wait) /\ exhausted' \in BOOLEAN
        BY <1>4, <3>1 DEF Requeue, Accrued, TypeOK, RecordTypeOK
      <4>3. UNCHANGED <<sent, version, frozen, deps, reports, result, finish>>
        BY <1>4 DEF DeferBeforeEntry
      <4> HIDE DEF s
      <4> QED
        BY <4>1, <4>2, <4>3, CommitType DEF TypeOK, RecordTypeOK
    <3>2. CASE UNCHANGED <<state, start, stop, wait, removed, adopted, limits, exhausted>>
      BY <1>4, <3>2 DEF DeferBeforeEntry, limits, TypeOK, RecordTypeOK
    <3> QED
      BY <1>4, <3>1, <3>2 DEF DeferBeforeEntry
  <2>2. ProcessTypeOK'
    BY <1>4 DEF DeferBeforeEntry, Requeue, Release, Goto, WorkerRest, limits, loop,
       bounds, history, TypeOK, RecordTypeOK, ProcessTypeOK, States, Settled, Starts,
       Places, Owners, Statuses, CancelPlaces
  <2> QED
    BY <2>1, <2>2 DEF TypeOK
<1>5. ASSUME NEW ex \in Accrued, NEW late \in SUBSET Open, NEW place \in {"settle", "fail", "pause", "done", "stop"}, EntryRefused(t, ex, late, place) PROVE TypeOK'
  <2>1. RecordTypeOK'
    BY <1>5, ConstantsAssumption DEF CommitUnder, LimitStop, LimitWait, Accrued,
       EntryRefused, EntryObserved, Goto, WorkerRest, Commit, limits, loop, bounds,
       history, TypeOK, RecordTypeOK, ProcessTypeOK, States, Settled, Starts, Places,
       Owners, Statuses, CancelPlaces
  <2>2. ProcessTypeOK'
    BY <1>5 DEF EntryRefused, EntryObserved, Goto, WorkerRest, limits, loop, bounds,
       history, TypeOK, RecordTypeOK, ProcessTypeOK, States, Settled, Starts, Places,
       Owners, Statuses, CancelPlaces
  <2> QED
    BY <2>1, <2>2 DEF TypeOK
<1>6. ASSUME NEW ex \in Accrued, NEW late \in SUBSET Open, CommitEntry(t, ex, late) PROVE TypeOK'
  <2>1. RecordTypeOK'
    BY <1>6, ConstantsAssumption DEF CommitUnder, LimitStop, LimitWait, Accrued,
       CommitEntry, EntryObserved, Goto, WorkerRest, Commit, limits, loop, bounds,
       history, TypeOK, RecordTypeOK, ProcessTypeOK, States, Settled, Starts, Places,
       Owners, Statuses, CancelPlaces
  <2>2. ProcessTypeOK'
    BY <1>6 DEF CommitEntry, EntryObserved, Goto, WorkerRest, limits, loop, bounds,
       history, TypeOK, RecordTypeOK, ProcessTypeOK, States, Settled, Starts, Places,
       Owners, Statuses, CancelPlaces
  <2> QED
    BY <2>1, <2>2 DEF TypeOK
<1>7. ASSUME Enter(t) PROVE TypeOK'
  <2>1. RecordTypeOK'
    BY <1>7, ConstantsAssumption DEF Accrued, Enter, durable, Goto, WorkerRest,
       limits, loop, bounds, TypeOK, RecordTypeOK, ProcessTypeOK, States, Settled,
       Starts, Places, Owners, Statuses, CancelPlaces
  <2>2. ProcessTypeOK'
    BY <1>7 DEF Enter, durable, Goto, WorkerRest, limits, loop, bounds, TypeOK,
       RecordTypeOK, ProcessTypeOK, States, Settled, Starts, Places, Owners,
       Statuses, CancelPlaces
  <2> QED
    BY <2>1, <2>2 DEF TypeOK
<1>8. ASSUME AfterReturn(t) PROVE TypeOK'
  <2>1. RecordTypeOK'
    BY <1>8, ConstantsAssumption DEF Accrued, AfterReturn, durable, Goto, WorkerRest,
       limits, loop, bounds, history, TypeOK, RecordTypeOK, ProcessTypeOK, States,
       Settled, Starts, Places, Owners, Statuses, CancelPlaces
  <2>2. ProcessTypeOK'
    BY <1>8 DEF AfterReturn, durable, Goto, WorkerRest, limits, loop, bounds,
       history, TypeOK, RecordTypeOK, ProcessTypeOK, States, Settled, Starts, Places,
       Owners, Statuses, CancelPlaces
  <2> QED
    BY <2>1, <2>2 DEF TypeOK
<1>9. ASSUME Settle(t) PROVE TypeOK'
  <2>1. RecordTypeOK'
    BY <1>9, ConstantsAssumption DEF Accrued, Settle, durable, Goto, WorkerRest,
       limits, loop, bounds, history, TypeOK, RecordTypeOK, ProcessTypeOK, States,
       Settled, Starts, Places, Owners, Statuses, CancelPlaces
  <2>2. ProcessTypeOK'
    BY <1>9 DEF Settle, durable, Goto, WorkerRest, limits, loop, bounds, history,
       TypeOK, RecordTypeOK, ProcessTypeOK, States, Settled, Starts, Places, Owners,
       Statuses, CancelPlaces
  <2> QED
    BY <2>1, <2>2 DEF TypeOK
<1>10. ASSUME WorkerFinish(t) PROVE TypeOK'
  <2>1. RecordTypeOK' /\ held' \in SUBSET Tasks
    BY <1>10, FinishType DEF WorkerFinish, TypeOK, ProcessTypeOK
  <2>2. ProcessTypeOK'
    BY <1>10, <2>1 DEF WorkerFinish, Goto, WorkerRest, limits, loop, bounds, history,
       TypeOK, ProcessTypeOK, Places, Owners, CancelPlaces
  <2> QED
    BY <2>1, <2>2 DEF TypeOK
<1>11. ASSUME WorkerUncertain(t) PROVE TypeOK'
  <2>1. RecordTypeOK'
    BY <1>11, MarkUncertainType DEF WorkerUncertain, TypeOK, ProcessTypeOK
  <2>2. ProcessTypeOK'
    BY <1>11, <2>1 DEF WorkerUncertain, Goto, WorkerRest, limits, loop, bounds,
       history, TypeOK, ProcessTypeOK, Places, Owners, CancelPlaces
  <2> QED
    BY <2>1, <2>2 DEF TypeOK
<1>12. ASSUME ExecuteReturn(t) PROVE TypeOK'
  <2>1. RecordTypeOK'
    BY <1>12, ConstantsAssumption DEF Accrued, ExecuteReturn, durable, Release,
       WorkerRest, limits, loop, bounds, history, TypeOK, RecordTypeOK,
       ProcessTypeOK, States, Settled, Starts, Places, Owners, Statuses, CancelPlaces
  <2>2. ProcessTypeOK'
    BY <1>12 DEF ExecuteReturn, durable, Release, WorkerRest, limits, loop, bounds,
       history, TypeOK, RecordTypeOK, ProcessTypeOK, States, Settled, Starts, Places,
       Owners, Statuses, CancelPlaces
  <2> QED
    BY <2>1, <2>2 DEF TypeOK
<1> QED
  BY <1>1, <1>2, <1>3, <1>4, <1>5, <1>6, <1>7, <1>8, <1>9, <1>10, <1>11, <1>12 DEF
     Execute

(* Reports and heartbeats of an adapter keep the types. *)
LEMMA AdapterType == ASSUME TypeOK, NEW t \in Tasks, Adapter(t) PROVE TypeOK'
<1>1. ASSUME NEW ex \in Accrued, NEW late \in SUBSET Open, NEW status \in Statuses \cup {"progress"}, NEW satisfied \in BOOLEAN, Record(t, ex, late, status, satisfied) PROVE TypeOK'
  <2>1. RecordTypeOK'
    <3> DEFINE s == IF status = "progress" THEN state
                    ELSE [state EXCEPT ![t] =
                       CASE status = "Success" -> IF satisfied THEN "Completed" ELSE "Failed"
                         [] status = "Failure" -> "Failed"
                         [] status = "Cancelled" -> "Stopped"
                         [] status = "Uncertain" -> "Uncertain"]
    <3>1. s \in [Tasks -> States]
      BY DEF TypeOK, RecordTypeOK, States, Settled, Statuses
    <3>2. Commit(s, start, LimitStop(ex, late, s, start), LimitWait(ex))
      BY <1>1 DEF Record
    <3>3. LimitStop(ex, late, s, start) \in [Tasks -> BOOLEAN] /\ LimitWait(ex) \in BOOLEAN
      BY LimitStopType DEF LimitWait
    <3> HIDE DEF s
    <3>4. reports' \in [Tasks -> 0 .. MaxReports]
      BY <1>1, ConstantsAssumption DEF Record, ReportAccepted, TypeOK, RecordTypeOK
    <3>5. result' \in [Tasks -> Statuses \cup {"none"}] /\ exhausted' \in BOOLEAN
      BY <1>1 DEF Record, Accrued, TypeOK, RecordTypeOK
    <3> QED
      BY <1>1, <3>1, <3>2, <3>3, <3>4, <3>5, CommitType DEF Record, TypeOK,
         RecordTypeOK
  <2>2. ProcessTypeOK'
    BY <1>1 DEF Record, ReportAccepted, WorkerRest, workers, limits, loop, workers,
       bounds, history, TypeOK, RecordTypeOK, ProcessTypeOK, States, Settled, Starts,
       Places, Owners, Statuses, CancelPlaces
  <2> QED
    BY <2>1, <2>2 DEF TypeOK
<1>2. ASSUME NEW ex \in Accrued, NEW late \in SUBSET Open, Heartbeat(t, ex, late) PROVE TypeOK'
  <2>1. RecordTypeOK'
    BY <1>2, ConstantsAssumption DEF CommitUnder, LimitStop, LimitWait, Accrued,
       Heartbeat, Observe, WorkerRest, Commit, workers, limits, loop, workers,
       bounds, history, TypeOK, RecordTypeOK, ProcessTypeOK, States, Settled, Starts,
       Places, Owners, Statuses, CancelPlaces
  <2>2. ProcessTypeOK'
    BY <1>2 DEF Heartbeat, Observe, WorkerRest, workers, limits, loop, workers,
       bounds, history, TypeOK, RecordTypeOK, ProcessTypeOK, States, Settled, Starts,
       Places, Owners, Statuses, CancelPlaces
  <2> QED
    BY <2>1, <2>2 DEF TypeOK
<1>3. ASSUME AdapterReturns(t) PROVE TypeOK'
  <2>1. RecordTypeOK'
    BY <1>3, ConstantsAssumption DEF Accrued, AdapterReturns, durable, Goto,
       WorkerRest, limits, loop, bounds, history, TypeOK, RecordTypeOK,
       ProcessTypeOK, States, Settled, Starts, Places, Owners, Statuses, CancelPlaces
  <2>2. ProcessTypeOK'
    BY <1>3 DEF AdapterReturns, durable, Goto, WorkerRest, limits, loop, bounds,
       history, TypeOK, RecordTypeOK, ProcessTypeOK, States, Settled, Starts, Places,
       Owners, Statuses, CancelPlaces
  <2> QED
    BY <2>1, <2>2 DEF TypeOK
<1> QED
  BY <1>1, <1>2, <1>3 DEF Adapter

(* Steps of a cancellation worker keep the types. *)
LEMMA CancellationType == ASSUME TypeOK, NEW t \in Tasks, Cancellation(t) PROVE TypeOK'
<1>1. ASSUME CancelBegin(t) PROVE TypeOK'
  <2>1. RecordTypeOK'
    BY <1>1, ConstantsAssumption DEF CancelBegin, durable, CancelRest, limits, loop,
       workers, bounds, history, TypeOK, RecordTypeOK, ProcessTypeOK, States,
       Settled, Starts, Places, Owners, Statuses, CancelPlaces
  <2>2. ProcessTypeOK'
    BY <1>1 DEF CancelBegin, durable, CancelRest, limits, loop, workers, bounds,
       history, TypeOK, RecordTypeOK, ProcessTypeOK, States, Settled, Starts, Places,
       Owners, Statuses, CancelPlaces
  <2> QED
    BY <2>1, <2>2 DEF TypeOK
<1>2. ASSUME CancelFinish(t) PROVE TypeOK'
  <2>1. RecordTypeOK' /\ held' \in SUBSET Tasks
    BY <1>2, FinishType DEF CancelFinish, TypeOK, ProcessTypeOK
  <2>2. ProcessTypeOK'
    BY <1>2, <2>1 DEF CancelFinish, CancelRest, limits, loop, workers, bounds,
       history, TypeOK, ProcessTypeOK, Places, Owners, CancelPlaces
  <2> QED
    BY <2>1, <2>2 DEF TypeOK
<1>3. ASSUME NEW place \in {"acknowledged", "unresolved"}, CancelSend(t, place) PROVE TypeOK'
  <2>1. RecordTypeOK'
    BY <1>3, ConstantsAssumption DEF CancelSend, durable, CancelRest, limits, loop,
       workers, bounds, history, TypeOK, RecordTypeOK, ProcessTypeOK, States,
       Settled, Starts, Places, Owners, Statuses, CancelPlaces
  <2>2. ProcessTypeOK'
    BY <1>3 DEF CancelSend, durable, CancelRest, limits, loop, workers, bounds,
       history, TypeOK, RecordTypeOK, ProcessTypeOK, States, Settled, Starts, Places,
       Owners, Statuses, CancelPlaces
  <2> QED
    BY <2>1, <2>2 DEF TypeOK
<1>4. ASSUME CancelAcknowledged(t) PROVE TypeOK'
  <2>1. RecordTypeOK'
    BY <1>4, ConstantsAssumption DEF CommitUnder, CancelAcknowledged, CancelRest,
       Commit, limits, loop, workers, bounds, history, TypeOK, RecordTypeOK,
       ProcessTypeOK, States, Settled, Starts, Places, Owners, Statuses, CancelPlaces
  <2>2. ProcessTypeOK'
    BY <1>4 DEF CancelAcknowledged, CancelRest, limits, loop, workers, bounds,
       history, TypeOK, RecordTypeOK, ProcessTypeOK, States, Settled, Starts, Places,
       Owners, Statuses, CancelPlaces
  <2> QED
    BY <2>1, <2>2 DEF TypeOK
<1>5. ASSUME CancelUnresolved(t) PROVE TypeOK'
  <2>1. RecordTypeOK'
    BY <1>5, MarkUncertainType DEF CancelUnresolved, TypeOK, ProcessTypeOK
  <2>2. ProcessTypeOK'
    BY <1>5, <2>1 DEF CancelUnresolved, CancelRest, limits, loop, workers, bounds,
       history, TypeOK, ProcessTypeOK, Places, Owners, CancelPlaces
  <2> QED
    BY <2>1, <2>2 DEF TypeOK
<1> QED
  BY <1>1, <1>2, <1>3, <1>4, <1>5 DEF Cancellation

(* Steps of recover() keep the types. *)
LEMMA RecoveryType == ASSUME TypeOK, Recovery PROVE TypeOK'
<1>1. ASSUME NEW ex \in Accrued, NEW late \in SUBSET Open, Restart(ex, late) PROVE TypeOK'
  <2>1. RecordTypeOK'
    BY <1>1, ConstantsAssumption DEF CommitUnder, LimitStop, LimitWait, Accrued,
       Restart, Observe, Commit, limits, loop, workers, bounds, history, TypeOK,
       RecordTypeOK, ProcessTypeOK, States, Settled, Starts, Places, Owners,
       Statuses, CancelPlaces
  <2>2. ProcessTypeOK'
    BY <1>1 DEF Restart, Observe, Present, limits, loop, workers, bounds, history,
       TypeOK, RecordTypeOK, ProcessTypeOK, States, Settled, Starts, Places, Owners,
       Statuses, CancelPlaces
  <2> QED
    BY <2>1, <2>2 DEF TypeOK
<1>2. ASSUME NEW t \in Tasks, RecoverSettled(t) PROVE TypeOK'
  <2>1. RecordTypeOK'
    BY <1>2, ConstantsAssumption DEF Accrued, RecoverSettled, durable, RecoverAt,
       limits, loop, workers, bounds, history, TypeOK, RecordTypeOK, ProcessTypeOK,
       States, Settled, Starts, Places, Owners, Statuses, CancelPlaces
  <2>2. ProcessTypeOK'
    BY <1>2 DEF RecoverSettled, durable, RecoverAt, limits, loop, workers, bounds,
       history, TypeOK, RecordTypeOK, ProcessTypeOK, States, Settled, Starts, Places,
       Owners, Statuses, CancelPlaces
  <2> QED
    BY <2>1, <2>2 DEF TypeOK
<1>3. ASSUME NEW t \in Tasks, RecoverEntered(t) PROVE TypeOK'
  <2>1. RecordTypeOK'
    BY <1>3, MarkUncertainType DEF RecoverEntered, TypeOK, ProcessTypeOK
  <2>2. ProcessTypeOK'
    BY <1>3, <2>1 DEF RecoverEntered, RecoverAt, limits, loop, workers, bounds,
       history, TypeOK, ProcessTypeOK, Places, Owners, CancelPlaces
  <2> QED
    BY <2>1, <2>2 DEF TypeOK
<1>4. ASSUME NEW t \in Tasks, RecoverUnentered(t) PROVE TypeOK'
  <2>1. RecordTypeOK'
    <3>1. CASE Cardinality(out) >= RecoveryPage
      <4> DEFINE s == [state EXCEPT ![t] = "Queued"]
      <4>1. s \in [Tasks -> States]
        BY DEF TypeOK, RecordTypeOK, States
      <4>2. Commit(s, start, stop, wait)
        BY <1>4, <3>1 DEF RecoverUnentered
      <4>3. UNCHANGED <<sent, version, frozen, deps, reports, result, finish, exhausted>>
        BY <1>4 DEF RecoverUnentered
      <4> HIDE DEF s
      <4> QED
        BY <4>1, <4>2, <4>3, CommitType DEF TypeOK, RecordTypeOK
    <3>2. CASE ~(Cardinality(out) >= RecoveryPage)
      BY <1>4, <3>2 DEF RecoverUnentered, limits, TypeOK, RecordTypeOK
    <3> QED
      BY <3>1, <3>2
  <2>2. ProcessTypeOK'
    BY <1>4 DEF RecoverUnentered, RecoverAt, limits, loop, workers, bounds, history,
       TypeOK, RecordTypeOK, ProcessTypeOK, States, Settled, Starts, Places, Owners,
       Statuses, CancelPlaces
  <2> QED
    BY <2>1, <2>2 DEF TypeOK
<1>5. ASSUME NEW t \in Tasks, RecoverOther(t) PROVE TypeOK'
  <2>1. RecordTypeOK'
    BY <1>5, ConstantsAssumption DEF Accrued, RecoverOther, durable, RecoverAt,
       limits, loop, workers, bounds, history, TypeOK, RecordTypeOK, ProcessTypeOK,
       States, Settled, Starts, Places, Owners, Statuses, CancelPlaces
  <2>2. ProcessTypeOK'
    BY <1>5 DEF RecoverOther, durable, RecoverAt, limits, loop, workers, bounds,
       history, TypeOK, RecordTypeOK, ProcessTypeOK, States, Settled, Starts, Places,
       Owners, Statuses, CancelPlaces
  <2> QED
    BY <2>1, <2>2 DEF TypeOK
<1>6. ASSUME RecoverEnd PROVE TypeOK'
  <2>1. RecordTypeOK'
    BY <1>6, ConstantsAssumption DEF Accrued, RecoverEnd, durable, Handover, limits,
       loop, bounds, history, TypeOK, RecordTypeOK, ProcessTypeOK, States, Settled,
       Starts, Places, Owners, Statuses, CancelPlaces
  <2>2. ProcessTypeOK'
    BY <1>6 DEF RecoverEnd, durable, Handover, limits, loop, bounds, history, TypeOK,
       RecordTypeOK, ProcessTypeOK, States, Settled, Starts, Places, Owners,
       Statuses, CancelPlaces
  <2> QED
    BY <2>1, <2>2 DEF TypeOK
<1> QED
  BY <1>1, <1>2, <1>3, <1>4, <1>5, <1>6 DEF Recovery

(* Failed clock and store calls keep the types. *)
LEMMA FaultType == ASSUME TypeOK, Fault PROVE TypeOK'
<1>1. ASSUME TickFault PROVE TypeOK'
  <2>1. RecordTypeOK'
    BY <1>1, ConstantsAssumption DEF TickFault, durable, limits, loop, workers,
       bounds, history, TypeOK, RecordTypeOK, ProcessTypeOK, States, Settled, Starts,
       Places, Owners, Statuses, CancelPlaces
  <2>2. ProcessTypeOK'
    BY <1>1, ConstantsAssumption DEF TickFault, durable, limits, loop, workers,
       bounds, history, TypeOK, RecordTypeOK, ProcessTypeOK, States, Settled, Starts,
       Places, Owners, Statuses, CancelPlaces
  <2> QED
    BY <2>1, <2>2 DEF TypeOK
<1>2. ASSUME NEW t \in Tasks, WorkerFault(t) PROVE TypeOK'
  <2>1. RecordTypeOK'
    BY <1>2, ConstantsAssumption DEF WorkerFault, durable, Goto, limits, loop,
       bounds, history, TypeOK, RecordTypeOK, ProcessTypeOK, States, Settled, Starts,
       Places, Owners, Statuses, CancelPlaces
  <2>2. ProcessTypeOK'
    BY <1>2, ConstantsAssumption DEF WorkerFault, durable, Goto, limits, loop,
       bounds, history, TypeOK, RecordTypeOK, ProcessTypeOK, States, Settled, Starts,
       Places, Owners, Statuses, CancelPlaces
  <2> QED
    BY <2>1, <2>2 DEF TypeOK
<1>3. ASSUME NEW t \in Tasks, ReleaseFault(t) PROVE TypeOK'
  <2>1. RecordTypeOK' /\ held' \in SUBSET Tasks
    BY <1>3, FinishType DEF ReleaseFault, TypeOK, ProcessTypeOK
  <2>2. ProcessTypeOK'
    BY <1>3, <2>1, ConstantsAssumption DEF ReleaseFault, Goto, limits, loop, bounds,
       history, TypeOK, ProcessTypeOK, Places, Owners, CancelPlaces
  <2> QED
    BY <2>1, <2>2 DEF TypeOK
<1>4. ASSUME NEW c \in cancelling, CancelFault(c) PROVE TypeOK'
  <2>1. RecordTypeOK'
    BY <1>4, ConstantsAssumption DEF CancelFault, durable, CancelRest, limits, loop,
       workers, bounds, history, TypeOK, RecordTypeOK, ProcessTypeOK, States,
       Settled, Starts, Places, Owners, Statuses, CancelPlaces
  <2>2. ProcessTypeOK'
    BY <1>4, ConstantsAssumption DEF CancelFault, durable, CancelRest, limits, loop,
       workers, bounds, history, TypeOK, RecordTypeOK, ProcessTypeOK, States,
       Settled, Starts, Places, Owners, Statuses, CancelPlaces
  <2> QED
    BY <2>1, <2>2 DEF TypeOK
<1> QED
  BY <1>1, <1>2, <1>3, <1>4 DEF Fault

(* Every step keeps the types. *)
LEMMA TypeStep == ASSUME TypeOK, [Next]_vars PROVE TypeOK'
<1>1. CASE BeginShutdown
  BY <1>1 DEF BeginShutdown, durable, loop, workers, bounds, history, TypeOK,
     RecordTypeOK, ProcessTypeOK
<1>2. CASE Crash
  <2>1. RecordTypeOK'
    BY <1>2 DEF Crash, durable, TypeOK, RecordTypeOK
  <2>2. ProcessTypeOK'
    <3>1. crashes' \in 0 .. MaxCrashes
      BY <1>2, ConstantsAssumption DEF Crash, TypeOK, ProcessTypeOK
    <3> QED
      BY <1>2, <3>1 DEF Crash, history, TypeOK, ProcessTypeOK, Places, Owners
  <2> QED
    BY <2>1, <2>2 DEF TypeOK
<1>3. CASE UNCHANGED vars
  BY <1>3 DEF vars, durable, loop, workers, bounds, history, TypeOK, RecordTypeOK,
     ProcessTypeOK
<1> QED
  BY <1>1, <1>2, <1>3, EditsType, TickType, ExecuteType, AdapterType,
     CancellationType, RecoveryType, FaultType DEF Next

(* Initially, and after every step, the record and the process have their types. *)
THEOREM TypeCorrect == Spec => []TypeOK
<1>1. Init => TypeOK
  <2> SUFFICES ASSUME Init PROVE TypeOK
    OBVIOUS
  <2>0. /\ MaxConcurrent \in 1 .. MaxConcurrent /\ MaxFailures \in 1 .. MaxFailures
        /\ 0 \in 0 .. MaxReports /\ 0 \in 0 .. MaxCrashes /\ 0 \in 0 .. MaxFaults
        /\ 0 \in Nat
    BY ConstantsAssumption
  <2>1. RecordTypeOK
    BY <2>0, ConstantsAssumption DEF Init, RecordTypeOK, States, Starts
  <2>2. ProcessTypeOK
    BY <2>0 DEF Init, ProcessTypeOK, Owners, Places
  <2> QED
    BY <2>1, <2>2 DEF TypeOK
<1> QED
  BY <1>1, TypeStep, PTL DEF Spec

=============================================================================
