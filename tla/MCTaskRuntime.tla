---------------------------- MODULE MCTaskRuntime ----------------------------
(***************************************************************************)
(* Instances of TaskRuntime for model checking. One task takes every       *)
(* action; with more tasks the next-state relation is restricted to the    *)
(* actions whose interplay between tasks an instance is about.             *)
(***************************************************************************)
EXTENDS TaskRuntime, TLC

CONSTANTS t1, t2, t3

NoDeps == [t \in Tasks |-> {}]
NoCorrections == [t \in Tasks |-> NoTask]

Symmetric == Permutations(Tasks)

(* t2 corrects t1, and t3 depends on t1. *)
ChainDeps == (t1 :> {} @@ t2 :> {} @@ t3 :> {t1})
ChainCorrections == (t1 :> NoTask @@ t2 :> t1 @@ t3 :> NoTask)

-----------------------------------------------------------------------------
(* Two tasks side by side, under limits that change: workers, stops, the pause of  *)
(* the workflow, crashes and recovery.                                             *)
PairNext ==
    \/ \E t \in Tasks : Add(t) \/ Stop(t)
    \/ SetLimits(1, failures, exhausted)
    \/ Wait
    \/ Continue
    \/ Tick
    \/ \E t \in Tasks : Execute(t) \/ AdapterReturns(t) \/ CancelBegin(t) \/ CancelFinish(t)
    \/ \E t \in Tasks : Record(t, exhausted, {}, "Success", TRUE)
    \/ Recovery
    \/ Crash

PairInit == Init /\ ~finish

PairSpec == PairInit /\ [][PairNext]_vars

-----------------------------------------------------------------------------
(* Corrections of failed tasks, their adoption and the failure limits. *)
CorrectionNext ==
    \/ \E t \in Tasks : Add(t) \/ Remove(t) \/ Stop(t)
    \/ \E t, c \in Tasks, r \in SUBSET Tasks : AdoptCorrection(t, c, r)
    \/ \E f \in 1 .. MaxFailures : SetLimits(MaxConcurrent, f, FALSE)
    \/ BindInput
    \/ Continue
    \/ Finish
    \/ \E t \in Tasks :
         \/ TickStart(t, FALSE, {})
         \/ TickRefuse(t, FALSE, {})
         \/ TickSkip(t)
         \/ ExecuteClaim(t)
         \/ ExecuteCheck(t)
         \/ Prepare(t, "entry", TRUE)
         \/ EntryRefused(t, FALSE, {}, "fail")
         \/ EntryRefused(t, FALSE, {}, "stop")
         \/ CommitEntry(t, FALSE, {})
         \/ Enter(t)
         \/ \E status \in {"Success", "Failure"} : Record(t, FALSE, {}, status, TRUE)
         \/ AdapterReturns(t)
         \/ AfterReturn(t)
         \/ Settle(t)
         \/ WorkerFinish(t)
         \/ WorkerUncertain(t)
         \/ ExecuteReturn(t)
         \/ CancelBegin(t)
         \/ CancelFinish(t)
    \/ TickBegin(FALSE, {})
    \/ TickEnd

CorrectionSpec == Init /\ [][CorrectionNext]_vars

-----------------------------------------------------------------------------
(* One task that is started, deferred, paused, stopped and recovered, for liveness *)
(* and for the behaviours that contradict the documentation.                       *)
ServingNext ==
    \/ \E t \in Tasks : Add(t) \/ Stop(t)
    \/ Wait
    \/ Continue
    \/ Tick
    \/ \E t \in Tasks : Execute(t) \/ Adapter(t) \/ Cancellation(t)
    \/ Recovery
    \/ Crash

(* The same with a shutdown. *)
LifeNext == ServingNext \/ BeginShutdown

LifeInit == Init /\ ~finish

ServingSpec == LifeInit /\ [][ServingNext]_vars /\ Fairness

LifeSpec == LifeInit /\ [][LifeNext]_vars /\ Fairness

=============================================================================
