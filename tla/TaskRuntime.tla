----------------------------- MODULE TaskRuntime -----------------------------
(***************************************************************************)
(* The durable task runtime of one workflow: crates/runtime/src/tasks.     *)
(*                                                                         *)
(* The durable state is the workflow record; the volatile state is what    *)
(* the daemon loses in a crash: the dispatches handed to the execution     *)
(* queue, the execution claims, the steps of the workers that are inside   *)
(* execute() and execute_cancellation(), and the scheduler's loop.         *)
(*                                                                         *)
(* The runtime's mutex (the "gate") makes the body of every handler that   *)
(* changes the record one step, except tick(), which holds the gate over a *)
(* loop that commits once per task: `owner' = "tick" is the gate held by   *)
(* that loop, and an action of another thread that needs the gate has      *)
(* GateFree as a conjunct.                                                 *)
(*                                                                         *)
(* Time is abstracted: observing the clock may or may not exhaust the      *)
(* workflow's cumulative execution allowance or a task's own maximum, at   *)
(* the points where the code observes it.                                  *)
(***************************************************************************)
EXTENDS Naturals, FiniteSets

CONSTANTS
    Tasks,          \* identities of the tasks that may ever be admitted
    NoTask,         \* not a task
    InitialDeps,    \* the dependencies a task is submitted with
    Corrects,       \* the task a corrective task corrects, or NoTask
    Required,       \* the tasks that are obligations of the workflow
    Workers,        \* execution worker threads
    MaxActive,      \* TaskRuntime.maximum_active_tasks
    RecoveryPage,   \* the starts recover() hands out at once (200)
    MaxConcurrent,  \* bound on limits.concurrent_tasks
    MaxFailures,    \* bound on limits.corrective_failures
    MaxVersion,     \* bound on a task's version
    MaxReports,     \* MAX_REPORTS_PER_DISPATCH
    MaxCrashes,     \* bound on crashes of the daemon
    MaxFaults       \* bound on failed clock or store calls

ASSUME ConstantsAssumption ==
    /\ NoTask \notin Tasks
    /\ IsFiniteSet(Tasks)
    /\ InitialDeps \in [Tasks -> SUBSET Tasks]
    /\ Corrects \in [Tasks -> Tasks \cup {NoTask}]
    /\ Required \subseteq Tasks
    /\ Workers \in Nat \ {0}
    /\ MaxActive \in Nat \ {0}
    /\ RecoveryPage \in Nat
    /\ MaxConcurrent \in Nat \ {0}
    /\ MaxFailures \in Nat \ {0}
    /\ MaxVersion \in Nat \ {0}
    /\ MaxReports \in Nat \ {0}
    /\ MaxCrashes \in Nat
    /\ MaxFaults \in Nat

VARIABLES
    \* the workflow record
    state,       \* TaskRecord.state, or "Absent" before the task is admitted
    start,       \* the frozen start: see Starts
    stop,        \* TaskRecord.stop_requested
    sent,        \* TaskRecord.cancellation_sent
    version,     \* TaskRecord.version
    frozen,      \* the version frozen with the start, 0 if there is none
    deps,        \* TaskDefinition.dependencies
    removed,     \* the tasks with TaskRecord.removed
    adopted,     \* TaskRecord.adopted_correction, or NoTask
    reports,     \* how many reports the start retains
    result,      \* the status of TaskRecord.result, or "none"
    wait,        \* wait_question is set
    finish,      \* finish_when_settled
    exhausted,   \* duration::remaining is zero
    concurrent,  \* limits.concurrent_tasks
    failures,    \* limits.corrective_failures
    \* the durable native path claims, by the task whose start holds them
    held,
    \* volatile
    owner,       \* what the effect owner's thread does: see Owners
    closed,      \* admission_closed
    todo,        \* the tasks the loop of tick() or recover() has still to visit
    out,         \* the dispatches that loop has collected
    resumable,   \* recover()'s snapshot: tasks with neither a stop nor a pause
    queue,       \* how many dispatches of a task wait for a worker
    executing,   \* TaskRuntime.executing
    exec,        \* where the worker that executes the task is
    cancelling,  \* the cancellations in flight: <<place, task>>
    crashes,
    faults,
    \* history, read by the properties only
    effects,     \* how often the task's adapter was entered
    ambiguous    \* tasks whose preparation could not establish non-entry

durable == <<state, start, stop, sent, version, frozen, deps, removed, adopted, reports,
             result, wait, finish, exhausted, concurrent, failures>>
limits  == <<concurrent, failures>>
workers == <<queue, executing, exec>>
loop    == <<owner, todo, out, resumable>>
bounds  == <<crashes, faults>>
history == <<effects, ambiguous>>
vars == <<durable, held, loop, closed, workers, cancelling, bounds, history>>

Settled == {"Completed", "Failed", "Stopped"}

States == {"Absent", "Queued", "Running", "Uncertain"} \cup Settled

(* "accepted": a dispatch is frozen, entry is not committed; "entered": entry is   *)
(* committed, the execution clock runs; "unresolved": not entered, but a clock     *)
(* runs because preparation could not establish non-entry.                         *)
Starts == {"none", "accepted", "entered", "unresolved"}

Statuses == {"Success", "Failure", "Cancelled", "Uncertain"}

Owners == {"down", "recover", "idle", "tick"}

Places == {"idle", "check", "prepare", "entry", "enter", "running", "returned", "settle",
           "defer", "stop", "fail", "pause", "uncertain", "done"}

CancelPlaces == {"finish", "send", "acknowledged", "unresolved"}

-----------------------------------------------------------------------------
(* Reading the record *)

Up == owner \in {"idle", "tick"}

GateFree == owner = "idle"

Present == {t \in Tasks : state[t] # "Absent"}

ActiveWithoutUncertain == {t \in Tasks : state[t] = "Running"}

Active == {t \in Tasks : state[t] \in {"Running", "Uncertain"}}

(* The executions whose clocks duration::accrue charges. *)
Open == {t \in Tasks : state[t] \notin Settled /\ start[t] \in {"entered", "unresolved"}}

LineageRoot[t \in Tasks] == IF Corrects[t] = NoTask THEN t ELSE LineageRoot[Corrects[t]]

Lineage(r, s) == {t \in Tasks : s[t] # "Absent" /\ LineageRoot[t] = r}

AdoptedBy(t, s, a) == a[t] # NoTask /\ s[a[t]] = "Completed"

Outstanding(t, s, gone, a) ==
    /\ t \notin gone
    /\ \/ s[t] \notin Settled
       \/ t \in Required /\ s[t] # "Completed" /\ ~AdoptedBy(t, s, a)

LineageStop(s, gone, a, limit) ==
    \E r \in Tasks :
        /\ \E t \in Lineage(r, s) : Outstanding(t, s, gone, a)
        /\ Cardinality({t \in Lineage(r, s) : s[t] = "Failed"}) >= limit

NoObligationFailed ==
    \A t \in (Present \cap Required) \ removed :
        state[t] \in {"Completed", "Stopped"} \/ AdoptedBy(t, state, adopted)

ObligationsMet ==
    \A t \in (Present \cap Required) \ removed :
        state[t] = "Completed" \/ AdoptedBy(t, state, adopted)

WorkflowState ==
    IF \E t \in Tasks : state[t] = "Running" THEN "Running"
    ELSE IF /\ \A t \in Present : state[t] \in Settled
            /\ ObligationsMet /\ finish /\ ~wait
    THEN "Completed"
    ELSE IF \/ \E t \in Tasks : state[t] = "Uncertain"
            \/ ~ObligationsMet /\ \E t \in Tasks : state[t] = "Failed"
    THEN "Blocked"
    ELSE IF Present # {} /\ \A t \in Present : state[t] = "Stopped" THEN "Stopped"
    ELSE "Waiting"


ResolveInputs(t) ==
    /\ \A d \in deps[t] : state[d] = "Completed"
    /\ Corrects[t] # NoTask => state[Corrects[t]] \in Settled

FutureTaskIgnoringStart(t) == state[t] = "Queued"

FutureTask(t) == state[t] = "Queued" /\ start[t] = "none"

-----------------------------------------------------------------------------
(* Writing the record *)

CommitWithoutPolicy(s, f, sp, w, gone, a, limit) ==
    state' = s /\ start' = f /\ wait' = w /\ stop' = sp

(* advance() and save(): every commit applies the corrective-failure policy to the *)
(* record it stores.                                                               *)
CommitUnder(s, f, sp, w, gone, a, limit) ==
    LET over == LineageStop(s, gone, a, limit)
    IN  /\ state' = s
        /\ start' = f
        /\ wait' = (w \/ over)
        /\ stop' = [t \in Tasks |-> sp[t] \/ (over /\ f[t] # "none" /\ s[t] \notin Settled)]

Commit(s, f, sp, w) ==
    /\ CommitUnder(s, f, sp, w, removed, adopted, failures)
    /\ UNCHANGED <<removed, adopted, limits>>

(* What duration::accrue may find: the open executions may have used up the rest   *)
(* of the allowance.                                                               *)
Accrued == IF Open = {} THEN {exhausted} ELSE {exhausted, TRUE}

(* duration::request_limit_stop on the states s and starts f, when the allowance's *)
(* exhaustion is ex and the tasks in late have outrun their own maximum.           *)
LimitWait(ex) == wait \/ ex

LimitStop(ex, late, s, f) ==
    [t \in Tasks |->
        stop[t] \/ ((ex \/ t \in late) /\ s[t] \notin Settled /\ f[t] # "none")]

(* TaskRuntime::observe_duration *)
Observe(ex, late) ==
    /\ exhausted' = ex
    /\ Commit(state, start, LimitStop(ex, late, state, start), LimitWait(ex))

NonEntryEvidence(t) == state[t] \notin Settled /\ start[t] \notin {"entered", "unresolved"}

(* finish_without_entry_policy: settles t as s unless it is settled already or its *)
(* start is entered or unresolved. A settled start's path claims are released;     *)
(* `released' is FALSE when that last call fails.                                  *)
FinishWithoutEntry(t, s, pause, released) ==
    /\ IF NonEntryEvidence(t)
       THEN Commit([state EXCEPT ![t] = s], start, stop, wait \/ pause)
       ELSE UNCHANGED <<state, start, stop, wait, removed, adopted, limits>>
    /\ held' = IF /\ released /\ start[t] # "none"
                  /\ state[t] \in Settled \/ NonEntryEvidence(t)
               THEN held \ {t} ELSE held
    /\ UNCHANGED <<sent, version, frozen, deps, reports, result, finish, exhausted>>

MarkFailed(t) ==
    /\ IF state[t] \in Settled
       THEN UNCHANGED <<state, start, stop, wait, removed, adopted, limits>>
       ELSE Commit([state EXCEPT ![t] = "Failed"], start, stop, wait)
    /\ UNCHANGED <<sent, version, frozen, deps, reports, result, finish, exhausted>>

(* mark_uncertain: opens an execution clock for a start that has none. *)
MarkUncertain(t) ==
    /\ IF state[t] \in Settled
       THEN UNCHANGED <<state, start, stop, wait, removed, adopted, limits, exhausted>>
       ELSE \E ex \in {exhausted, TRUE}, late \in SUBSET (Open \cup {t}) :
              LET s == [state EXCEPT ![t] = "Uncertain"]
                  f == [start EXCEPT ![t] = IF @ = "accepted" THEN "unresolved" ELSE @]
              IN  /\ exhausted' = ex
                  /\ Commit(s, f, LimitStop(ex, late, s, f), LimitWait(ex))
    /\ UNCHANGED <<sent, version, frozen, deps, reports, result, finish>>

Goto(t, place) ==
    /\ exec' = [exec EXCEPT ![t] = place]
    /\ UNCHANGED <<queue, executing>>

(* ExecutionClaim::release, and its Drop when execute() returns. *)
Release(t) ==
    /\ exec' = [exec EXCEPT ![t] = "idle"]
    /\ executing' = executing \ {t}
    /\ UNCHANGED queue

-----------------------------------------------------------------------------
Init ==
    /\ state = [t \in Tasks |-> "Absent"]
    /\ start = [t \in Tasks |-> "none"]
    /\ stop = [t \in Tasks |-> FALSE]
    /\ sent = [t \in Tasks |-> FALSE]
    /\ version = [t \in Tasks |-> 0]
    /\ frozen = [t \in Tasks |-> 0]
    /\ deps = InitialDeps
    /\ removed = {}
    /\ adopted = [t \in Tasks |-> NoTask]
    /\ reports = [t \in Tasks |-> 0]
    /\ result = [t \in Tasks |-> "none"]
    /\ wait = FALSE
    /\ finish \in BOOLEAN
    /\ exhausted = FALSE
    /\ concurrent = MaxConcurrent
    /\ failures = MaxFailures
    /\ held = {}
    /\ owner = "idle"
    /\ closed = FALSE
    /\ todo = {}
    /\ out = {}
    /\ resumable = {}
    /\ queue = [t \in Tasks |-> 0]
    /\ executing = {}
    /\ exec = [t \in Tasks |-> "idle"]
    /\ cancelling = {}
    /\ crashes = 0
    /\ faults = 0
    /\ effects = [t \in Tasks |-> 0]
    /\ ambiguous = {}

-----------------------------------------------------------------------------
(* Edits: edit_request with a batch of one change, made under the gate. A refused  *)
(* edit leaves the record unchanged. Only Stop is accepted once admission closed.  *)

Edit ==
    /\ GateFree
    /\ UNCHANGED <<held, loop, closed, workers, cancelling, bounds, history>>

DefinitionsHold(t, d) ==
    /\ \A u \in d : u # t /\ u \in Present \ removed
    /\ Corrects[t] # NoTask => Corrects[t] \in Present \ removed

Add(t) ==
    /\ Edit
    /\ ~closed
    /\ state[t] = "Absent"
    /\ DefinitionsHold(t, deps[t])
    /\ version' = [version EXCEPT ![t] = 1]
    /\ Commit([state EXCEPT ![t] = "Queued"], start, stop, wait)
    /\ UNCHANGED <<sent, frozen, deps, reports, result, finish, exhausted>>

Revise(t, d) ==
    /\ Edit
    /\ ~closed
    /\ FutureTask(t)
    /\ version[t] < MaxVersion
    /\ DefinitionsHold(t, d)
    /\ version' = [version EXCEPT ![t] = @ + 1]
    /\ deps' = [deps EXCEPT ![t] = d]
    /\ Commit(state, start, stop, wait)
    /\ UNCHANGED <<sent, frozen, reports, result, finish, exhausted>>

Remove(t) ==
    /\ Edit
    /\ ~closed
    /\ FutureTask(t)
    /\ \A u \in Present \ (removed \cup {t}) : t \notin deps[u] /\ Corrects[u] # t
    /\ removed' = removed \cup {t}
    /\ CommitUnder([state EXCEPT ![t] = "Stopped"], start, stop, wait,
                   removed', adopted, failures)
    /\ UNCHANGED <<sent, version, frozen, deps, adopted, reports, result, finish,
                   exhausted, limits>>

Stop(t) ==
    /\ Edit
    /\ state[t] \notin Settled \cup {"Absent"}
    /\ Commit(IF start[t] = "none" THEN [state EXCEPT ![t] = "Stopped"] ELSE state,
              start, [stop EXCEPT ![t] = TRUE], wait)
    /\ UNCHANGED <<sent, version, frozen, deps, reports, result, finish, exhausted>>

SuccessfulCorrection(t, c) ==
    state[c] = "Completed" /\ Corrects[c] = t /\ adopted[c] = NoTask

(* adopt_correction: c replaces the failed or stopped t, for the consumers r too. *)
AdoptCorrection(t, c, r) ==
    /\ Edit
    /\ ~closed
    /\ state[t] \in {"Failed", "Stopped"}
    /\ adopted[t] = NoTask
    /\ SuccessfulCorrection(t, c)
    /\ \A u \in r : FutureTask(u) /\ t \in deps[u] /\ version[u] < MaxVersion
    /\ adopted' = [adopted EXCEPT ![t] = c]
    /\ deps' = [u \in Tasks |-> IF u \in r THEN (deps[u] \ {t}) \cup {c} ELSE deps[u]]
    /\ version' = [u \in Tasks |-> IF u \in r THEN version[u] + 1 ELSE version[u]]
    /\ CommitUnder(state, start, stop, wait, removed, adopted', failures)
    /\ UNCHANGED <<sent, frozen, removed, reports, result, finish, exhausted, limits>>

SetLimits(c, f, ex) ==
    /\ Edit
    /\ ~closed
    /\ concurrent' = c
    /\ failures' = f
    /\ exhausted' = ex
    /\ CommitUnder(state, start, stop, wait, removed, adopted, f)
    /\ UNCHANGED <<sent, version, frozen, deps, removed, adopted, reports, result, finish>>

Continue ==
    /\ Edit
    /\ ~closed
    /\ ~exhausted
    /\ ~LineageStop(state, removed, adopted, failures)
    /\ Commit(state, start, stop, FALSE)
    /\ UNCHANGED <<sent, version, frozen, deps, reports, result, finish, exhausted>>

BindInput ==
    /\ Edit
    /\ ~closed
    /\ Commit(state, start, stop, FALSE)
    /\ UNCHANGED <<sent, version, frozen, deps, reports, result, finish, exhausted>>

Wait ==
    /\ Edit
    /\ ~closed
    /\ Commit(state, start, stop, TRUE)
    /\ UNCHANGED <<sent, version, frozen, deps, reports, result, finish, exhausted>>

Finish ==
    /\ Edit
    /\ ~closed
    /\ finish' = TRUE
    /\ Commit(state, start, stop, wait)
    /\ UNCHANGED <<sent, version, frozen, deps, reports, result, exhausted>>

BeginShutdown ==
    /\ Up
    /\ closed' = TRUE
    /\ UNCHANGED <<durable, held, loop, workers, cancelling, bounds, history>>

-----------------------------------------------------------------------------
(* The scheduler: tick(), which holds the gate until TickEnd or TickFault. *)

TickBegin(ex, late) ==
    /\ GateFree
    /\ ~closed
    /\ Observe(ex, late)
    /\ owner' = "tick"
    /\ todo' = IF wait' THEN {} ELSE {t \in Tasks : state[t] = "Queued"}
    /\ UNCHANGED <<sent, version, frozen, deps, reports, result, finish>>
    /\ UNCHANGED <<held, closed, out, resumable, workers, cancelling, bounds, history>>

(* The loop's next candidate; it breaks at the workflow's concurrency limit. *)
TickAt(t) ==
    /\ owner = "tick"
    /\ t \in todo
    /\ Cardinality(Active) < concurrent
    /\ UNCHANGED <<owner, resumable, held, closed, workers, cancelling, bounds, history>>
    /\ UNCHANGED <<sent, version, deps, reports, result, finish>>

TickRedispatch(t) ==
    /\ TickAt(t)
    /\ start[t] = "accepted" /\ ~stop[t]
    /\ Commit([state EXCEPT ![t] = "Running"], start, stop, wait)
    /\ todo' = todo \ {t}
    /\ out' = out \cup {t}
    /\ UNCHANGED <<frozen, exhausted>>

TickSkip(t) ==
    /\ TickAt(t)
    /\ \/ start[t] # "none" /\ stop[t]
       \/ start[t] = "none" /\ Cardinality(Active) < MaxActive /\ ~ResolveInputs(t)
    /\ todo' = todo \ {t}
    /\ Commit(state, start, stop, wait)
    /\ UNCHANGED <<frozen, exhausted, out>>

TickResolved(t, ex) ==
    /\ TickAt(t)
    /\ start[t] = "none"
    /\ Cardinality(Active) < MaxActive
    /\ ResolveInputs(t)
    /\ exhausted' = ex

(* prepare_dispatch succeeds: the definition's version and a dispatch are frozen. *)
TickStart(t, ex, late) ==
    /\ TickResolved(t, ex)
    /\ ~ex
    /\ Commit([state EXCEPT ![t] = "Running"], [start EXCEPT ![t] = "accepted"],
              LimitStop(ex, late, state, start), LimitWait(ex))
    /\ frozen' = [frozen EXCEPT ![t] = version[t]]
    /\ todo' = todo \ {t}
    /\ out' = out \cup {t}

(* The allowance is used up, or the capability is unavailable for now. *)
TickPostpone(t, ex, late) ==
    /\ TickResolved(t, ex)
    /\ Commit(state, start, LimitStop(ex, late, state, start), LimitWait(ex))
    /\ todo' = IF ex THEN {} ELSE todo \ {t}
    /\ UNCHANGED <<frozen, out>>

TickRefuse(t, ex, late) ==
    /\ TickResolved(t, ex)
    /\ ~ex
    /\ Commit([state EXCEPT ![t] = "Failed"], start,
              LimitStop(ex, late, state, start), LimitWait(ex))
    /\ todo' = todo \ {t}
    /\ UNCHANGED <<frozen, out>>

HandoverDropped == queue

Handover == [t \in Tasks |-> IF t \in out THEN queue[t] + 1 ELSE queue[t]]

TickEnd ==
    /\ owner = "tick"
    /\ \/ todo = {}
       \/ Cardinality(Active) >= concurrent
       \/ Cardinality(Active) >= MaxActive /\ \E t \in todo : start[t] = "none"
    /\ owner' = "idle"
    /\ todo' = {}
    /\ out' = {}
    /\ queue' = Handover
    /\ UNCHANGED <<durable, held, resumable, closed, executing, exec, cancelling, bounds,
                   history>>

(* A failed clock or store call ends tick(); the collected dispatches are dropped. *)
TickFault ==
    /\ owner = "tick"
    /\ faults < MaxFaults
    /\ faults' = faults + 1
    /\ owner' = "idle"
    /\ todo' = {}
    /\ out' = {}
    /\ UNCHANGED <<durable, held, resumable, closed, workers, cancelling, crashes, history>>

-----------------------------------------------------------------------------
(* Execution workers: execute(dispatch) *)

Busy == {t \in Tasks : exec[t] # "idle"}

WorkerRest == UNCHANGED <<loop, closed, cancelling, bounds>>

(* claim_execution refuses an invocation that a worker already owns: the dispatch  *)
(* is lost.                                                                        *)
ExecuteClaim(t) ==
    /\ Up
    /\ queue[t] > 0
    /\ Cardinality(Busy) < Workers
    /\ queue' = [queue EXCEPT ![t] = @ - 1]
    /\ IF t \in executing
       THEN UNCHANGED <<executing, exec>>
       ELSE /\ executing' = executing \cup {t}
            /\ exec' = [exec EXCEPT ![t] = "check"]
    /\ UNCHANGED <<durable, held, loop, closed, cancelling, bounds, history>>

OwnsUnentered(t) == start[t] = "accepted" /\ state[t] = "Running"

ExecuteCheck(t) ==
    /\ GateFree
    /\ exec[t] = "check"
    /\ Goto(t, IF ~OwnsUnentered(t) THEN "done" ELSE IF stop[t] THEN "stop" ELSE "prepare")
    /\ WorkerRest
    /\ UNCHANGED <<durable, held, history>>

(* prepare_exact_entry claims the native paths, then prepares the adapter; any of  *)
(* its refusals may leave the claim behind.                                        *)
Prepare(t, place, claimed) ==
    /\ Up
    /\ exec[t] = "prepare"
    /\ place = "entry" => claimed
    /\ Goto(t, place)
    /\ held' = IF claimed THEN held \cup {t} ELSE held
    /\ ambiguous' = IF place = "uncertain" THEN ambiguous \cup {t} ELSE ambiguous
    /\ WorkerRest
    /\ UNCHANGED <<durable, effects>>

RequeueThenRelease(t) ==
    /\ Commit([state EXCEPT ![t] = "Queued"], start, stop, wait)
    /\ Goto(t, "done")

(* The deferred start is queued again; the worker gives its claim back while the   *)
(* gate still excludes the scheduler.                                              *)
Requeue(t) ==
    /\ Commit([state EXCEPT ![t] = "Queued"], start, stop, wait)
    /\ Release(t)

(* defer_before_entry *)
DeferBeforeEntry(t, ex) ==
    /\ GateFree
    /\ exec[t] = "defer"
    /\ IF state[t] \notin Settled /\ OwnsUnentered(t) /\ ~stop[t]
       THEN Requeue(t) /\ exhausted' = ex
       ELSE /\ Goto(t, IF state[t] \in Settled THEN "settle"
                       ELSE IF ~OwnsUnentered(t) THEN "done" ELSE "stop")
            /\ UNCHANGED <<state, start, stop, wait, removed, adopted, limits, exhausted>>
    /\ WorkerRest
    /\ UNCHANGED <<sent, version, frozen, deps, reports, result, finish, held, history>>

(* The gated section before entry. Each branch first observes the clock. *)
EntryObserved(t, ex, late, place) ==
    /\ GateFree
    /\ exec[t] = "entry"
    /\ exhausted' = ex
    /\ Goto(t, place)
    /\ WorkerRest
    /\ UNCHANGED <<sent, version, frozen, deps, reports, result, finish, held, history>>

EntryRefusalUnreleased(t, place) ==
    IF state[t] \in Settled THEN place = "done"
    ELSE IF wait' THEN place = "fail"
    ELSE \/ place = "pause"
         \/ ~OwnsUnentered(t) /\ place = "done"
         \/ OwnsUnentered(t) /\ place = IF stop'[t] THEN "stop" ELSE "fail"

(* Why entry is refused: the task is settled, the workflow is paused, the duration *)
(* or the account cannot be reserved, the start changed, it was stopped, or its    *)
(* authority or lease ended.                                                       *)
EntryRefusal(t, place) ==
    IF state[t] \in Settled THEN place = "settle"
    ELSE IF wait' THEN place = "fail"
    ELSE \/ place = "pause"
         \/ ~OwnsUnentered(t) /\ place = "done"
         \/ OwnsUnentered(t) /\ place = IF stop'[t] THEN "stop" ELSE "fail"

EntryRefused(t, ex, late, place) ==
    /\ EntryObserved(t, ex, late, place)
    /\ Commit(state, start, LimitStop(ex, late, state, start), LimitWait(ex))
    /\ EntryRefusal(t, place)

EntryUnrecorded(t, ex, late) ==
    /\ EntryObserved(t, ex, late, "enter")
    /\ Commit(state, start, LimitStop(ex, late, state, start), LimitWait(ex))
    /\ OwnsUnentered(t) /\ ~wait' /\ ~stop'[t]

CommitEntry(t, ex, late) ==
    /\ EntryObserved(t, ex, late, "enter")
    /\ Commit(state, [start EXCEPT ![t] = "entered"],
              LimitStop(ex, late, state, start), LimitWait(ex))
    /\ state[t] \notin Settled
    /\ ~wait'
    /\ OwnsUnentered(t)
    /\ ~stop'[t]

(* PreparedExecution::enter: its own revalidation may refuse before the adapter. *)
Enter(t) ==
    /\ Up
    /\ exec[t] = "enter"
    /\ \/ Goto(t, "running") /\ effects' = [effects EXCEPT ![t] = @ + 1]
       \/ Goto(t, "returned") /\ UNCHANGED effects
    /\ WorkerRest
    /\ UNCHANGED <<durable, held, ambiguous>>

ReportAcceptedLate(t) == start[t] = "entered" /\ reports[t] < MaxReports

ReportBeyondBound(t) ==
    start[t] = "entered" /\ state[t] \notin Settled /\ result[t] = "none"

ReportAccepted(t) ==
    /\ start[t] = "entered"
    /\ state[t] \notin Settled
    /\ result[t] = "none"
    /\ reports[t] < MaxReports

(* TaskReporter::record accepts the next report in sequence. A repeated sequence   *)
(* number is a replay or a refusal and changes nothing.                            *)
Record(t, ex, late, status, satisfied) ==
    LET s == IF status = "progress" THEN state
             ELSE [state EXCEPT ![t] =
                     CASE status = "Success" -> IF satisfied THEN "Completed" ELSE "Failed"
                       [] status = "Failure" -> "Failed"
                       [] status = "Cancelled" -> "Stopped"
                       [] status = "Uncertain" -> "Uncertain"]
    IN  /\ GateFree
        /\ exec[t] = "running"
        /\ ReportAccepted(t)
        /\ reports' = [reports EXCEPT ![t] = @ + 1]
        /\ result' = IF status = "progress" THEN result ELSE [result EXCEPT ![t] = status]
        /\ exhausted' = ex
        /\ Commit(s, start, LimitStop(ex, late, s, start), LimitWait(ex))
        /\ WorkerRest
        /\ UNCHANGED <<sent, version, frozen, deps, finish, held, workers, history>>

(* TaskReporter::check_continuation *)
Heartbeat(t, ex, late) ==
    /\ GateFree
    /\ exec[t] = "running"
    /\ Observe(ex, late)
    /\ WorkerRest
    /\ UNCHANGED <<sent, version, frozen, deps, reports, result, finish, held, workers, history>>

AdapterReturns(t) ==
    /\ Up
    /\ exec[t] = "running"
    /\ Goto(t, "returned")
    /\ WorkerRest
    /\ UNCHANGED <<durable, held, history>>

ReturnReleasesUncertain(t) ==
    /\ Up
    /\ exec[t] = "returned"
    /\ Goto(t, IF state[t] \in Settled \cup {"Uncertain"} THEN "settle" ELSE "uncertain")
    /\ WorkerRest
    /\ UNCHANGED <<durable, held, history>>

(* The record is read without the gate after the adapter returned. *)
AfterReturn(t) ==
    /\ Up
    /\ exec[t] = "returned"
    /\ Goto(t, IF state[t] \in Settled THEN "settle"
               ELSE IF state[t] = "Uncertain" THEN "done" ELSE "uncertain")
    /\ WorkerRest
    /\ UNCHANGED <<durable, held, history>>

(* executor.settle *)
Settle(t) ==
    /\ Up
    /\ exec[t] = "settle"
    /\ held' = held \ {t}
    /\ Goto(t, "done")
    /\ WorkerRest
    /\ UNCHANGED <<durable, history>>

WorkerFinish(t) ==
    /\ GateFree
    /\ exec[t] \in {"stop", "fail", "pause"}
    /\ FinishWithoutEntry(t, IF exec[t] = "stop" THEN "Stopped" ELSE "Failed",
                          exec[t] = "pause", TRUE)
    /\ Goto(t, "done")
    /\ WorkerRest
    /\ UNCHANGED history

WorkerUncertain(t) ==
    /\ GateFree
    /\ exec[t] = "uncertain"
    /\ MarkUncertain(t)
    /\ Goto(t, "done")
    /\ WorkerRest
    /\ UNCHANGED <<held, history>>

ExecuteReturn(t) ==
    /\ Up
    /\ exec[t] = "done"
    /\ Release(t)
    /\ WorkerRest
    /\ UNCHANGED <<durable, held, history>>

(* A clock or store call of execute() fails and its `?' returns. After CommitEntry *)
(* the entry may be durable although save() reported a failure.                    *)
WorkerFault(t) ==
    /\ Up
    /\ exec[t] \in {"check", "defer", "entry", "enter", "returned", "settle", "stop", "fail",
                    "pause", "uncertain"}
    /\ faults < MaxFaults
    /\ faults' = faults + 1
    /\ Goto(t, "done")
    /\ UNCHANGED <<durable, held, loop, closed, cancelling, crashes, history>>

(* finish_without_entry commits the settlement and then fails to release. *)
ReleaseFault(t) ==
    /\ GateFree
    /\ exec[t] \in {"stop", "fail", "pause"}
    /\ faults < MaxFaults
    /\ faults' = faults + 1
    /\ FinishWithoutEntry(t, IF exec[t] = "stop" THEN "Stopped" ELSE "Failed",
                          exec[t] = "pause", FALSE)
    /\ Goto(t, "done")
    /\ UNCHANGED <<loop, closed, cancelling, crashes, history>>

-----------------------------------------------------------------------------
(* Cancellation workers: cancellation_actions and execute_cancellation *)

CancelRest == UNCHANGED <<loop, closed, workers, history>>

CancelRunningOnly(t) ==
    /\ Up
    /\ stop[t] /\ ~sent[t] /\ state[t] \in {"Running", "Uncertain"}
    /\ cancelling' = cancelling \cup
                       {<<IF start[t] = "accepted" THEN "finish" ELSE "send", t>>}
    /\ CancelRest
    /\ UNCHANGED <<durable, held, bounds>>

(* The record is read without the gate; the decision may be stale when it is used. *)
CancelBegin(t) ==
    /\ Up
    /\ stop[t] /\ ~sent[t] /\ state[t] \notin Settled /\ start[t] # "none"
    /\ cancelling' = cancelling \cup
                       {<<IF start[t] = "accepted" THEN "finish" ELSE "send", t>>}
    /\ CancelRest
    /\ UNCHANGED <<durable, held, bounds>>

CancelFinish(t) ==
    /\ GateFree
    /\ <<"finish", t>> \in cancelling
    /\ FinishWithoutEntry(t, "Stopped", FALSE, TRUE)
    /\ cancelling' = cancelling \ {<<"finish", t>>}
    /\ CancelRest
    /\ UNCHANGED bounds

CancelSend(t, place) ==
    /\ Up
    /\ <<"send", t>> \in cancelling
    /\ cancelling' = (cancelling \ {<<"send", t>>}) \cup {<<place, t>>}
    /\ CancelRest
    /\ UNCHANGED <<durable, held, bounds>>

CancelAcknowledged(t) ==
    /\ GateFree
    /\ <<"acknowledged", t>> \in cancelling
    /\ sent' = [sent EXCEPT ![t] = TRUE]
    /\ Commit(state, start, stop, wait)
    /\ cancelling' = cancelling \ {<<"acknowledged", t>>}
    /\ CancelRest
    /\ UNCHANGED <<version, frozen, deps, reports, result, finish, exhausted, held, bounds>>

CancelUnresolved(t) ==
    /\ GateFree
    /\ <<"unresolved", t>> \in cancelling
    /\ MarkUncertain(t)
    /\ cancelling' = cancelling \ {<<"unresolved", t>>}
    /\ CancelRest
    /\ UNCHANGED <<held, bounds>>

CancelFault(c) ==
    /\ Up
    /\ c \in cancelling
    /\ faults < MaxFaults
    /\ faults' = faults + 1
    /\ cancelling' = cancelling \ {c}
    /\ CancelRest
    /\ UNCHANGED <<durable, held, crashes>>

-----------------------------------------------------------------------------
(* A crash of the daemon, and recover() before the workers start *)

Crash ==
    /\ owner # "down"
    /\ crashes < MaxCrashes
    /\ crashes' = crashes + 1
    /\ owner' = "down"
    /\ closed' = FALSE
    /\ todo' = {}
    /\ out' = {}
    /\ resumable' = {}
    /\ queue' = [t \in Tasks |-> 0]
    /\ executing' = {}
    /\ exec' = [t \in Tasks |-> "idle"]
    /\ cancelling' = {}
    /\ UNCHANGED <<durable, held, faults, history>>

Restart(ex, late) ==
    /\ owner = "down"
    /\ Observe(ex, late)
    /\ owner' = "recover"
    /\ todo' = Present
    /\ resumable' = IF wait' THEN {} ELSE {t \in Tasks : ~stop'[t]}
    /\ UNCHANGED <<sent, version, frozen, deps, reports, result, finish>>
    /\ UNCHANGED <<held, closed, out, workers, cancelling, bounds, history>>

RecoverAt(t) ==
    /\ owner = "recover"
    /\ t \in todo
    /\ todo' = todo \ {t}
    /\ UNCHANGED <<owner, resumable, closed, workers, cancelling, bounds, history>>

RecoverSettled(t) ==
    /\ RecoverAt(t)
    /\ state[t] \in Settled
    /\ held' = IF start[t] # "none" THEN held \ {t} ELSE held
    /\ UNCHANGED <<durable, out>>

RecoverEntered(t) ==
    /\ RecoverAt(t)
    /\ state[t] = "Running" /\ start[t] = "entered"
    /\ MarkUncertain(t)
    /\ UNCHANGED <<held, out>>

RecoverTwice(t) ==
    /\ RecoverAt(t)
    /\ state[t] = "Running" /\ start[t] # "entered"
    /\ Commit([state EXCEPT ![t] = "Queued"], start, stop, wait)
    /\ out' = out \cup {t}
    /\ UNCHANGED <<sent, version, frozen, deps, reports, result, finish, exhausted, held>>

RecoverUnentered(t) ==
    /\ RecoverAt(t)
    /\ state[t] = "Running" /\ start[t] # "entered"
    /\ IF Cardinality(out) >= RecoveryPage
       THEN /\ Commit([state EXCEPT ![t] = "Queued"], start, stop, wait)
            /\ UNCHANGED out
       ELSE /\ out' = IF t \in resumable THEN out \cup {t} ELSE out
            /\ UNCHANGED <<state, start, stop, wait, removed, adopted, limits>>
    /\ UNCHANGED <<sent, version, frozen, deps, reports, result, finish, exhausted, held>>

RecoverOther(t) ==
    /\ RecoverAt(t)
    /\ state[t] \in {"Queued", "Uncertain"}
    /\ UNCHANGED <<durable, held, out>>

RecoverEnd ==
    /\ owner = "recover"
    /\ todo = {}
    /\ owner' = "idle"
    /\ out' = {}
    /\ resumable' = {}
    /\ queue' = Handover
    /\ UNCHANGED <<durable, held, todo, closed, executing, exec, cancelling, bounds, history>>

-----------------------------------------------------------------------------
Edits ==
    \/ \E t \in Tasks :
         \/ Add(t)
         \/ \E d \in SUBSET InitialDeps[t] : Revise(t, d)
         \/ Remove(t)
         \/ Stop(t)
         \/ \E c \in Tasks, r \in SUBSET Tasks : AdoptCorrection(t, c, r)
    \/ \E c \in 1 .. MaxConcurrent, f \in 1 .. MaxFailures, ex \in BOOLEAN : SetLimits(c, f, ex)
    \/ Continue
    \/ BindInput
    \/ Wait
    \/ Finish

Tick ==
    \/ \E ex \in Accrued, late \in SUBSET Open :
         \/ TickBegin(ex, late)
         \/ \E t \in Tasks :
              \/ TickStart(t, ex, late)
              \/ TickPostpone(t, ex, late)
              \/ TickRefuse(t, ex, late)
    \/ \E t \in Tasks : TickRedispatch(t) \/ TickSkip(t)
    \/ TickEnd

(* The steps of execute(), apart from the adapter's. *)
Execute(t) ==
    \/ ExecuteClaim(t)
    \/ ExecuteCheck(t)
    \/ \E place \in {"entry", "defer", "fail", "uncertain"}, claimed \in BOOLEAN :
         Prepare(t, place, claimed)
    \/ \E ex \in Accrued, late \in SUBSET Open :
         \/ DeferBeforeEntry(t, ex)
         \/ \E place \in {"settle", "fail", "pause", "done", "stop"} :
              EntryRefused(t, ex, late, place)
         \/ CommitEntry(t, ex, late)
    \/ Enter(t)
    \/ AfterReturn(t)
    \/ Settle(t)
    \/ WorkerFinish(t)
    \/ WorkerUncertain(t)
    \/ ExecuteReturn(t)

Adapter(t) ==
    \/ \E ex \in Accrued, late \in SUBSET Open :
         \/ \E status \in Statuses \cup {"progress"}, satisfied \in BOOLEAN :
              Record(t, ex, late, status, satisfied)
         \/ Heartbeat(t, ex, late)
    \/ AdapterReturns(t)

Cancellation(t) ==
    \/ CancelBegin(t)
    \/ CancelFinish(t)
    \/ \E place \in {"acknowledged", "unresolved"} : CancelSend(t, place)
    \/ CancelAcknowledged(t)
    \/ CancelUnresolved(t)

Recovery ==
    \/ \E ex \in Accrued, late \in SUBSET Open : Restart(ex, late)
    \/ \E t \in Tasks :
         \/ RecoverSettled(t)
         \/ RecoverEntered(t)
         \/ RecoverUnentered(t)
         \/ RecoverOther(t)
    \/ RecoverEnd

Fault ==
    \/ TickFault
    \/ \E t \in Tasks : WorkerFault(t) \/ ReleaseFault(t)
    \/ \E c \in cancelling : CancelFault(c)

Next ==
    \/ Edits
    \/ BeginShutdown
    \/ Tick
    \/ \E t \in Tasks : Execute(t) \/ Adapter(t) \/ Cancellation(t)
    \/ Recovery
    \/ Crash
    \/ Fault

Spec == Init /\ [][Next]_vars

(* The worker threads, the owner's poll loop and recovery keep running; a thread   *)
(* that asks for the gate again and again gets it in the end. Nothing is assumed   *)
(* of adapters, operators, crashes and failures.                                   *)
Fairness ==
    /\ WF_vars(Tick)
    /\ WF_vars(Recovery)
    /\ \A t \in Tasks : /\ SF_vars(Execute(t))
                        /\ WF_vars(CancelBegin(t))
                        /\ SF_vars(CancelFinish(t))

-----------------------------------------------------------------------------
(* Properties *)

RecordTypeOK ==
    /\ state \in [Tasks -> States]
    /\ start \in [Tasks -> Starts]
    /\ stop \in [Tasks -> BOOLEAN]
    /\ sent \in [Tasks -> BOOLEAN]
    /\ version \in [Tasks -> Nat]
    /\ frozen \in [Tasks -> Nat]
    /\ deps \in [Tasks -> SUBSET Tasks]
    /\ removed \in SUBSET Tasks
    /\ adopted \in [Tasks -> Tasks \cup {NoTask}]
    /\ reports \in [Tasks -> 0 .. MaxReports]
    /\ result \in [Tasks -> Statuses \cup {"none"}]
    /\ wait \in BOOLEAN
    /\ finish \in BOOLEAN
    /\ exhausted \in BOOLEAN
    /\ concurrent \in 1 .. MaxConcurrent
    /\ failures \in 1 .. MaxFailures

ProcessTypeOK ==
    /\ held \in SUBSET Tasks
    /\ owner \in Owners
    /\ closed \in BOOLEAN
    /\ todo \in SUBSET Tasks
    /\ out \in SUBSET Tasks
    /\ resumable \in SUBSET Tasks
    /\ queue \in [Tasks -> Nat]
    /\ executing \in SUBSET Tasks
    /\ exec \in [Tasks -> Places]
    /\ cancelling \in SUBSET (CancelPlaces \X Tasks)
    /\ crashes \in 0 .. MaxCrashes
    /\ faults \in 0 .. MaxFaults
    /\ effects \in [Tasks -> Nat]
    /\ ambiguous \in SUBSET Tasks

(* Every variable keeps its type: the reports a start retains, the limits, the     *)
(* crashes and the failed calls within their bounds.                               *)
TypeOK == RecordTypeOK /\ ProcessTypeOK

(* "enters once": whatever workers, stops, deferrals, crashes and restarts do, the *)
(* adapter of an accepted start is entered at most once, and only after the entry  *)
(* was committed (execute: "commits entry intent, then enters once").              *)
EntersOnce ==
    \A t \in Tasks : effects[t] <= 1 /\ (effects[t] = 1 => start[t] = "entered")

(* A task settles on evidence only: either its adapter reported a terminal status, *)
(* or its entry was never committed, so that no worker can still enter it.         *)
SettledOnEvidence ==
    \A t \in Tasks : state[t] \in Settled =>
        IF start[t] = "entered"
        THEN effects[t] = 1 /\ result[t] \in {"Success", "Failure", "Cancelled"}
        ELSE effects[t] = 0 /\ result[t] = "none"

(* At any time one owner at most can act on a start: a dispatch that the loop has  *)
(* collected, a queued one, or a worker. So claim_execution never refuses, and     *)
(* never loses, the only dispatch of a start (the comment in defer_before_entry).  *)
OneOwner ==
    \A t \in Tasks :
        queue[t] + (IF t \in out THEN 1 ELSE 0) + (IF t \in executing THEN 1 ELSE 0) <= 1

(* The native paths of an entered execution stay claimed until it is settled,      *)
(* through uncertainty, acknowledged cancellation, crashes and recovery.           *)
PathsHeldWhileOpen ==
    \A t \in Tasks : start[t] = "entered" /\ state[t] \notin Settled => t \in held

(* No path claim outlives the settlement: once no worker is inside execute() for a *)
(* settled task and recovery is over, its claim is gone, even when a stop settled  *)
(* it while preparation was acquiring the claim. (Without failed calls, and for a  *)
(* preparation that could establish non-entry.)                                    *)
PathsReleasedWhenSettled ==
    \A t \in Tasks :
        /\ state[t] \in Settled /\ exec[t] = "idle" /\ Up
        /\ faults = 0 /\ t \notin ambiguous
        => t \notin held

(* What a worker executes is the version that was frozen with the start: no edit   *)
(* changes a definition whose start was accepted, deferred starts included.        *)
FrozenVersionExact ==
    \A t \in Tasks : start[t] # "none" => frozen[t] = version[t]


(* A start that has only been accepted, whose run was neither stopped nor lost to  *)
(* a crash or a failed call, is always in somebody's hands.                        *)
AcceptedStartOwned ==
    \A t \in Tasks :
        state[t] = "Running" /\ start[t] = "accepted" /\ crashes = 0 /\ faults = 0
        => t \in out \/ queue[t] = 1 \/ exec[t] \in
             {"check", "prepare", "entry", "defer", "stop", "fail", "pause", "uncertain"}

SettledKept ==
    \A t \in Tasks :
        state[t] \in Settled => state'[t] = state[t] /\ result'[t] = result[t]

(* A settled task is final: no late report, uncertainty, stop, recovery or edit    *)
(* changes its state or result.                                                    *)
SettledIsFinal == [][SettledKept]_vars

Occupied == {t \in Tasks : state[t] \in {"Running", "Uncertain"}}

(* Admission to the limit: no step raises the number of running and uncertain      *)
(* tasks above the workflow's concurrency limit; uncertain tasks keep their slot.  *)
ConcurrencyRespected ==
    [][Cardinality(Occupied') > Cardinality(Occupied)
         => Cardinality(Occupied') <= concurrent]_vars

(* A lineage that spent its corrective failures cannot enter another external      *)
(* effect in the workflow until the limit is raised, whatever inputs are bound,    *)
(* continued or recovered in between.                                              *)
SpentLineageBarsEntry ==
    [][\A t \in Tasks : start[t] # "entered" /\ start'[t] = "entered" =>
          ~LineageStop(state, removed, adopted, failures)]_vars

(* A workflow is reported Completed only when for every obligation that was not    *)
(* removed an adapter was entered and reported success: the task's own, or that of *)
(* a correction in its lineage, however stops, limits and adoptions came about.    *)
CompletionBacked ==
    WorkflowState = "Completed" =>
        \A t \in (Present \cap Required) \ removed :
            \E c \in Lineage(LineageRoot[t], state) :
                effects[c] = 1 /\ result[c] = "Success" /\ state[c] = "Completed"

(* An accepted start of a workflow that is neither stopped nor paused does not     *)
(* stay "Running" for ever without a worker: it is entered, settled, deferred or   *)
(* found uncertain (recover: "Unentered frozen starts return unchanged for bounded *)
(* dispatch by the worker owner").                                                 *)
Stranded(t) ==
    Up /\ state[t] = "Running" /\ start[t] = "accepted" /\ ~stop[t] /\ ~wait

StartsNotStranded == \A t \in Tasks : []<>~Stranded(t)

(* While the daemon does not crash, the owner's loop, the queue and the workers    *)
(* together move every accepted start on.                                          *)
StartsProceed == \A t \in Tasks : []<>(~Stranded(t) \/ crashes > 0)

(* A stop that was requested before external entry resolves without the adapter:   *)
(* the start settles, or a racing entry or unresolved preparation wins.            *)
UnenteredStopResolves ==
    \A t \in Tasks :
        stop[t] /\ start[t] = "accepted" /\ state[t] \notin Settled
        ~> state[t] \in Settled \/ start[t] # "accepted"

(* "preparation_unknown_ownership_never_fabricates_non_entry": a task whose        *)
(* preparation could not establish non-entry is never settled as not entered.      *)
UnknownOwnershipStaysOpen ==
    \A t \in ambiguous : state[t] \notin Settled

-----------------------------------------------------------------------------
(* The inductive strengthening of EntersOnce, SettledOnEvidence and                *)
(* PathsHeldWhileOpen: what the places of a worker and of the scheduler's loop say *)
(* about the record.                                                               *)
EntryInv(t) ==
    /\ effects[t] \in {0, 1}
    /\ effects[t] = 1 => start[t] = "entered"
    /\ exec[t] = "enter" => start[t] = "entered" /\ effects[t] = 0
    /\ exec[t] = "running" => effects[t] = 1
    /\ result[t] # "none" => effects[t] = 1
    /\ state[t] \in Settled /\ start[t] = "entered"
         => result[t] \in {"Success", "Failure", "Cancelled"}
    /\ state[t] \notin Settled /\ start[t] = "entered" => t \in held
    /\ state[t] \notin Settled /\ start[t] = "accepted" /\ exec[t] = "entry" => t \in held
    /\ exec[t] = "settle" => state[t] \in Settled
    /\ exec[t] \in {"prepare", "entry"} => start[t] # "none"
    /\ owner = "tick" /\ t \in todo => state[t] = "Queued"

(* Entry, settlement and path claims stay consistent with where the workers are.   *)
EntryInvariant == \A t \in Tasks : EntryInv(t)

=============================================================================
