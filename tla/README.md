# milkdrift, specified and checked

milkdrift is a daemon that runs workflows of tasks. A task is one external
effect (a process, a model call, a call to another host) which the daemon may
neither repeat by accident nor report wrongly. The code keeps a durable record
of a workflow in one store, hands work to threads, and has to stay truthful
when a stop, a crash, a late report or a shutdown comes in between. This
directory holds TLA+ specifications of those parts, the TLC instances that
check them, and TLAPS proofs of what matters most.

All paths below are relative to `src/`.

## 1. The system and its parts

| part | source | state it owns | who calls it |
|---|---|---|---|
| task runtime | `crates/runtime/src/tasks*` | the workflow record (durable); execution claims, the gate (volatile) | operators through the daemon, the effect worker, adapters reporting |
| effect worker host | `crates/capability-host/src/worker.rs` | two bounded channels, four atomic counters, the set of pending cancellations | the daemon's owner thread polls it; its own threads |
| capability registry | `crates/capability-host/src/registry*` | generations of adapters, permits, the admission flag | registration, the worker threads, shutdown |
| peer serving | `crates/capability-host/src/serving*` | the drain flag, the dispatch workers | other hosts over HTTP, its worker threads, the daemon |
| peer execution store | `adapters/redb-store/src/peer*` | accepted executions, claims, observations, accounting, tombstones (durable) | peer serving |
| workflow store | `adapters/redb-store/src/task*` | workflow records, command receipts, output capacity (durable) | task runtime |
| native path claims | `crates/capability-host/src/native_paths.rs`, `adapters/redb-store/src/native_paths.rs` | claims on host paths (durable) | preparation of an effect, settlement |
| durable clock | `adapters/redb-store/src/clock.rs`, `apps/daemon/src/host/clock.rs` | the greatest time ever given out (durable) | everything that stamps a time |
| artifact store | `adapters/redb-store/src/artifact*` | published files, uploads in progress, accounting (durable) | tasks, peers, uploads, cleanup |
| managed installations | `crates/capability-host/src/managed*`, `adapters/redb-store/src/managed*`, `adapters/managed-linux` | managed resources and their uses (durable) | operators, tasks, peer serving |
| daemon owner queue, start, shutdown | `apps/daemon/src/host*` | one owner thread and its bounded queue | HTTP handlers, maintenance |
| adapters | `adapters/local-process`, `model-provider`, `peer-http` | processes, streams, remote executions | the worker threads |
| types and pure rules | `crates/authority`, `blueprint`, `capability`, `contracts`, `model`, `workspace`, `*-protocol` | none | everybody |
| clients | `crates/control-client`, `apps/cli`, `apps/web` | an event cursor | operators |
| evidence tools | `tools/evidence` | none | developers |

How they meet: the daemon's owner thread polls the **effect worker**, which asks
the **task runtime** for dispatches (`tick`, `recover`) and for stops, and sends
them to its threads. A thread calls `execute`, which prepares the effect at the
**registry** (a permit of an exact adapter generation), claims native paths,
commits entry in the record, enters the adapter, and records its reports.
Shutdown closes the registry and the worker in an order that depends on its
mode. **Peer serving** does the same for work that another host asked for, with
its own durable record, claims and workers.

`PROJECT.json` lists every component with what is modelled of it, and every
hazard at the line where it bites.

## 2. Modules

| module | models |
|---|---|
| `TaskRuntime` | the life of the tasks of one workflow: edits, scheduling, execution, reports, stops, corrections, crash and recovery |
| `TaskRuntimeTypeProofs` | the type invariant of `TaskRuntime`, proved |
| `TaskRuntimeProofs` | the safety theorems about `TaskRuntime` |
| `EffectWorker` | `poll`, the execution and cancellation threads, and `shutdown`, at the grain of single accesses to counters, channels and locks |
| `CapabilityRegistry` | registration, removal, health refresh, shutdown and permits of adapter generations |
| `PeerStore` | the transactions of the durable store of accepted peer executions, its indexes and counters |
| `PeerServing` | invocations, worker threads, cancellation calls and the lifecycle of peer serving, over `PeerStore` |
| `MC*` | the instances, one `.cfg` per run |

### TaskRuntime

The durable variables are the fields of the workflow record (`state`, `start`,
`stop`, `version`, `deps`, `result`, ...) and the native path claims (`held`).
The volatile ones are what a crash loses: the scheduler's loop (`owner`, `todo`,
`out`), the queue, the execution claims (`executing`), where each worker is in
`execute()` (`exec`) and the cancellations in flight.

The runtime's mutex makes a handler one action. There are two exceptions, and
both matter. `tick()` holds the mutex over a loop that commits once per task, so
it is `TickBegin`, a step per task, and `TickEnd`, with the mutex held in
between. `execute()` releases the mutex around preparation and around the
adapter, so it is a step per passage: claim, check, prepare, commit entry,
enter, reports, return, settle. A cancellation reads the record, then settles
or sends, then records the acknowledgement.

| code | actions |
|---|---|
| edits of a workflow (`tasks/admission.rs`, `tasks/policy.rs`, `tasks.rs`) | `Add`, `Revise`, `Remove`, `Stop`, `Wait`, `Continue`, `Finish`, `BindInput`, `SetLimits`, `AdoptCorrection` |
| `tick` (`tasks/scheduling.rs`) | `TickBegin`, `TickStart`, `TickRefuse`, `TickSkip`, `TickPostpone`, `TickEnd` |
| `execute` (`tasks/effects.rs`) | `ExecuteClaim`, `ExecuteCheck`, `Prepare`, `EntryRefused`, `CommitEntry`, `Enter`, `AfterReturn`, `Settle`, `WorkerFinish`, `WorkerUncertain`, `ExecuteReturn`, ... |
| reports (`record_invocation`, heartbeat) | `Record`, `Heartbeat`, `AdapterReturns` |
| `execute_cancellation` | `CancelBegin`, `CancelFinish`, `CancelSend`, `CancelAcknowledged`, ... |
| daemon start (`recover`) | `Restart` and the steps of `Recovery` |
| anything the environment does | `Crash`, `BeginShutdown`, the actions of `Fault` (a clock or store call fails) |

Time is abstracted: where the code observes the clock, the observation may or
may not exhaust the allowance of the workflow or the maximum of a task.

### EffectWorker

Every access to an atomic counter, a channel or a mutex is a step, because the
hazards of this file are between two such accesses. `poll`, every execution
thread (`thread`), the cancellation thread (`control`) and `shutdown` have a
program counter each. The capability host is its admission flag (`host`); the
durable side is the set of work it can still hand out (`ready`, `stops`).

### CapabilityRegistry

The registry's mutex makes each passage under it one action, and adapter hooks
run between passages. A registration is `Reserve` (validate, mark as starting),
`Start` (the hook), `Publish` or `Abandon`, `Cleanup` and `Leave`; a removal is
`BeginDrain`, `FinishDrain` or `ForceRemove`, then `StopRemoved`; a shutdown is
`BeginShutdown`, `Take`, `StopTaken` for each adapter, `FinishShutdown`; an
invocation is `Resolve`, `Acquire`, `Drop`. Two callers of one invocation at
the same time are excluded, which is what `TaskRuntime!OneOwner` establishes.

### PeerStore and PeerServing

`PeerStore` has one operator per transaction of `adapters/redb-store/src/peer*`;
`PeerServing` calls them from the threads that run concurrently. A record is its
`phase`, `claim`, `evidence` (of entry), `outcome` and `cancellation`; `location`
tells hot records from tombstones; `available`, `claims` and `terminals` are the
indexes, `count` and `peerActive` the counters.

| code | actions |
|---|---|
| `invoke`, `accept_serving` | `Invoke`, `AcceptServing` |
| `claim_for_worker`, `run_claimed_once` | `Claim`, `AppendCancelled`, `AckCancelled`, `Prepare`, `AppendPreEntryFailure`, `EnterDurably`, `EntryRefused`, `Enter`, `Return`, `Settle` |
| `PeerStoreReporter`, `reject_report` | `Report`, `RejectReport` |
| `worker_loop`, `recover_worker` | `WorkerFault`, `RecoverNothing`, `RecoverClaim`, `RecoverCancellation`, `WorkerStops` |
| `cancel`, `cancel_owned` | `CancelRead`, `CancelRequest`, `CancelResolve`, `CancelAck`, `CancelRefused`, `CancelFault` |
| `with_clients`, `recover`, `maintain_retention` | `Start`, `StartRefused`, `RecoverPage`, `Recovered`, `MaintainRetention` |
| `begin_drain`, `begin_shutdown`, `shutdown_workers`, `revoke_peer` | `CloseAdmission`, `BeginDrain`, `BeginShutdown`, `ShutdownReport`, `RevokeDurably`, `Revoke` |

A store call that commits and whose reply comes too late is the argument `lost`;
a refused call and a panic are `WorkerFault` and `CancelFault`. Times, leases and
deadlines are choices, so an archive batch is any set of finished records. The
checks before and after preparation are one action. The read and the append of
`append_cancelled_before_entry` are one action too: a race lost between them is a
refused append, which the fault actions take. Repeated cancellation calls carry
the same request.

## 3. Runs

| run | question | result |
|---|---|---|
| `one` | one task, every action of `TaskRuntime`, one crash, one failed call | entry happens once; settlement is truthful and final; path claims are kept while they must be and released after; the executed version is the frozen one |
| `pair` | two tasks and their dispatches, a limit on concurrency, crash and recovery | no dispatch is lost or held twice between scheduler, queue, worker and recovery; uncertain tasks keep their slot |
| `corrections` | a task, its correction, a consumer | started tasks have completed inputs; a completed workflow is backed by successes; a spent lineage bars entry |
| `life` | liveness of one task, with a crash | an accepted start moves on; a stop before entry resolves |
| `queues` | `poll`, two threads, the cancellation thread, `shutdown` in each mode | channels never overrun; a clean shutdown is quiet; a retained queue is not entered; a pending mark has a delivery behind it |
| `stops` | adapters that never return, failing claims, a full queue | every stop is delivered |
| `registry` | three registrations of one key, two invocations, removals and shutdown | permits counted and exact; graceful removal waits; the newest serving revision is current; bounds hold; no adapter is left running |
| `serving` | three executions, two workers, a cancellation, a fault, a restart, drain, revocation and shutdown | entry happens once; pre-entry failures are truthful; counters and indexes agree with the records; hot capacity is reserved; a crash leaves a store that verifies; entered work has an owner until shutdown; a clean report stays true; evidence is kept |
| `stranded`, `ownership`, `drain`, `cancelled` | what a comment or test says of the code | violated, see section 6 |

### Bounds

The worker and the registry are finite by themselves. `TaskRuntime` bounds the
versions of a task (two, so that a revision can race a start), the reports of a
start (two: one before and one at the limit), crashes (one: a second restart
recovers the same record again) and failed calls (one). One task takes every
action; with two or three tasks `MCTaskRuntime` restricts the next-state
relation to the actions whose interplay is in question, and says so where it
does. Three invocations are what it takes for a channel of one to stay full
while a thread holds one item and `poll` another. Three registrations of one key
are needed to have an old permit, a removed generation and a new one at once.
`PeerServing` has one fault, two starts and two relationship generations, so that
each can happen once in front of and once behind any step. Its full product is
too large: `MCPeerServing` lets the first execution meet either a cancellation
call, or a second execution, a drain or a revocation, and a third execution only
where it finds the hot records filled. A cancellation that races a drain, a
revocation or another execution is therefore not covered.
Tasks, invocations, threads and registrars are symmetric where a run says so;
no liveness run uses symmetry.

Deadlock is checked in the `TaskRuntime` runs. The worker, the
registry and peer serving really do stop after a shutdown, so their runs say
`CHECK_DEADLOCK FALSE`.

### Fairness

`TaskRuntime`: the owner's loop (`Tick`) and recovery are weakly fair, since the
daemon's owner polls as long as it lives. The steps of a worker that need the
mutex are strongly fair: a thread that asks for it again and again gets it
eventually. Nothing is assumed of adapters, operators, crashes or failures: an
adapter may never return. `EffectWorker`: every thread is weakly fair, and a
claim of stops does not fail for ever (the one strong fairness); a thread that
is inside an adapter is not forced out of it.

## 4. Proofs

`TaskRuntimeTypeProofs` and `TaskRuntimeProofs` prove, for any tasks, dependencies, corrections, limits and
any number of workers, crashes and failed calls:

| theorem | states |
|---|---|
| `TypeCorrect` | `Spec => []TypeOK` |
| `EntryConsistent` | the inductive invariant `EntryInvariant` |
| `AtMostOneEntry` | an adapter is entered at most once, and only after entry was committed |
| `TruthfulSettlement` | a task settles on its adapter's terminal report or without entry, never otherwise |
| `OpenExecutionHoldsPaths` | an entered execution keeps its path claims until it is settled |
| `SettlementIsFinal` | no step changes the state or result of a settled task |

The only assumption is `ConstantsAssumption`: the sets and bounds have their
types and `NoTask` is not a task.

The three safety theorems are not inductive by themselves. That a task is
entered once depends on where its worker is: between the commit of entry and
the call of the adapter the record already says "entered" while nothing has
happened, and the `enter` place is what says that the worker still owes the
call. `EntryInv(t)` therefore ties the record to the worker's place (`enter`
means committed and not yet entered, `running` means entered), to the path
claims (a worker at `entry` holds them), and to the scheduler's loop (what
`tick` has still to visit is queued, because the loop holds the mutex). It is
checked by TLC as an invariant of run `one`. The proof has a lemma per group of
actions and in it one step per action. `SettledIsFinal` is an action property
and follows from the guards of each action, again one step per action.

Liveness, the counting of `EffectWorker` and `CapabilityRegistry`, everything
about `PeerStore` and `PeerServing`, and the properties of lineages (a recursive definition) are model-checked only.

## 5. What is not modelled

`PROJECT.json` says it per component. In `TaskRuntime`, model calls inside a
task are one effect, and the workflow store's commit is atomic and either
succeeds or fails with nothing stored. In `CapabilityRegistry`, `pending` and
`transferred` are left out because nothing in the source sets them. Of peer
serving, progress observations, artifact transfer, catalogs, direct clients and
claim leases are left out. Documents, digests, wording and page formats are left out everywhere.

## 6. Where the code and its documentation disagree

* `stranded`: a start that was accepted before a crash, in a workflow that is
  paused when the daemon recovers, is neither handed out nor requeued
  (`crates/runtime/src/tasks/effects.rs:455`). After Continue it stays Running
  with no worker until the next restart.
* `ownership`: a stop that is handled while a worker holds an ambiguous
  preparation settles the task as "stop won before external entry"
  (`effects.rs:375`), although non-entry was not established.
* `drain`: an execution thread lowers `queued_executions` before it raises
  `active_executions` (`crates/capability-host/src/worker.rs:570`); a Drain
  shutdown that looks in between finds the worker idle, closes the host, and
  the action is refused before the deadline.
* `cancelled`: a cancellation call reads an execution as Entered; before its
  request is stored, the worker gives the execution up as Uncertain. The record
  then carries no entry evidence, and `cancel_owned`
  (`crates/capability-host/src/serving.rs:868`) stores a Cancelled outcome with no
  side effects and answers "durable cancellation prevented adapter entry", for an
  adapter that was entered. `docs/decisions/0018-peer-idempotency-and-uncertainty.md:21`
  reserves that outcome for cancellation before entry.

## 7. Plan

In this order; each step names its module, the runs and the theorems.

1. `PeerServing`, the rest: liveness of accepted work (a claim whose reply was
   lost waits for a restart; a contradicted cancellation occupies its worker), a
   restart after a revocation, progress observations and catalogs. Theorems:
   entry at most once, indexes equal the records.
2. `AtMostOnce`: the abstract promise (accepted, entered at most once, then one
   truthful outcome), which `TaskRuntime` and `PeerServing` are shown to
   implement.
3. `WorkflowStore`: commit, receipts, replay after a lost reply, capacity
   reserved for settlement. Theorem: a command takes effect at most once.
4. `DurableClock`, `DurationAccount`: times never go back; reservations cover
   what was spent.
5. `NativePaths`: overlap of claims between tasks.
6. `OwnerQueue`, `DaemonShutdown`: reply timeouts, lock order, order of stopping.
7. `ArtifactStore`: publication, cleanup, accounting.
8. `Managed`: resources, uses, retirement.
9. `PeerClient`: the calling side with lost replies, composed with `PeerServing`.
10. `ModelLoop`, `LocalProcess`, the authority evaluator as operators.
11. Proofs about `CapabilityRegistry` (`OwnerIsExact`, `ExactGeneration`).
