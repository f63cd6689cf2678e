----------------------------- MODULE PeerServing -----------------------------
(***************************************************************************)
(* The serving half of a peer: requests admitted into the durable store,   *)
(* the fixed pool of worker threads that claim, enter and settle them, the  *)
(* cancellation calls that race the workers, and the service's lifecycle    *)
(* from recovery to drain, shutdown and crash.                              *)
(*                                                                         *)
(* Every call of the store goes through the owner's queue, so a call may    *)
(* be refused, and a call whose reply is not awaited long enough still      *)
(* happens: the argument lost of an action is the second case.  An elapsed  *)
(* deadline, a refused preparation and an exhausted quota are choices.      *)
(***************************************************************************)
EXTENDS PeerStore

CONSTANTS
    Cancels,            \* cancellation calls in flight at most
    MaxFaults,          \* bound on store calls refused or answered too late, and panics
    MaxStarts,          \* bound on starts of the process
    MaxGeneration       \* bound on relationship generations

ASSUME ServingAssumption == {MaxFaults, MaxStarts, MaxGeneration} \subseteq Nat

VARIABLES
    service,            \* drain, and whether the process runs
    configured,         \* the relationship generations of the running configuration
    revoked,            \* revoked_peers
    invoking,           \* the generation an invocation was authorized with, 0 for none
    worker,             \* what each worker thread is doing
    call,               \* what each cancellation call is doing
    closed,             \* shutdown_workers closed the durable admission
    report,             \* the report of shutdown_workers
    entries,            \* how often the adapter was entered for an execution
    faults, starts

process == <<service, configured, revoked, closed, report>>
clients == <<invoking, call>>
history == <<entries, faults, starts>>
vars    == <<store, process, clients, worker, history>>

Places == {"idle", "claimed", "authorized", "refused", "marked", "running", "returned",
           "acking", "recovering", "gone"}
Transitions == {"none", "inspect", "cancel", "release", "uncertain"}
Idle == [at |-> "idle", execution |-> None, generation |-> 0, only |-> FALSE, next |-> "none"]
Quiet == [at |-> "idle", execution |-> None, before |-> "absent", entered |-> FALSE, ack |-> "none"]

Running == service \in {"ready", "draining", "stopping"}
Work(w) == worker[w].execution
At(w, places) == worker[w].at \in places

Becomes(w, place) == worker' = [worker EXCEPT ![w].at = place]
Settled(w) == worker' = [worker EXCEPT ![w] = Idle]
Recovers(w, transition) ==
    worker' = [worker EXCEPT ![w].at = "recovering", ![w].next = transition]

(* A store call's effect, after which the worker is settled, or recovers when it never *)
(* saw the reply.                                                                      *)
Spend(lost) == lost => faults < MaxFaults
Faults(lost) == faults' = IF lost THEN faults + 1 ELSE faults
SettledUnless(w, lost, transition) ==
    /\ Spend(lost)
    /\ IF lost THEN Recovers(w, transition) ELSE Settled(w)
    /\ Faults(lost)

Init ==
    /\ StoreInit
    /\ service = "down"
    /\ configured = [c \in Callers |-> 1]
    /\ revoked = {}
    /\ invoking = [e \in Executions |-> 0]
    /\ worker = [w \in Workers |-> [Idle EXCEPT !.at = "gone"]]
    /\ call = [k \in Cancels |-> Quiet]
    /\ closed = FALSE /\ report = "none"
    /\ entries = [e \in Executions |-> 0]
    /\ faults = 0 /\ starts = 0

-----------------------------------------------------------------------------
(* Invocation *)

(* relationship: what the service in memory knows of the caller *)
Related(c) == c \notin revoked

(* invoke, up to the authority decision.  A request identity that is known is replayed *)
(* or refused without a change.                                                        *)
Invoke(e) ==
    /\ service = "ready"
    /\ Related(Caller(e))
    /\ byRequest[RequestOf[e]] = None
    /\ invoking[e] = 0
    /\ invoking' = [invoking EXCEPT ![e] = configured[Caller(e)]]
    /\ UNCHANGED <<store, process, call, worker, history>>

(* accept_serving: the admission transaction, or one of its refusals *)
AcceptServing(e) ==
    /\ Running
    /\ invoking[e] > 0
    /\ invoking' = [invoking EXCEPT ![e] = 0]
    /\ Admit(e, invoking[e]) \/ UNCHANGED store
    /\ UNCHANGED <<process, call, worker, history>>

-----------------------------------------------------------------------------
(* Workers *)

(* claim_for_worker.  A claim whose reply is lost leaves the worker without it. *)
Claim(w, e, lost) ==
    /\ At(w, {"idle"}) /\ service = "ready"
    /\ count.queued > 0
    /\ ClaimDispatch(e, w)
    /\ Spend(lost) /\ Faults(lost)
    /\ worker' = IF lost THEN worker
                 ELSE [worker EXCEPT ![w] = [at |-> "claimed", execution |-> e,
                                             generation |-> generation[e] + 1,
                                             only |-> phase[e] = "cancelling", next |-> "none"]]
    /\ UNCHANGED <<process, clients, entries, starts>>

(* append_cancelled_before_entry, for a cancellation the worker claimed; what another *)
(* actor terminalized in the meantime is taken as the evidence.                       *)
CancelledBeforeEntry(e) ==
    /\ Hot(e)
    /\ IF phase[e] = "terminal"
       THEN UNCHANGED store
       ELSE TerminalAllowed(e) /\ AppendTerminal(e, "cancelled")

AppendCancelled(w, lost) ==
    /\ At(w, {"claimed"}) /\ worker[w].only
    /\ CancelledBeforeEntry(Work(w))
    /\ Spend(lost) /\ Faults(lost)
    /\ IF lost THEN Recovers(w, "cancel") ELSE Becomes(w, "acking")
    /\ UNCHANGED <<process, clients, entries, starts>>

(* complete_pre_entry_cancellation, the acknowledgement: evidence other than the       *)
(* cancellation is refused.                                                            *)
AckCancelled(w, lost) ==
    /\ At(w, {"acking"})
    /\ Hot(Work(w)) /\ cancellation[Work(w)] = "requested" /\ outcome[Work(w)] = "cancelled"
    /\ Acknowledge(Work(w), "prevented")
    /\ SettledUnless(w, lost, "cancel")
    /\ UNCHANGED <<process, clients, entries, starts>>

CancelledGone(w) == At(w, {"claimed"}) /\ worker[w].only /\ ~Hot(Work(w))

AckRefused(w) ==
    /\ \/ CancelledGone(w)
       \/ /\ At(w, {"acking"})
          /\ ~(Hot(Work(w)) /\ cancellation[Work(w)] = "requested" /\ outcome[Work(w)] = "cancelled")
    /\ Recovers(w, "cancel")
    /\ UNCHANGED <<store, process, clients, history>>

(* run_claimed_once, the checks of the drain and of the authority in front of the       *)
(* preparation, the preparation, and the authority sampled again behind it.              *)
Prepare(w) ==
    /\ At(w, {"claimed"}) /\ ~worker[w].only
    /\ service = "ready"
    /\ Related(Caller(Work(w)))
    /\ Becomes(w, "authorized")
    /\ UNCHANGED <<store, process, clients, history>>

(* append_pre_entry_failure: for an elapsed deadline, a drain, a refusal of authority *)
(* or of preparation, and for a refused entry.                                        *)
AppendPreEntryFailure(w, lost) ==
    /\ At(w, {"claimed", "refused"}) /\ ~worker[w].only
    /\ TerminalAllowed(Work(w))
    /\ AppendTerminal(Work(w), "failed")
    /\ SettledUnless(w, lost, "inspect")
    /\ UNCHANGED <<process, clients, entries, starts>>

PreEntryFailureRefused(w) ==
    /\ At(w, {"claimed", "refused"}) /\ ~worker[w].only
    /\ ~TerminalAllowed(Work(w))
    /\ Recovers(w, "inspect")
    /\ UNCHANGED <<store, process, clients, history>>

(* mark_peer_entered *)
EnterDurably(w, lost) ==
    /\ At(w, {"authorized"})
    /\ Enterable(Work(w), w, worker[w].generation)
    /\ EntryAdmitted(Work(w), configured[Caller(Work(w))])
    /\ MarkEntered(Work(w))
    /\ Spend(lost) /\ Faults(lost)
    /\ IF lost THEN Recovers(w, "inspect") ELSE Becomes(w, "marked")
    /\ UNCHANGED <<process, clients, entries, starts>>

(* The claim is gone (an error, hence a recovery), or the entry is not admitted. *)
EntryRefused(w) ==
    /\ At(w, {"authorized"})
    /\ IF Enterable(Work(w), w, worker[w].generation)
       THEN /\ ~EntryAdmitted(Work(w), configured[Caller(Work(w))])
            /\ Becomes(w, "refused")
       ELSE Recovers(w, "inspect")
    /\ UNCHANGED <<store, process, clients, history>>

(* PreparedServingExecution::enter *)
Enter(w) ==
    /\ At(w, {"marked"})
    /\ entries' = [entries EXCEPT ![Work(w)] = @ + 1]
    /\ Becomes(w, "running")
    /\ UNCHANGED <<store, process, clients, faults, starts>>

(* PeerStoreReporter: a terminal report that the store takes *)
Report(w) ==
    /\ At(w, {"running"})
    /\ TerminalAllowed(Work(w))
    /\ AppendTerminal(Work(w), "reported")
    /\ UNCHANGED <<process, clients, worker, history>>

(* reject_report: a report past its deadline or quota, or refused by the store *)
RejectReport(w) ==
    /\ At(w, {"running"})
    /\ Doubtful(Work(w), w, worker[w].generation)
    /\ MarkUncertain(Work(w))
    /\ UNCHANGED <<process, clients, worker, history>>

(* The adapter returns, whether or not it reported. *)
Return(w) ==
    /\ At(w, {"running"})
    /\ Becomes(w, "returned")
    /\ UNCHANGED <<store, process, clients, history>>

(* What run_claimed_once leaves behind: a finished record, or an uncertain one *)
Settle(w, lost) ==
    /\ At(w, {"returned"})
    /\ LET e == Work(w) IN
       IF Hot(e) /\ ~Finished(e)
       THEN /\ Doubtful(e, w, worker[w].generation)
            /\ MarkUncertain(e)
            /\ SettledUnless(w, lost, "uncertain")
       ELSE /\ ~lost
            /\ Settled(w)
            /\ UNCHANGED <<store, faults>>
    /\ UNCHANGED <<process, clients, entries, starts>>

(* A store call refused, or a panic of the worker, which always inspects the claim: what *)
(* is left to do is remembered.                                                           *)
Remembered(w) ==
    {"inspect"} \cup (IF worker[w].at = "returned" THEN {"uncertain"} ELSE {})
                \cup (IF worker[w].only THEN {"cancel"} ELSE {})

(* A mutation: a panic after entry is caught and forgotten. *)
WorkerFaultForgotten(w) ==
    /\ At(w, Places \ {"idle", "recovering", "gone"})
    /\ faults < MaxFaults
    /\ faults' = faults + 1
    /\ Settled(w)
    /\ UNCHANGED <<store, process, clients, entries, starts>>

WorkerFault(w) ==
    /\ At(w, Places \ {"idle", "recovering", "gone"})
    /\ faults < MaxFaults
    /\ faults' = faults + 1
    /\ \E transition \in Remembered(w) : Recovers(w, transition)
    /\ UNCHANGED <<store, process, clients, entries, starts>>

(* recover_worker, for an execution that is finished, archived or no longer this       *)
(* worker's.                                                                           *)
HeldBy(e, w) == claim[e] # None /\ claim[e].worker = w

NothingToRecover(w) ==
    LET e == Work(w) IN
    \/ ~Hot(e)
    \/ worker[w].next # "cancel" /\ ~HeldBy(e, w)
    \/ worker[w].next = "cancel" /\ phase[e] = "terminal" /\ cancellation[e] # "requested"

RecoverNothing(w) ==
    /\ At(w, {"recovering"})
    /\ NothingToRecover(w)
    /\ Settled(w)
    /\ UNCHANGED <<store, process, clients, history>>

(* recover_worker, the transitions: the evidence of entry decides once between release *)
(* and uncertainty, and what was decided stays through the attempts that fail.         *)
Resolved(w) ==
    IF worker[w].next # "inspect" THEN worker[w].next
    ELSE IF evidence[Work(w)] THEN "uncertain" ELSE "release"

RecoverClaim(w, lost) ==
    /\ At(w, {"recovering"}) /\ worker[w].next # "cancel"
    /\ ~NothingToRecover(w)
    /\ \/ Resolved(w) = "release" /\ ~evidence[Work(w)] /\ ReleaseClaim(Work(w))
       \/ Resolved(w) = "uncertain" /\ evidence[Work(w)] /\ MarkUncertain(Work(w))
    /\ SettledUnless(w, lost, Resolved(w))
    /\ UNCHANGED <<process, clients, entries, starts>>

RecoverCancellation(w) ==
    /\ At(w, {"recovering"}) /\ worker[w].next = "cancel"
    /\ ~NothingToRecover(w)
    /\ phase[Work(w)] # "terminal" \/ outcome[Work(w)] = "cancelled"
    /\ CancelledBeforeEntry(Work(w))
    /\ Becomes(w, "acking")
    /\ UNCHANGED <<process, clients, history>>

(* The evidence of a cancelled execution is another terminal, and nobody acknowledged. *)
Contradicted(w) ==
    /\ worker[w].next = "cancel" /\ Hot(Work(w))
    /\ phase[Work(w)] = "terminal" /\ outcome[Work(w)] # "cancelled"
    /\ cancellation[Work(w)] = "requested"

(* worker_loop leaves once it is told to stop: at once when it waits, after one more *)
(* attempt that fails when it recovers.                                              *)
WorkerStops(w) ==
    /\ service = "stopping"
    /\ \/ At(w, {"idle"}) /\ UNCHANGED faults
       \/ At(w, {"recovering"}) /\ Contradicted(w) /\ UNCHANGED faults
       \/ At(w, {"recovering"}) /\ Spend(TRUE) /\ Faults(TRUE)
    /\ worker' = [worker EXCEPT ![w] = [Idle EXCEPT !.at = "gone"]]
    /\ UNCHANGED <<store, process, clients, entries, starts>>

-----------------------------------------------------------------------------
(* Cancellation calls *)

Target(k) == call[k].execution

(* cancel: the snapshot the call decides on.  An acknowledged or archived execution is *)
(* answered from it.                                                                   *)
CancelRead(k, e) ==
    /\ Running /\ Related(Caller(e))
    /\ call[k].at = "idle"
    /\ Hot(e) /\ cancellation[e] \in {"none", "requested"}
    /\ call' = [call EXCEPT ![k] = [Quiet EXCEPT !.at = "read", !.execution = e,
                                                 !.before = phase[e]]]
    /\ UNCHANGED <<store, process, invoking, worker, history>>

CallEnds(k) == call' = [call EXCEPT ![k] = Quiet]

(* cancel_owned, request_peer_cancellation *)
CancelRequest(k) ==
    /\ call[k].at = "read"
    /\ Hot(Target(k))
    /\ RequestCancellation(Target(k))
    /\ call' = [call EXCEPT ![k].at = "requested", ![k].entered = evidence[Target(k)]]
    /\ UNCHANGED <<process, invoking, worker, history>>

(* cancel_owned, the answer: from the phase that was read first, then from the entry *)
(* evidence of the record the request returned.                                      *)
CancelAnswered(k, ack) ==
    call' = [call EXCEPT ![k].at = "acking", ![k].ack = ack]

CancelResolve(k) ==
    /\ call[k].at = "requested"
    /\ \/ /\ call[k].before = "terminal"
          /\ CancelAnswered(k, "tooLate") /\ UNCHANGED store
       \/ /\ call[k].before = "uncertain"
          /\ CancelAnswered(k, "unknown") /\ UNCHANGED store
       \/ /\ call[k].before \notin {"terminal", "uncertain"} /\ ~call[k].entered
          /\ CancelledBeforeEntry(Target(k))
          /\ CancelAnswered(k, "prevented")
       \/ /\ call[k].before \notin {"terminal", "uncertain"} /\ call[k].entered
          /\ CancelAnswered(k, "routed") /\ UNCHANGED store
    /\ UNCHANGED <<process, invoking, worker, history>>

(* acknowledge_peer_cancellation *)
CancelAck(k) ==
    /\ call[k].at = "acking"
    /\ Hot(Target(k))
    /\ Acknowledge(Target(k), call[k].ack)
    /\ CallEnds(k)
    /\ UNCHANGED <<process, invoking, worker, history>>

(* The execution was archived under the call. *)
CancelRefused(k) ==
    /\ call[k].at # "idle"
    /\ ~Hot(Target(k))
    /\ CallEnds(k)
    /\ UNCHANGED <<store, process, invoking, worker, history>>

CancelFault(k) ==
    /\ call[k].at # "idle"
    /\ faults < MaxFaults
    /\ faults' = faults + 1
    /\ CallEnds(k)
    /\ UNCHANGED <<store, process, invoking, worker, entries, starts>>

-----------------------------------------------------------------------------
(* Lifecycle *)

(* with_clients: admission is closed, the configured relationships are stored and the *)
(* workers start.  The configuration is the operator's.                               *)
Enabled(conf) == [c \in Callers |-> [generation |-> conf[c], enabled |-> TRUE]]

Start(conf) ==
    /\ service = "down" /\ starts < MaxStarts
    /\ \A c \in Callers : Configured(c, Enabled(conf)[c])
    /\ relationship' = Enabled(conf)
    /\ configured' = conf
    /\ admissionOpen' = FALSE
    /\ service' = "recovering"
    /\ revoked' = {} /\ closed' = FALSE /\ report' = "none"
    /\ worker' = [w \in Workers |-> Idle]
    /\ starts' = starts + 1
    /\ UNCHANGED <<record, generation, indexes, identity, counters, clients, entries, faults>>

(* with_clients refused: the relationships in front of the first conflict stay stored. *)
StartRefused(conf, C) ==
    /\ service = "down" /\ starts < MaxStarts
    /\ \A c \in C : Configured(c, Enabled(conf)[c])
    /\ \E c \in Callers \ C : ~Configured(c, Enabled(conf)[c])
    /\ relationship' = [c \in Callers |-> IF c \in C THEN Enabled(conf)[c] ELSE relationship[c]]
    /\ admissionOpen' = FALSE
    /\ starts' = starts + 1
    /\ UNCHANGED <<record, generation, indexes, identity, counters, process, clients, worker,
                   entries, faults>>

(* recover: pages of claims until none is left *)
RecoverPage(S) ==
    /\ service = "recovering" /\ claims # {}
    /\ RecoverClaims(S)
    /\ UNCHANGED <<process, clients, worker, history>>

(* recover, the rest of it: verification, one page of retention, verification again, *)
(* admission opened and the workers allowed to claim.                                *)
Recovered(S) ==
    /\ service = "recovering" /\ claims = {}
    /\ Verified
    /\ location' = Archived(S)
    /\ terminals' = terminals \ S
    /\ count' = CountArchived(S)
    /\ admissionOpen' = TRUE
    /\ service' = "ready"
    /\ UNCHANGED <<record, generation, available, claims, byRequest, order, peerActive,
                   relationship, configured, revoked, closed, report, clients, worker, history>>

(* maintain_retention *)
MaintainRetention(S) ==
    /\ Running
    /\ S # {}
    /\ Archive(S)
    /\ UNCHANGED <<process, clients, worker, history>>

(* begin_drain: the durable admission first, then the local state *)
CloseAdmission ==
    /\ service = "ready" /\ admissionOpen
    /\ SetAdmissionOpen(FALSE)
    /\ UNCHANGED <<process, clients, worker, history>>

BeginDrain ==
    /\ service = "ready" /\ ~admissionOpen
    /\ service' = "draining"
    /\ UNCHANGED <<store, configured, revoked, closed, report, clients, worker, history>>

(* A mutation: the failure of the durable close is not reported. *)
BeginShutdownBlind(ok) ==
    /\ \/ service \in {"ready", "draining"}
       \/ service = "stopping" /\ ~closed /\ report = "none"
    /\ Spend(~ok) /\ Faults(~ok)
    /\ IF ok THEN SetAdmissionOpen(FALSE) ELSE UNCHANGED store
    /\ closed' = TRUE
    /\ service' = "stopping"
    /\ UNCHANGED <<configured, revoked, report, clients, worker, entries, starts>>

(* begin_shutdown: local claims stop even when the durable admission could not be *)
(* closed.                                                                        *)
BeginShutdown(ok) ==
    /\ \/ service \in {"ready", "draining"}
       \/ service = "stopping" /\ ~closed /\ report = "none"
    /\ Spend(~ok) /\ Faults(~ok)
    /\ IF ok THEN SetAdmissionOpen(FALSE) ELSE UNCHANGED store
    /\ closed' = ok
    /\ service' = "stopping"
    /\ UNCHANGED <<configured, revoked, report, clients, worker, entries, starts>>

(* shutdown_workers, the report: after every worker was joined, or after the timeout *)
ShutdownReport ==
    /\ service = "stopping" /\ report = "none"
    /\ report' = IF closed /\ count.active = 0 /\ \A w \in Workers : At(w, {"gone"})
                 THEN "clean" ELSE "unclean"
    /\ UNCHANGED <<store, service, configured, revoked, closed, clients, worker, history>>

(* revoke_peer: durable, then in memory *)
RevokeDurably(c) ==
    /\ service \in {"ready", "draining"} /\ Related(c)
    /\ relationship[c] = [generation |-> configured[c], enabled |-> TRUE]
    /\ configured[c] < MaxGeneration
    /\ relationship' = [relationship EXCEPT ![c] = [generation |-> configured[c] + 1,
                                                    enabled |-> FALSE]]
    /\ UNCHANGED <<record, generation, indexes, identity, counters, admissionOpen, process,
                   clients, worker, history>>

Revoke(c) ==
    /\ service \in {"ready", "draining"} /\ Related(c)
    /\ ~relationship[c].enabled
    /\ revoked' = revoked \cup {c}
    /\ UNCHANGED <<store, service, configured, closed, report, clients, worker, history>>

(* The process ends, after its shutdown or without one; the threads end with it. *)
ProcessEnds ==
    /\ service # "down"
    /\ service' = "down"
    /\ revoked' = {} /\ closed' = FALSE
    /\ invoking' = [e \in Executions |-> 0]
    /\ worker' = [w \in Workers |-> [Idle EXCEPT !.at = "gone"]]
    /\ call' = [k \in Cancels |-> Quiet]
    /\ UNCHANGED <<store, configured, report, history>>

-----------------------------------------------------------------------------
Worker(w) ==
    \/ \E e \in Executions, lost \in BOOLEAN : Claim(w, e, lost)
    \/ \E lost \in BOOLEAN :
         \/ AppendCancelled(w, lost) \/ AckCancelled(w, lost) \/ AppendPreEntryFailure(w, lost)
         \/ EnterDurably(w, lost) \/ Settle(w, lost) \/ RecoverClaim(w, lost)
    \/ AckRefused(w) \/ Prepare(w) \/ PreEntryFailureRefused(w)
    \/ EntryRefused(w) \/ Enter(w) \/ Report(w) \/ RejectReport(w) \/ Return(w)
    \/ WorkerFault(w) \/ RecoverNothing(w) \/ RecoverCancellation(w) \/ WorkerStops(w)

Cancellation(k) ==
    \/ \E e \in Executions : CancelRead(k, e)
    \/ CancelRequest(k) \/ CancelResolve(k) \/ CancelAck(k) \/ CancelRefused(k) \/ CancelFault(k)

Lifecycle ==
    \/ \E conf \in [Callers -> 1 .. MaxGeneration] :
         Start(conf) \/ \E C \in SUBSET Callers : StartRefused(conf, C)
    \/ \E S \in ClaimPages : RecoverPage(S)
    \/ \E S \in ArchiveBatches : Recovered(S) \/ MaintainRetention(S)
    \/ CloseAdmission \/ BeginDrain \/ ShutdownReport \/ ProcessEnds
    \/ \E ok \in BOOLEAN : BeginShutdown(ok)
    \/ \E c \in Callers : RevokeDurably(c) \/ Revoke(c)

Next ==
    \/ \E e \in Executions : Invoke(e) \/ AcceptServing(e)
    \/ \E w \in Workers : Worker(w)
    \/ \E k \in Cancels : Cancellation(k)
    \/ Lifecycle

Spec == Init /\ [][Next]_vars

-----------------------------------------------------------------------------
(* Properties *)

(* The records, counters and threads stay in their types; a counter that is released more  *)
(* often than it was taken would leave them (accounting.rs, checked_sub).                   *)
TypeOK ==
    /\ phase \in [Executions -> Phases]
    /\ \A e \in Executions : claim[e] = None \/ claim[e] \in Claims
    /\ evidence \in [Executions -> BOOLEAN]
    /\ outcome \in [Executions -> Outcomes]
    /\ cancellation \in [Executions -> {"none", "requested"} \cup Acknowledgements]
    /\ location \in [Executions -> {"none", "hot", "archived"}]
    /\ generation \in [Executions -> Nat]
    /\ byRequest \in [Requests -> Executions \cup {None}]
    /\ \A i \in DOMAIN order : order[i] \in Executions
    /\ {available, claims, terminals} \subseteq SUBSET Executions
    /\ count \in [active : Nat, queued : Nat, hot : Nat, tombstones : Nat]
    /\ peerActive \in [Callers -> Nat]
    /\ admissionOpen \in BOOLEAN
    /\ relationship \in [Callers -> [generation : Nat, enabled : BOOLEAN]]
    /\ service \in {"down", "recovering", "ready", "draining", "stopping"}
    /\ configured \in [Callers -> Nat] /\ revoked \subseteq Callers
    /\ invoking \in [Executions -> Nat]
    /\ worker \in [Workers -> [at : Places, execution : Executions \cup {None}, generation : Nat,
                               only : BOOLEAN, next : Transitions]]
    /\ call \in [Cancels -> [at : {"idle", "read", "requested", "acking"},
                             execution : Executions \cup {None}, before : Phases,
                             entered : BOOLEAN, ack : Acknowledgements \cup {"none"}]]
    /\ closed \in BOOLEAN /\ report \in {"none", "clean", "unclean"}
    /\ entries \in [Executions -> Nat] /\ {faults, starts} \subseteq Nat

(* The adapter is entered at most once for an accepted execution, through released and    *)
(* recovered claims, cancellations, panics, lost replies and restarts, and once it was     *)
(* entered the record is never handed out again (claims.rs, worker.rs).                    *)
EnteredOnce ==
    \A e \in Executions :
        /\ entries[e] <= 1
        /\ entries[e] = 1 => phase[e] \notin {"absent", "available", "claimed"}

(* The terminal "failed before entry" of append_pre_entry_failure, which promises no side *)
(* effect, is only ever stored for an execution whose adapter was not entered.            *)
FailedBeforeEntry ==
    \A e \in Executions : outcome[e] = "failed" => entries[e] = 0

(* The counters admission is decided on and the indexes dispatch, recovery and retention  *)
(* walk agree with the records after every transaction: what is active, what waits for   *)
(* entry, what is claimed and what is finished (accounting.rs, integrity.rs).              *)
AccountsAgree ==
    /\ available = {e \in HotRecords : Dispatchable(e)}
    /\ claims = {e \in HotRecords : claim[e] # None}
    /\ terminals = {e \in HotRecords : Finished(e)}
    /\ count.active = Cardinality(ActiveRecords)
    /\ count.queued = Cardinality({e \in ActiveRecords : PreEntry(e)})
    /\ count.hot = Cardinality(terminals)
    /\ \A c \in Callers : peerActive[c] = Cardinality({e \in ActiveRecords : Caller(e) = c})

(* Every active execution has a place among the hot records when it finishes: admission   *)
(* reserves it (admit_peer_execution), and no settlement ever needs more.                  *)
SettlementReserved == count.hot + count.active <= MaximumHotTerminal

(* The integrity check between claim recovery and the opening of admission accepts every  *)
(* store a crash can leave behind (lifecycle.rs recover, integrity.rs verify).             *)
RecoveryVerifies == service = "recovering" /\ claims = {} => Verified

(* Until shutdown, an execution with durable entry has a worker that still owes its       *)
(* settlement, whatever failed in between: no entered call is forgotten (worker_loop's     *)
(* pending_recovery).                                                                      *)
EnteredOwned ==
    service \in {"ready", "draining"} =>
        \A e \in Executions : evidence[e] =>
            \E w \in Workers : Work(w) = e /\ At(w, Places \ {"idle", "gone", "claimed", "refused"})

(* A clean report of shutdown_workers stays true: nothing accepted is active and nothing  *)
(* can be accepted behind it.                                                              *)
CleanMeansIdle ==
    report = "clean" => \A e \in Executions : ~IsActive(e)

(* What was settled stays settled, and the request identity stays bound to its execution, *)
(* hot or archived (append_peer_observation, archive_eligible_in_transaction).             *)
EvidenceKept ==
    [][/\ \A e \in Executions : phase[e] = "terminal" =>
             phase'[e] = "terminal" /\ outcome'[e] = outcome[e]
       /\ \A r \in Requests : byRequest[r] # None => byRequest'[r] = byRequest[r]]_vars

(* A cancellation that is answered or stored as prevented found no entered adapter          *)
(* (cancel_owned, "durable cancellation prevented adapter entry").                          *)
PreventedBeforeEntry ==
    \A e \in Executions :
        cancellation[e] = "prevented" \/ outcome[e] = "cancelled" => entries[e] = 0

=============================================================================
