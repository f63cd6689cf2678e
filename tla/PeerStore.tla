------------------------------ MODULE PeerStore ------------------------------
(***************************************************************************)
(* The durable owner of accepted serving executions: one record per        *)
(* accepted execution with its phase, claim and entry evidence, the        *)
(* indexes over the records, the counters admission is decided on, and one *)
(* operator per transaction of the redb store.                             *)
(*                                                                         *)
(* An execution identity is the hash of the caller, the request identity   *)
(* and the request bytes, so two executions with one RequestOf are two     *)
(* different bodies sent under the same request identity.  Times, leases   *)
(* and the documents themselves are left out: what a time decides is a     *)
(* choice of the caller of the transaction.  A record's revision is only   *)
(* kept as the number of claims it has had, which is what tells one claim  *)
(* generation from another.                                                *)
(***************************************************************************)
EXTENDS Naturals, Sequences, FiniteSets

CONSTANTS
    Executions, Requests, Callers, Workers,
    RequestOf,          \* the request identity an execution was derived from
    CallerOf,           \* the caller that owns a request identity
    MaximumActive,      \* relationship.maximum_active, per caller
    MaximumGlobalActive, MaximumDispatchQueue, MaximumHotTerminal,
    ArchiveBatch, RecoveryPage,
    None

ASSUME StoreAssumption ==
    /\ RequestOf \in [Executions -> Requests]
    /\ CallerOf \in [Requests -> Callers]
    /\ MaximumActive \in [Callers -> Nat \ {0}]
    /\ {MaximumGlobalActive, MaximumDispatchQueue, MaximumHotTerminal,
        ArchiveBatch, RecoveryPage} \subseteq Nat \ {0}
    /\ None \notin Executions \cup Workers

VARIABLES
    phase,              \* [Executions -> Phases]
    claim,              \* the worker and generation that hold the execution
    evidence,           \* the phase carries durable entry evidence
    outcome,            \* the terminal observation of the execution
    cancellation,       \* the cancellation request and its acknowledgement
    location,           \* where the execution lives: hot or tombstone
    generation,         \* claims the record has had
    byRequest,          \* PEER_EXECUTIONS_BY_REQUEST
    order,              \* executions in acceptance order
    available,          \* PEER_DISPATCH_AVAILABLE
    claims,             \* PEER_ACTIVE_CLAIMS
    terminals,          \* PEER_TERMINAL_INDEX
    count,              \* the global counters
    peerActive,         \* the active counter of each caller
    admissionOpen,
    relationship        \* PEER_RELATIONSHIPS: generation and whether it is enabled

record    == <<phase, claim, evidence, outcome, cancellation>>
indexes   == <<available, claims, terminals>>
identity  == <<location, byRequest, order>>
counters  == <<count, peerActive>>
authority == <<admissionOpen, relationship>>
store     == <<record, generation, indexes, identity, counters, authority>>

Phases == {"absent", "available", "claimed", "entered", "cancelling", "uncertain", "terminal"}
Outcomes == {"none", "reported", "failed", "cancelled"}
Acknowledgements == {"prevented", "tooLate", "unknown", "routed"}
Claims == [worker : Workers, generation : Nat]

Caller(e) == CallerOf[RequestOf[e]]
Hot(e) == location[e] = "hot"

(* PeerExecutionPhase::is_active, and the active phases without entry evidence *)
IsActive(e) == phase[e] \in {"available", "claimed", "entered", "cancelling"}
PreEntry(e) == IsActive(e) /\ ~evidence[e]
Finished(e) == phase[e] \in {"uncertain", "terminal"}

(* exact_claim: the stored claim is this worker's claim of this generation *)
ExactClaim(e, w, g) == claim[e] = [worker |-> w, generation |-> g]

StoreInit ==
    /\ phase = [e \in Executions |-> "absent"]
    /\ claim = [e \in Executions |-> None]
    /\ evidence = [e \in Executions |-> FALSE]
    /\ outcome = [e \in Executions |-> "none"]
    /\ cancellation = [e \in Executions |-> "none"]
    /\ location = [e \in Executions |-> "none"]
    /\ generation = [e \in Executions |-> 0]
    /\ byRequest = [r \in Requests |-> None]
    /\ order = << >>
    /\ available = {} /\ claims = {} /\ terminals = {}
    /\ count = [active |-> 0, queued |-> 0, hot |-> 0, tombstones |-> 0]
    /\ peerActive = [c \in Callers |-> 0]
    /\ admissionOpen = FALSE
    /\ relationship = [c \in Callers |-> [generation |-> 1, enabled |-> TRUE]]

-----------------------------------------------------------------------------
(* Shared parts of the transactions *)

(* A mutation: an entered execution is counted as queued. *)
ReleaseQueued(S) ==
    /\ count' = [count EXCEPT !.active = @ - Cardinality(S), !.queued = @ - Cardinality(S),
                              !.hot = @ + Cardinality(S)]
    /\ peerActive' = [c \in Callers |->
                        peerActive[c] - Cardinality({e \in S : Caller(e) = c})]

(* release_active_accounting for each execution of S, the counters it changes *)
ReleaseActive(S) ==
    /\ count' = [count EXCEPT !.active = @ - Cardinality(S),
                              !.queued = @ - Cardinality({e \in S : ~evidence[e]}),
                              !.hot = @ + Cardinality(S)]
    /\ peerActive' = [c \in Callers |->
                        peerActive[c] - Cardinality({e \in S : Caller(e) = c})]

(* archive_eligible_in_transaction: a batch of finished records becomes tombstones,   *)
(* which keep the disposition, the cancellation and the request identity.  Which      *)
(* records are past the hot retention is a matter of times, hence any batch.          *)
ArchiveBatches == {S \in SUBSET terminals : Cardinality(S) <= ArchiveBatch}
Archived(S) == [e \in Executions |-> IF e \in S THEN "archived" ELSE location[e]]
CountArchived(S) == [count EXCEPT !.hot = @ - Cardinality(S), !.tombstones = @ + Cardinality(S)]

-----------------------------------------------------------------------------
(* Admission *)

(* set_peer_admission_open *)
SetAdmissionOpen(open) ==
    /\ admissionOpen' = open
    /\ UNCHANGED <<record, generation, indexes, identity, counters, relationship>>

(* configure_peer_relationship: what is stored already is accepted as it is, anything *)
(* else needs a later generation.                                                     *)
Configured(c, r) == r = relationship[c] \/ r.generation > relationship[c].generation

(* admit_peer_execution, once the request identity is known to be fresh: records are *)
(* archived when the hot records and the reserved ones fill the hot capacity.        *)
Admissible(e, g) ==
    /\ admissionOpen
    /\ relationship[Caller(e)] = [generation |-> g, enabled |-> TRUE]
    /\ peerActive[Caller(e)] < MaximumActive[Caller(e)]
    /\ count.active < MaximumGlobalActive
    /\ count.queued < MaximumDispatchQueue

(* A mutation: nothing is reserved for the active records. *)
HotCapacityUnreserved(S) ==
    /\ S # {} => count.hot >= MaximumHotTerminal
    /\ count.hot - Cardinality(S) < MaximumHotTerminal

HotCapacity(S) ==
    /\ S # {} => count.hot + count.active >= MaximumHotTerminal
    /\ count.hot - Cardinality(S) + count.active < MaximumHotTerminal

Admit(e, g) ==
    /\ byRequest[RequestOf[e]] = None
    /\ Admissible(e, g)
    /\ \E S \in ArchiveBatches :
         /\ HotCapacity(S)
         /\ location' = [Archived(S) EXCEPT ![e] = "hot"]
         /\ terminals' = terminals \ S
         /\ count' = [CountArchived(S) EXCEPT !.active = @ + 1, !.queued = @ + 1]
    /\ phase' = [phase EXCEPT ![e] = "available"]
    /\ byRequest' = [byRequest EXCEPT ![RequestOf[e]] = e]
    /\ order' = Append(order, e)
    /\ available' = available \cup {e}
    /\ peerActive' = [peerActive EXCEPT ![Caller(e)] = @ + 1]
    /\ UNCHANGED <<claim, evidence, outcome, cancellation, generation, claims, authority>>

-----------------------------------------------------------------------------
(* Claims and entry *)

(* claim_dispatch: the oldest dispatchable record; a cancelled one is claimed only to *)
(* complete its cancellation.                                                         *)
NextAvailable(e) ==
    /\ e \in available
    /\ \A i, j \in DOMAIN order : order[i] = e /\ order[j] \in available => i <= j

ClaimDispatch(e, w) ==
    /\ NextAvailable(e)
    /\ generation' = [generation EXCEPT ![e] = @ + 1]
    /\ claim' = [claim EXCEPT ![e] = [worker |-> w, generation |-> generation[e] + 1]]
    /\ phase' = [phase EXCEPT ![e] = IF @ = "cancelling" THEN @ ELSE "claimed"]
    /\ available' = available \ {e}
    /\ claims' = claims \cup {e}
    /\ UNCHANGED <<evidence, outcome, cancellation, terminals, identity, counters, authority>>

(* mark_entered: the compare-and-set in front of the adapter call *)
Enterable(e, w, g) == Hot(e) /\ phase[e] = "claimed" /\ ExactClaim(e, w, g)
EntryAdmitted(e, g) ==
    admissionOpen /\ relationship[Caller(e)] = [generation |-> g, enabled |-> TRUE]

MarkEntered(e) ==
    /\ phase' = [phase EXCEPT ![e] = "entered"]
    /\ evidence' = [evidence EXCEPT ![e] = TRUE]
    /\ count' = [count EXCEPT !.queued = @ - 1]
    /\ UNCHANGED <<claim, outcome, cancellation, generation, indexes, identity, peerActive,
                   authority>>

(* release_claim *)
ReleaseClaim(e) ==
    /\ claim' = [claim EXCEPT ![e] = None]
    /\ phase' = [phase EXCEPT ![e] = IF @ = "cancelling" THEN @ ELSE "available"]
    /\ claims' = claims \ {e}
    /\ available' = available \cup {e}
    /\ UNCHANGED <<evidence, outcome, cancellation, generation, terminals, identity, counters,
                   authority>>

(* mark_uncertain: entered, never reported *)
Doubtful(e, w, g) == Hot(e) /\ evidence[e] /\ ExactClaim(e, w, g)

MarkUncertain(e) ==
    /\ claim' = [claim EXCEPT ![e] = None]
    /\ phase' = [phase EXCEPT ![e] = "uncertain"]
    /\ evidence' = [evidence EXCEPT ![e] = FALSE]
    /\ claims' = claims \ {e}
    /\ terminals' = terminals \cup {e}
    /\ ReleaseActive({e})
    /\ UNCHANGED <<outcome, cancellation, generation, available, identity, authority>>

(* Mutations: entered work is requeued like the rest; uncertain work is not indexed. *)
RecoverAsUnentered(S) ==
    /\ claim' = [e \in Executions |-> IF e \in S THEN None ELSE claim[e]]
    /\ phase' = [e \in Executions |-> IF e \in S THEN "available" ELSE phase[e]]
    /\ evidence' = [e \in Executions |-> evidence[e] /\ e \notin S]
    /\ claims' = claims \ S
    /\ available' = available \cup S
    /\ UNCHANGED <<outcome, cancellation, generation, terminals, identity, counters, authority>>

RecoverUnindexed(S) ==
    /\ claim' = [e \in Executions |-> IF e \in S THEN None ELSE claim[e]]
    /\ phase' = [e \in Executions |->
                   CASE e \in S /\ evidence[e] -> "uncertain"
                     [] e \in S /\ phase[e] = "claimed" -> "available"
                     [] OTHER -> phase[e]]
    /\ evidence' = [e \in Executions |-> evidence[e] /\ e \notin S]
    /\ claims' = claims \ S
    /\ available' = available \cup {e \in S : ~evidence[e]}
    /\ ReleaseActive({e \in S : evidence[e]})
    /\ UNCHANGED <<outcome, cancellation, generation, terminals, identity, authority>>

(* recover_claims: one page of the claims of the previous process *)
RecoverClaims(S) ==
    /\ claim' = [e \in Executions |-> IF e \in S THEN None ELSE claim[e]]
    /\ phase' = [e \in Executions |->
                   CASE e \in S /\ evidence[e] -> "uncertain"
                     [] e \in S /\ phase[e] = "claimed" -> "available"
                     [] OTHER -> phase[e]]
    /\ evidence' = [e \in Executions |-> evidence[e] /\ e \notin S]
    /\ claims' = claims \ S
    /\ available' = available \cup {e \in S : ~evidence[e]}
    /\ terminals' = terminals \cup {e \in S : evidence[e]}
    /\ ReleaseActive({e \in S : evidence[e]})
    /\ UNCHANGED <<outcome, cancellation, generation, identity, authority>>

ClaimPages == {S \in SUBSET claims :
                 Cardinality(S) = IF RecoveryPage < Cardinality(claims)
                                  THEN RecoveryPage ELSE Cardinality(claims)}

-----------------------------------------------------------------------------
(* Observations and cancellation *)

(* A mutation: a second terminal observation replaces the first. *)
TerminalAllowedAgain(e) ==
    Hot(e) /\ phase[e] \in {"claimed", "entered", "cancelling", "uncertain", "terminal"}

(* append_peer_observation of a terminal observation: refused before a claim and after *)
(* another terminal observation.                                                       *)
TerminalAllowed(e) ==
    Hot(e) /\ phase[e] \in {"claimed", "entered", "cancelling", "uncertain"}

(* A mutation: an uncertain record is released a second time. *)
AppendReleasing(e, o) ==
    /\ claim' = [claim EXCEPT ![e] = None]
    /\ phase' = [phase EXCEPT ![e] = "terminal"]
    /\ evidence' = [evidence EXCEPT ![e] = FALSE]
    /\ outcome' = [outcome EXCEPT ![e] = o]
    /\ claims' = claims \ {e}
    /\ available' = available \ {e}
    /\ terminals' = terminals \cup {e}
    /\ ReleaseActive({e})
    /\ UNCHANGED <<cancellation, generation, identity, authority>>

AppendTerminal(e, o) ==
    /\ claim' = [claim EXCEPT ![e] = None]
    /\ phase' = [phase EXCEPT ![e] = "terminal"]
    /\ evidence' = [evidence EXCEPT ![e] = FALSE]
    /\ outcome' = [outcome EXCEPT ![e] = o]
    /\ claims' = claims \ {e}
    /\ available' = available \ {e}
    /\ terminals' = terminals \cup {e}
    /\ IF IsActive(e) THEN ReleaseActive({e}) ELSE UNCHANGED counters
    /\ UNCHANGED <<cancellation, generation, identity, authority>>

(* A mutation: a claimed execution goes back to the queue as if nothing was asked. *)
RequestRequeueing(e) ==
    IF cancellation[e] # "none"
    THEN UNCHANGED store
    ELSE /\ cancellation' = [cancellation EXCEPT ![e] = "requested"]
         /\ phase' = [phase EXCEPT ![e] = IF @ = "claimed" THEN "available"
                                          ELSE IF IsActive(e) THEN "cancelling" ELSE @]
         /\ claim' = [claim EXCEPT ![e] = IF phase[e] = "claimed" THEN None ELSE @]
         /\ claims' = IF phase[e] = "claimed" THEN claims \ {e} ELSE claims
         /\ available' = IF phase[e] = "claimed" THEN available \cup {e} ELSE available
         /\ UNCHANGED <<evidence, outcome, generation, terminals, identity, counters, authority>>

(* request_peer_cancellation: before entry the claim is taken away, so that only a     *)
(* claim that completes the cancellation can follow; a repeated request changes nothing. *)
RequestCancellation(e) ==
    IF cancellation[e] # "none"
    THEN UNCHANGED store
    ELSE /\ cancellation' = [cancellation EXCEPT ![e] = "requested"]
         /\ phase' = [phase EXCEPT ![e] = IF IsActive(e) THEN "cancelling" ELSE @]
         /\ claim' = [claim EXCEPT ![e] = IF phase[e] = "claimed" THEN None ELSE @]
         /\ claims' = IF phase[e] = "claimed" THEN claims \ {e} ELSE claims
         /\ available' = IF phase[e] = "claimed" THEN available \cup {e} ELSE available
         /\ UNCHANGED <<evidence, outcome, generation, terminals, identity, counters, authority>>

(* acknowledge_peer_cancellation: the first acknowledgement stays *)
Acknowledge(e, a) ==
    /\ cancellation' = [cancellation EXCEPT ![e] = IF @ = "requested" THEN a ELSE @]
    /\ UNCHANGED <<phase, claim, evidence, outcome, generation, indexes, identity, counters,
                   authority>>

(* archive_peer_executions *)
Archive(S) ==
    /\ location' = Archived(S)
    /\ terminals' = terminals \ S
    /\ count' = CountArchived(S)
    /\ UNCHANGED <<record, generation, available, claims, byRequest, order, peerActive, authority>>

-----------------------------------------------------------------------------
(* Integrity *)

HotRecords == {e \in Executions : Hot(e)}
ActiveRecords == {e \in HotRecords : IsActive(e)}
Dispatchable(e) == phase[e] \in {"available", "cancelling"} /\ claim[e] = None /\ ~evidence[e]

(* verify: recompute the counters and indexes from the records.  It counts a record as *)
(* queued when it is dispatchable or claimed, not while its cancellation is claimed.   *)
Verified ==
    /\ \A e \in Executions : location[e] # "none" => byRequest[RequestOf[e]] = e
    /\ \A e \in HotRecords : phase[e] = "cancelling" /\ evidence[e] => claim[e] # None
    /\ available = {e \in HotRecords : Dispatchable(e)}
    /\ claims = {e \in HotRecords : claim[e] # None}
    /\ terminals = {e \in HotRecords : Finished(e)}
    /\ count = [active |-> Cardinality(ActiveRecords),
                queued |-> Cardinality({e \in HotRecords : Dispatchable(e) \/ phase[e] = "claimed"}),
                hot |-> Cardinality({e \in HotRecords : Finished(e)}),
                tombstones |-> Cardinality({e \in Executions : location[e] = "archived"})]
    /\ Cardinality({r \in Requests : byRequest[r] # None})
         = Cardinality({e \in Executions : location[e] # "none"})
    /\ peerActive = [c \in Callers |-> Cardinality({e \in ActiveRecords : Caller(e) = c})]

=============================================================================
