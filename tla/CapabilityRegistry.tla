------------------------- MODULE CapabilityRegistry -------------------------
(***************************************************************************)
(* The capability host's registry of adapter generations:                  *)
(* crates/capability-host/src/registry.rs and registry/.                   *)
(*                                                                         *)
(* A generation is a descriptor revision of a capability with the adapter  *)
(* that serves it. The registry's mutex makes every passage under the lock *)
(* one action; the calls of adapter hooks happen between such passages, so *)
(* registration, removal, shutdown and execution interleave around them.   *)
(*                                                                         *)
(* Nothing in the source raises `pending' or sets `transferred', so the    *)
(* two are left out. An adapter is named after the registration call that  *)
(* brought it. An invocation has one caller at a time, as the runtime's    *)
(* execution claim guarantees (TaskRuntime!OneOwner).                      *)
(***************************************************************************)
EXTENDS Naturals, FiniteSets, FiniteSetsExt

CONSTANTS
    Capabilities,
    Revisions,        \* descriptor revisions, a set of numbers
    Descriptors,      \* the other facts of a descriptor
    Registrars,       \* calls of register(), and the adapters they bring
    Offers,           \* the descriptors a call may register its adapter with
    Closers,          \* calls of shutdown() and force_shutdown()
    Invocations,
    None,
    MaxRegistrations, \* HostConfig.max_registrations
    MaxGenerations,   \* HostConfig.max_generations_per_capability
    PermitLimit       \* Generation.permit_limit

ASSUME ConfigAssumption ==
    /\ Revisions \subseteq Nat
    /\ None \notin Capabilities \cup Registrars
    /\ MaxRegistrations \in Nat \ {0}
    /\ MaxGenerations \in Nat \ {0}
    /\ PermitLimit \in Nat \ {0}

Keys == [capability : Capabilities, revision : Revisions]
NoKey == [capability |-> None, revision |-> 0]
Facts == [key : Keys, descriptor : Descriptors]
NoFacts == [key |-> NoKey, descriptor |-> None]

ASSUME OffersAssumption == Offers \in [Registrars -> SUBSET Facts]

VARIABLES
    open,       \* admission_open and not shutdown
    starting,   \* RegistryState.starting
    adapter,    \* the adapter of a registered generation, or None
    draining,   \* registered generations that drain
    healthy,    \* registered generations whose observation is available and fresh
    active,     \* permits counted for a generation
    current,    \* the revision new resolutions use, or None
    inFlight,   \* RegistryState.in_flight, NoKey where there is no entry
    register,   \* where a registration is
    facts,      \* the descriptor it registers
    life,       \* what happened to its adapter
    stopping,   \* adapters whose shutdown a removal is calling
    closer,     \* where a shutdown is
    force,      \* whether it is forced
    todo,       \* the adapters it still has to shut down
    selected,   \* the snapshot an invocation resolved
    permit,     \* the adapter an invocation's Permit came with, or None
    \* history, read by the properties only
    forced      \* adapters removed without waiting for permits

registry == <<open, starting, adapter, draining, healthy, active, current, inFlight>>
calls    == <<register, facts, life, stopping, closer, force, todo>>
work     == <<selected, permit>>
vars == <<registry, calls, work, forced>>

Places == {"idle", "reserved", "started", "cleanup", "leaving", "done"}
Lives == {"new", "live", "stopped", "failed"}
Closing == {"idle", "begun", "stopping", "failing", "ok", "error"}

Init ==
    /\ open = TRUE
    /\ starting = {} /\ draining = {} /\ healthy = {} /\ stopping = {} /\ forced = {}
    /\ adapter = [k \in Keys |-> None]
    /\ active = [k \in Keys |-> 0]
    /\ current = [c \in Capabilities |-> None]
    /\ inFlight = [i \in Invocations |-> NoKey]
    /\ register = [r \in Registrars |-> "idle"]
    /\ facts = [r \in Registrars |-> NoFacts]
    /\ life = [r \in Registrars |-> "new"]
    /\ closer = [c \in Closers |-> "idle"]
    /\ force \in [Closers -> BOOLEAN]
    /\ todo = [c \in Closers |-> {}]
    /\ selected = [i \in Invocations |-> NoFacts]
    /\ permit = [i \in Invocations |-> None]

-----------------------------------------------------------------------------
Registered == {k \in Keys : adapter[k] # None}

OfCapability(S, c) == {k \in S : k.capability = c}

(* update_current, given the generations that are registered and do not drain *)
UpdateCurrent(c, serving) ==
    LET revisions == {k.revision : k \in OfCapability(serving, c)}
    IN  current' = [current EXCEPT ![c] = IF revisions = {} THEN None ELSE Max(revisions)]

(* The generations in S leave the registry; each keeps no entry of its own. *)
Remove(S) ==
    /\ adapter' = [k \in Keys |-> IF k \in S THEN None ELSE adapter[k]]
    /\ active' = [k \in Keys |-> IF k \in S THEN 0 ELSE active[k]]
    /\ draining' = draining \ S
    /\ healthy' = healthy \ S

-----------------------------------------------------------------------------
(* register_with_commit *)

CapacityIgnoringStarts(k) ==
    /\ Cardinality(Registered) < MaxRegistrations
    /\ Cardinality(OfCapability(Registered, k.capability)) < MaxGenerations

(* validate_registration_capacity; starting and registered keys are disjoint *)
Capacity(k) ==
    /\ Cardinality(Registered) + Cardinality(starting) < MaxRegistrations
    /\ Cardinality(OfCapability(Registered \cup starting, k.capability)) < MaxGenerations

(* An identical registration and a conflicting one change nothing. *)
Reserve(r, f) ==
    /\ register[r] = "idle"
    /\ open
    /\ f.key \notin Registered \cup starting
    /\ Capacity(f.key)
    /\ starting' = starting \cup {f.key}
    /\ register' = [register EXCEPT ![r] = "reserved"]
    /\ facts' = [facts EXCEPT ![r] = f]
    /\ UNCHANGED <<open, adapter, draining, healthy, active, current, inFlight, life, stopping,
                   closer, force, todo, work, forced>>

(* The adapter's facts are refused, it starts, or start() fails halfway. *)
Start(r) ==
    /\ register[r] = "reserved"
    /\ \E to \in {"leaving", "started", "cleanup"} :
        /\ register' = [register EXCEPT ![r] = to]
        /\ life' = [life EXCEPT ![r] = IF to = "leaving" THEN "new" ELSE "live"]
    /\ UNCHANGED <<registry, facts, stopping, closer, force, todo, work, forced>>

Publish(r) ==
    LET k == facts[r].key IN
    /\ register[r] = "started"
    /\ open
    /\ starting' = starting \ {k}
    /\ adapter' = [adapter EXCEPT ![k] = r]
    /\ active' = [active EXCEPT ![k] = 0]
    /\ draining' = draining \ {k}
    /\ healthy' \in {healthy \ {k}, healthy \cup {k}}
    /\ UpdateCurrent(k.capability, (Registered \cup {k}) \ draining)
    /\ register' = [register EXCEPT ![r] = "done"]
    /\ UNCHANGED <<open, inFlight, facts, life, stopping, closer, force, todo, work, forced>>

ReleaseThenCleanup(r) ==
    /\ register[r] = "started"
    /\ starting' = starting \ {facts[r].key}
    /\ register' = [register EXCEPT ![r] = "cleanup"]
    /\ UNCHANGED <<open, adapter, draining, healthy, active, current, inFlight, facts, life,
                   stopping, closer, force, todo, work, forced>>

(* Admission closed meanwhile, or the commit callback failed. *)
Abandon(r) ==
    /\ register[r] = "started"
    /\ register' = [register EXCEPT ![r] = "cleanup"]
    /\ UNCHANGED <<registry, facts, life, stopping, closer, force, todo, work, forced>>

(* shutdown_failed_registration *)
Cleanup(r) ==
    /\ register[r] = "cleanup"
    /\ register' = [register EXCEPT ![r] = "leaving"]
    /\ \E l \in {"stopped", "failed"} : life' = [life EXCEPT ![r] = l]
    /\ UNCHANGED <<registry, facts, stopping, closer, force, todo, work, forced>>

(* RegistrationReservation is dropped when the call returns. *)
Leave(r) ==
    /\ register[r] = "leaving"
    /\ starting' = starting \ {facts[r].key}
    /\ register' = [register EXCEPT ![r] = "done"]
    /\ UNCHANGED <<open, adapter, draining, healthy, active, current, inFlight, facts, life,
                   stopping, closer, force, todo, work, forced>>

(* refresh_health, update_observation, and an observation growing stale *)
Observe(k) ==
    /\ k \in Registered
    /\ healthy' = IF k \in healthy THEN healthy \ {k} ELSE healthy \cup {k}
    /\ UNCHANGED <<open, starting, adapter, draining, active, current, inFlight, calls, work,
                   forced>>

-----------------------------------------------------------------------------
(* Removal of one generation *)

DrainKeepingCurrent(k) ==
    /\ k \in Registered
    /\ draining' = draining \cup {k}
    /\ UNCHANGED <<open, starting, adapter, healthy, active, current, inFlight, calls, work,
                   forced>>

BeginDrain(k) ==
    /\ k \in Registered
    /\ draining' = draining \cup {k}
    /\ UpdateCurrent(k.capability, Registered \ (draining \cup {k}))
    /\ UNCHANGED <<open, starting, adapter, healthy, active, inFlight, calls, work, forced>>

FinishDrain(k) ==
    /\ k \in Registered
    /\ k \in draining
    /\ active[k] = 0
    /\ Remove({k})
    /\ UpdateCurrent(k.capability, Registered \ (draining \cup {k}))
    /\ stopping' = stopping \cup {adapter[k]}
    /\ UNCHANGED <<open, starting, inFlight, register, facts, life, closer, force, todo, work,
                   forced>>

RemoveKeepingOwners(k) ==
    /\ k \in Registered
    /\ Remove({k})
    /\ UpdateCurrent(k.capability, Registered \ (draining \cup {k}))
    /\ stopping' = stopping \cup {adapter[k]}
    /\ forced' = forced \cup {adapter[k]}
    /\ UNCHANGED <<open, starting, inFlight, register, facts, life, closer, force, todo, work>>

ForceRemove(k) ==
    /\ k \in Registered
    /\ Remove({k})
    /\ inFlight' = [i \in Invocations |-> IF inFlight[i] = k THEN NoKey ELSE inFlight[i]]
    /\ UpdateCurrent(k.capability, Registered \ (draining \cup {k}))
    /\ stopping' = stopping \cup {adapter[k]}
    /\ forced' = forced \cup {adapter[k]}
    /\ UNCHANGED <<open, starting, register, facts, life, closer, force, todo, work>>

(* The removed adapter's shutdown hook returns, or fails. *)
StopRemoved(r) ==
    /\ r \in stopping
    /\ stopping' = stopping \ {r}
    /\ \E l \in {"stopped", "failed"} : life' = [life EXCEPT ![r] = l]
    /\ UNCHANGED <<registry, register, facts, closer, force, todo, work, forced>>

-----------------------------------------------------------------------------
(* shutdown() and force_shutdown() *)

(* begin_shutdown: the first call closes admission and runs the drain hooks, which *)
(* may fail; a later call goes on at once.                                         *)
BeginShutdown(c) ==
    /\ closer[c] = "idle"
    /\ IF open
       THEN /\ open' = FALSE
            /\ current' = [x \in Capabilities |-> None]
            /\ draining' = Registered
            /\ \E to \in {"begun", "error"} : closer' = [closer EXCEPT ![c] = to]
       ELSE /\ closer' = [closer EXCEPT ![c] = "begun"]
            /\ UNCHANGED <<open, current, draining>>
    /\ UNCHANGED <<starting, adapter, healthy, active, inFlight, register, facts, life, stopping,
                   force, todo, work, forced>>

TakeAll(c) ==
    /\ todo' = [todo EXCEPT ![c] = {adapter[k] : k \in Registered}]
    /\ closer' = [closer EXCEPT ![c] = "stopping"]
    /\ Remove(Registered)
    /\ inFlight' = [i \in Invocations |-> NoKey]
    /\ forced' = IF force[c] THEN forced \cup {adapter[k] : k \in Registered} ELSE forced
    /\ UNCHANGED <<open, starting, current, register, facts, life, stopping, force, work>>

Refuse(c) ==
    /\ closer' = [closer EXCEPT ![c] = "error"]
    /\ UNCHANGED <<registry, register, facts, life, stopping, force, todo, work, forced>>

PermitHeld == \E k \in Registered : active[k] # 0

(* Refused while a registration is starting or, unless forced, a permit is held. *)
Take(c) ==
    /\ closer[c] = "begun"
    /\ IF starting # {} \/ (~force[c] /\ PermitHeld) THEN Refuse(c) ELSE TakeAll(c)

(* call_every_adapter goes on past a failing hook and reports the first failure. *)
StopTaken(c, r) ==
    /\ closer[c] \in {"stopping", "failing"}
    /\ r \in todo[c]
    /\ todo' = [todo EXCEPT ![c] = @ \ {r}]
    /\ \E l \in {"stopped", "failed"} :
        /\ life' = [life EXCEPT ![r] = l]
        /\ closer' = [closer EXCEPT ![c] = IF l = "failed" THEN "failing" ELSE @]
    /\ UNCHANGED <<registry, register, facts, stopping, force, work, forced>>

FinishShutdown(c) ==
    /\ closer[c] \in {"stopping", "failing"}
    /\ todo[c] = {}
    /\ closer' = [closer EXCEPT ![c] = IF @ = "failing" THEN "error" ELSE "ok"]
    /\ UNCHANGED <<registry, register, facts, life, stopping, force, todo, work, forced>>

-----------------------------------------------------------------------------
(* Execution *)

(* resolve_authorized_at: a current, healthy generation with a free permit that    *)
(* the requirement matches and authority allows. The snapshot holds no permit.     *)
Resolve(i, k) ==
    /\ permit[i] = None
    /\ selected[i] = NoFacts
    /\ open
    /\ k \in Registered
    /\ current[k.capability] = k.revision /\ k \notin draining
    /\ k \in healthy
    /\ active[k] < PermitLimit
    /\ selected' = [selected EXCEPT ![i] = facts[adapter[k]]]
    /\ UNCHANGED <<registry, calls, permit, forced>>

AcquireUnbounded(i) ==
    LET k == selected[i].key IN
    /\ selected[i] # NoFacts /\ permit[i] = None
    /\ open
    /\ inFlight[i] = NoKey
    /\ k \in Registered
    /\ active' = [active EXCEPT ![k] = @ + 1]
    /\ inFlight' = [inFlight EXCEPT ![i] = k]
    /\ permit' = [permit EXCEPT ![i] = adapter[k]]
    /\ UNCHANGED <<open, starting, adapter, draining, healthy, current, calls, selected, forced>>

AcquireByKey(i) ==
    LET k == selected[i].key IN
    /\ selected[i] # NoFacts /\ permit[i] = None
    /\ open
    /\ inFlight[i] = NoKey
    /\ k \in Registered
    /\ active[k] < PermitLimit
    /\ active' = [active EXCEPT ![k] = @ + 1]
    /\ inFlight' = [inFlight EXCEPT ![i] = k]
    /\ permit' = [permit EXCEPT ![i] = adapter[k]]
    /\ UNCHANGED <<open, starting, adapter, draining, healthy, current, calls, selected, forced>>

(* acquire: pinned work uses its exact generation even while that drains. *)
Acquire(i) ==
    LET k == selected[i].key IN
    /\ selected[i] # NoFacts /\ permit[i] = None
    /\ open
    /\ inFlight[i] = NoKey
    /\ k \in Registered
    /\ facts[adapter[k]] = selected[i]
    /\ active[k] < PermitLimit
    /\ active' = [active EXCEPT ![k] = @ + 1]
    /\ inFlight' = [inFlight EXCEPT ![i] = k]
    /\ permit' = [permit EXCEPT ![i] = adapter[k]]
    /\ UNCHANGED <<open, starting, adapter, draining, healthy, current, calls, selected, forced>>

DropUnowned(i) ==
    LET k == selected[i].key IN
    /\ permit[i] # None
    /\ permit' = [permit EXCEPT ![i] = None]
    /\ inFlight' = [inFlight EXCEPT ![i] = NoKey]
    /\ active' = IF k \in Registered /\ active[k] > 0 THEN [active EXCEPT ![k] = @ - 1] ELSE active
    /\ \E s \in {selected[i], NoFacts} : selected' = [selected EXCEPT ![i] = s]
    /\ UNCHANGED <<open, starting, adapter, draining, healthy, current, calls, forced>>

(* Permit::drop, after a refused preparation or when the execution ends: it counts *)
(* only when the permit's key still owns the invocation. The invocation may be     *)
(* dispatched again with its snapshot, or be over.                                 *)
Drop(i) ==
    LET k == selected[i].key IN
    /\ permit[i] # None
    /\ permit' = [permit EXCEPT ![i] = None]
    /\ inFlight' = [inFlight EXCEPT ![i] = NoKey]
    /\ active' = IF inFlight[i] = k /\ k \in Registered
                 THEN [active EXCEPT ![k] = @ - 1] ELSE active
    /\ \E s \in {selected[i], NoFacts} : selected' = [selected EXCEPT ![i] = s]
    /\ UNCHANGED <<open, starting, adapter, draining, healthy, current, calls, forced>>

-----------------------------------------------------------------------------
Registration ==
    \E r \in Registrars :
        \/ \E f \in Offers[r] : Reserve(r, f)
        \/ Start(r)
        \/ Publish(r)
        \/ Abandon(r)
        \/ Cleanup(r)
        \/ Leave(r)

Removal ==
    \/ \E k \in Keys : BeginDrain(k) \/ FinishDrain(k) \/ ForceRemove(k) \/ Observe(k)
    \/ \E r \in Registrars : StopRemoved(r)

Shutdown ==
    \E c \in Closers :
        \/ BeginShutdown(c)
        \/ Take(c)
        \/ \E r \in Registrars : StopTaken(c, r)
        \/ FinishShutdown(c)

Execution ==
    \E i \in Invocations :
        \/ \E k \in Keys : Resolve(i, k)
        \/ Acquire(i)
        \/ Drop(i)

Next == Registration \/ Removal \/ Shutdown \/ Execution

Spec == Init /\ [][Next]_vars

-----------------------------------------------------------------------------
(* Properties *)

(* Every variable keeps its type; in particular the permits of a generation stay    *)
(* within its limit and never fall below zero.                                      *)
TypeOK ==
    /\ open \in BOOLEAN
    /\ starting \in SUBSET Keys
    /\ adapter \in [Keys -> Registrars \cup {None}]
    /\ draining \in SUBSET Keys
    /\ healthy \in SUBSET Keys
    /\ active \in [Keys -> 0 .. PermitLimit]
    /\ current \in [Capabilities -> Revisions \cup {None}]
    /\ inFlight \in [Invocations -> Keys \cup {NoKey}]
    /\ register \in [Registrars -> Places]
    /\ facts \in [Registrars -> Facts \cup {NoFacts}]
    /\ life \in [Registrars -> Lives]
    /\ stopping \in SUBSET Registrars
    /\ closer \in [Closers -> Closing]
    /\ force \in [Closers -> BOOLEAN]
    /\ todo \in [Closers -> SUBSET Registrars]
    /\ selected \in [Invocations -> Facts \cup {NoFacts}]
    /\ permit \in [Invocations -> Registrars \cup {None}]
    /\ forced \in SUBSET Registrars

(* The permit count of a generation is the number of invocations it owns, through  *)
(* forced removals, re-registrations of the same revision and late drops of        *)
(* permits that an earlier registration gave.                                      *)
PermitsCounted ==
    \A k \in Keys :
        active[k] = Cardinality({i \in Invocations : inFlight[i] = k})

(* The generation that owns an invocation still has the adapter the invocation is  *)
(* executing on: a cancellation reaches that adapter or nobody.                    *)
OwnerIsExact ==
    \A i \in Invocations :
        inFlight[i] # NoKey =>
            /\ permit[i] # None
            /\ adapter[inFlight[i]] = permit[i]

(* Graceful removal waits for permits: an adapter that an invocation may be using  *)
(* is live, unless it was removed by force.                                        *)
GracefulStopsIdle ==
    \A i \in Invocations :
        permit[i] # None => life[permit[i]] = "live" \/ permit[i] \in forced

(* The adapter an invocation got has the descriptor the invocation was resolved    *)
(* to, whatever was removed and registered in between.                             *)
ExactGeneration ==
    \A i \in Invocations : permit[i] # None => facts[permit[i]] = selected[i]

(* A shutdown that returned Ok leaves no live adapter behind, even when it raced a *)
(* registration: whatever still runs is being shut down by another call.           *)
ShutdownLeavesNothing ==
    \A c \in Closers :
        closer[c] = "ok" =>
            \A r \in Registrars :
                life[r] = "live" => r \in stopping \cup UNION {todo[d] : d \in Closers}

(* New work goes to the newest generation that does not drain, if there is one:    *)
(* the cached `current' follows every registration, drain and removal.             *)
CurrentIsNewest ==
    \A c \in Capabilities :
        LET serving == {k.revision : k \in OfCapability(Registered \ draining, c)}
        IN  current[c] = IF serving = {} THEN None ELSE Max(serving)

(* Registrations that start at the same time cannot together exceed the bounds.    *)
RegistrationsBounded ==
    /\ Cardinality(Registered) <= MaxRegistrations
    /\ \A c \in Capabilities : Cardinality(OfCapability(Registered, c)) <= MaxGenerations

=============================================================================
