---------------------------- MODULE EffectWorker ----------------------------
(***************************************************************************)
(* The effect-worker host: crates/capability-host/src/worker.rs.           *)
(*                                                                         *)
(* poll() claims durable work and sends it to two bounded channels, one    *)
(* for execution threads and one for the cancellation thread. The channels *)
(* are counted by atomics that poll() and shutdown() read. Each access to  *)
(* an atomic, a channel or a mutex is a step of its own.                   *)
(*                                                                         *)
(* The capability host is its admission flag: `prepare' succeeds only      *)
(* while it is open, and shutdown() of the host refuses while a permit is  *)
(* held (CapabilityRegistry has the detail).                               *)
(***************************************************************************)
EXTENDS Naturals, Sequences, FiniteSets, FiniteSetsExt

CONSTANTS
    Invocations,
    Threads,          \* execution threads
    None,             \* no invocation
    ExecutionQueue,   \* EffectWorkerConfig.execution_queue
    CancellationQueue,
    ClaimPage         \* EffectWorkerConfig.maximum_claim_page

ASSUME ConfigAssumption ==
    /\ None \notin Invocations
    /\ ExecutionQueue \in Nat \ {0}
    /\ CancellationQueue \in Nat \ {0}
    /\ ClaimPage \in Nat \ {0}

VARIABLES
    ready,        \* durable work that tick() or the recovered starts can hand out
    stops,        \* invocations whose stop cancellation_actions() offers
    poll,         \* where poll() is
    hand,         \* what poll() has claimed and not sent
    sending,      \* the action it has counted and not sent
    queue,        \* the execution channel
    queued,       \* queued_executions
    active,       \* active_executions
    thread,       \* where an execution thread is
    item,         \* the action it holds
    controlQueue, \* the cancellation channel
    controlQueued,
    controlActive,
    control,      \* where the cancellation thread is
    controlItem,
    pending,      \* pending_cancellations
    open,         \* WorkerShared.admission
    retain,       \* retain_queued
    senders,      \* the senders that shutdown() has not taken
    mode,         \* the EffectShutdownMode of a shutdown
    shutdown,     \* where shutdown() is
    complete,     \* its lifecycle_complete
    last,         \* the wait loop is over: is_idle() is asked a last time
    late,         \* its deadline has passed
    host,         \* the capability host's admission
    \* history, read by the properties only
    entered,      \* invocations that were given a permit
    refused,      \* invocations the closed host refused
    kept,         \* what was queued when a Retain shutdown began
    full,         \* a try_send found its channel full
    delivered     \* invocations whose cancellation was executed

execution == <<queue, queued, active, thread, item>>
cancels   == <<controlQueue, controlQueued, controlActive, control, controlItem, pending,
               delivered>>
polling   == <<ready, stops, poll, hand, sending>>
closing   == <<open, retain, senders, mode, shutdown, complete, last, late, host>>
seen      == <<entered, refused, kept>>
vars == <<polling, execution, cancels, closing, seen, full>>

Modes == {"Drain", "Cancel", "Retain"}

Polls == {"none", "claimed", "count", "send", "cancel", "claimedCancel", "countCancel",
          "sendCancel"}

ThreadPlaces == {"recv", "got", "uncounted", "checked", "active", "running", "left", "exited"}

ControlPlaces == {"recv", "got", "uncounted", "checked", "active", "left", "removing", "exited"}

Returned == {"clean", "unclean", "error"}

Shutdowns == {"none", "mode", "force", "forced", "takeExecution", "takeCancellation", "queued",
              "active", "controlQueued", "controlActive", "drain", "drained", "join"}
             \cup Returned

Init ==
    /\ ready \in SUBSET Invocations
    /\ stops = Invocations \ ready
    /\ poll = "none" /\ hand = {} /\ sending = None
    /\ queue = <<>> /\ queued = 0 /\ active = 0
    /\ thread = [w \in Threads |-> "recv"]
    /\ item = [w \in Threads |-> None]
    /\ controlQueue = <<>> /\ controlQueued = 0 /\ controlActive = 0
    /\ control = "recv" /\ controlItem = None
    /\ pending = {}
    /\ open = TRUE /\ retain = FALSE
    /\ senders = {"execution", "cancellation"}
    /\ mode \in Modes
    /\ shutdown = "none" /\ complete = FALSE /\ last = FALSE /\ late = FALSE
    /\ host = "open"
    /\ entered = {} /\ refused = {} /\ kept = {} /\ delivered = {}
    /\ full = FALSE

-----------------------------------------------------------------------------
(* poll(), which holds poll_gate from PollBegin until poll = "none" *)

PollRest == UNCHANGED <<closing, seen>>

ClaimPages(counter, capacity) == Min({capacity, ClaimPage})

(* How much is claimed: what fits the channel by its counter, up to a page. *)
Claim(counter, capacity) ==
    Min({IF counter < capacity THEN capacity - counter ELSE 0, ClaimPage})

(* claim_execution_effects: recovered starts, then those tick() commits. *)
PollBegin(s) ==
    /\ poll = "none"
    /\ open
    /\ Cardinality(s) <= Claim(queued, ExecutionQueue)
    /\ ready' = ready \ s
    /\ hand' = s
    /\ poll' = IF Claim(queued, ExecutionQueue) = 0 THEN "cancel" ELSE "claimed"
    /\ PollRest
    /\ UNCHANGED <<stops, sending, execution, cancels, full>>

(* A claim fails; starts that tick() had committed are left for recovery. *)
PollFault(s) ==
    /\ poll \in {"none", "cancel"}
    /\ poll = "none" => open
    /\ ready' = IF poll = "none" THEN ready \ s ELSE ready
    /\ poll' = "none"
    /\ PollRest
    /\ UNCHANGED <<stops, hand, sending, execution, cancels, full>>

PollUncounted(i) ==
    /\ poll = "count"
    /\ hand' = hand \ {i}
    /\ sending' = i
    /\ poll' = "send"
    /\ PollRest
    /\ UNCHANGED <<ready, stops, execution, cancels, full>>

(* The sender stays locked until the claimed actions are sent. When shutdown() has *)
(* taken it, poll() returns and what it claimed is left for recovery.              *)
PollLock ==
    /\ poll = "claimed"
    /\ IF "execution" \in senders
       THEN poll' = "count" /\ UNCHANGED hand
       ELSE poll' = "none" /\ hand' = {}
    /\ PollRest
    /\ UNCHANGED <<ready, stops, sending, execution, cancels, full>>

PollCount(i) ==
    /\ poll = "count"
    /\ hand' = hand \ {i}
    /\ sending' = i
    /\ queued' = queued + 1
    /\ poll' = "send"
    /\ PollRest
    /\ UNCHANGED <<ready, stops, queue, active, thread, item, cancels, full>>

PollSend ==
    /\ poll = "send"
    /\ sending' = None
    /\ IF Len(queue) < ExecutionQueue
       THEN /\ queue' = Append(queue, sending)
            /\ poll' = "count"
            /\ UNCHANGED <<queued, hand, full>>
       ELSE /\ queued' = queued - 1
            /\ full' = TRUE
            /\ poll' = "none"
            /\ hand' = {}
            /\ UNCHANGED queue
    /\ PollRest
    /\ UNCHANGED <<ready, stops, active, thread, item, cancels>>

PollSent ==
    /\ poll = "count"
    /\ hand = {}
    /\ poll' = "cancel"
    /\ PollRest
    /\ UNCHANGED <<ready, stops, hand, sending, execution, cancels, full>>


(* claim_cancellation_effects: a stop is offered again and again until it settles. *)
PollCancel(s) ==
    /\ poll = "cancel"
    /\ Cardinality(s) <= Claim(controlQueued, CancellationQueue)
    /\ hand' = s
    /\ poll' = IF Claim(controlQueued, CancellationQueue) = 0 THEN "none"
               ELSE "claimedCancel"
    /\ PollRest
    /\ UNCHANGED <<ready, stops, sending, execution, cancels, full>>

PollLockCancel ==
    /\ poll = "claimedCancel"
    /\ IF "cancellation" \in senders
       THEN poll' = "countCancel" /\ UNCHANGED hand
       ELSE poll' = "none" /\ hand' = {}
    /\ PollRest
    /\ UNCHANGED <<ready, stops, sending, execution, cancels, full>>

(* A redelivery of a cancellation that is queued or active is suppressed. *)
PollCountCancel(i) ==
    /\ poll = "countCancel"
    /\ hand' = hand \ {i}
    /\ IF i \in pending
       THEN UNCHANGED <<poll, sending, pending, controlQueued>>
       ELSE /\ pending' = pending \cup {i}
            /\ controlQueued' = controlQueued + 1
            /\ sending' = i
            /\ poll' = "sendCancel"
    /\ PollRest
    /\ UNCHANGED <<ready, stops, execution, controlQueue, controlActive, control,
                   controlItem, delivered, full>>

PollSendCancel ==
    /\ poll = "sendCancel"
    /\ sending' = None
    /\ IF Len(controlQueue) < CancellationQueue
       THEN /\ controlQueue' = Append(controlQueue, sending)
            /\ poll' = "countCancel"
            /\ UNCHANGED <<controlQueued, pending, hand, full>>
       ELSE /\ controlQueued' = controlQueued - 1
            /\ pending' = pending \ {sending}
            /\ full' = TRUE
            /\ poll' = "none"
            /\ hand' = {}
            /\ UNCHANGED controlQueue
    /\ PollRest
    /\ UNCHANGED <<ready, stops, execution, controlActive, control, controlItem, delivered>>

PollEnd ==
    /\ poll = "countCancel"
    /\ hand = {}
    /\ poll' = "none"
    /\ PollRest
    /\ UNCHANGED <<ready, stops, hand, sending, execution, cancels, full>>

-----------------------------------------------------------------------------
(* execution_worker *)

At(w, from, to) == thread[w] = from /\ thread' = [thread EXCEPT ![w] = to]

ThreadRest == UNCHANGED <<polling, cancels, closing, kept, full>>

(* A disconnected channel still delivers what it holds. *)
ThreadReceive(w) ==
    /\ queue # <<>>
    /\ At(w, "recv", "got")
    /\ item' = [item EXCEPT ![w] = Head(queue)]
    /\ queue' = Tail(queue)
    /\ ThreadRest
    /\ UNCHANGED <<queued, active, entered, refused>>

ThreadExit(w) ==
    /\ queue = <<>>
    /\ "execution" \notin senders
    /\ At(w, "recv", "exited")
    /\ ThreadRest
    /\ UNCHANGED <<queue, queued, active, item, entered, refused>>

ThreadUncount(w) ==
    /\ At(w, "got", "uncounted")
    /\ queued' = queued - 1
    /\ ThreadRest
    /\ UNCHANGED <<queue, active, item, entered, refused>>

ThreadEntersQueued(w) ==
    /\ At(w, "uncounted", "checked")
    /\ ThreadRest
    /\ UNCHANGED <<queue, queued, active, item, entered, refused>>

ThreadCheck(w) ==
    /\ IF retain
       THEN At(w, "uncounted", "recv") /\ item' = [item EXCEPT ![w] = None]
       ELSE At(w, "uncounted", "checked") /\ UNCHANGED item
    /\ ThreadRest
    /\ UNCHANGED <<queue, queued, active, entered, refused>>

ThreadActivate(w) ==
    /\ At(w, "checked", "active")
    /\ active' = active + 1
    /\ ThreadRest
    /\ UNCHANGED <<queue, queued, item, entered, refused>>

(* execute_effect: the host gives a permit, or refuses because it is closed. *)
ThreadEnter(w) ==
    /\ IF host # "closed"
       THEN /\ At(w, "active", "running")
            /\ entered' = entered \cup {item[w]}
            /\ UNCHANGED refused
       ELSE /\ At(w, "active", "left")
            /\ refused' = refused \cup {item[w]}
            /\ UNCHANGED entered
    /\ ThreadRest
    /\ UNCHANGED <<queue, queued, active, item>>

(* The execution returns, fails or panics; execute_contained ends either way. *)
ThreadReturn(w) ==
    /\ At(w, "running", "left")
    /\ ThreadRest
    /\ UNCHANGED <<queue, queued, active, item, entered, refused>>

ThreadLeave(w) ==
    /\ At(w, "left", "recv")
    /\ active' = active - 1
    /\ item' = [item EXCEPT ![w] = None]
    /\ ThreadRest
    /\ UNCHANGED <<queue, queued, entered, refused>>

-----------------------------------------------------------------------------
(* cancellation_worker *)

ControlAt(from, to) == control = from /\ control' = to

ControlRest == UNCHANGED <<polling, execution, closing, seen, full>>

(* poll() holds the pending set's lock while it sends cancellations. *)
PendingFree == poll \notin {"countCancel", "sendCancel"}

ControlReceive ==
    /\ controlQueue # <<>>
    /\ ControlAt("recv", "got")
    /\ controlItem' = Head(controlQueue)
    /\ controlQueue' = Tail(controlQueue)
    /\ ControlRest
    /\ UNCHANGED <<controlQueued, controlActive, pending, delivered>>

ControlExit ==
    /\ controlQueue = <<>>
    /\ "cancellation" \notin senders
    /\ ControlAt("recv", "exited")
    /\ ControlRest
    /\ UNCHANGED <<controlQueue, controlQueued, controlActive, controlItem, pending, delivered>>

ControlUncount ==
    /\ ControlAt("got", "uncounted")
    /\ controlQueued' = controlQueued - 1
    /\ ControlRest
    /\ UNCHANGED <<controlQueue, controlActive, controlItem, pending, delivered>>

ControlCheck ==
    /\ ControlAt("uncounted", IF retain THEN "removing" ELSE "checked")
    /\ ControlRest
    /\ UNCHANGED <<controlQueue, controlQueued, controlActive, controlItem, pending, delivered>>

ControlActivate ==
    /\ ControlAt("checked", "active")
    /\ controlActive' = controlActive + 1
    /\ ControlRest
    /\ UNCHANGED <<controlQueue, controlQueued, controlItem, pending, delivered>>

(* execute_cancellation, contained like an execution. *)
ControlExecute ==
    /\ ControlAt("active", "left")
    /\ delivered' = delivered \cup {controlItem}
    /\ ControlRest
    /\ UNCHANGED <<controlQueue, controlQueued, controlActive, controlItem, pending>>

ControlLeave ==
    /\ ControlAt("left", "removing")
    /\ controlActive' = controlActive - 1
    /\ ControlRest
    /\ UNCHANGED <<controlQueue, controlQueued, controlItem, pending, delivered>>

ControlForget ==
    /\ ControlAt("removing", "recv")
    /\ controlItem' = None
    /\ ControlRest
    /\ UNCHANGED <<controlQueue, controlQueued, controlActive, pending, delivered>>

(* remove_pending_cancellation *)
ControlRemove ==
    /\ PendingFree
    /\ ControlAt("removing", "recv")
    /\ pending' = pending \ {controlItem}
    /\ controlItem' = None
    /\ ControlRest
    /\ UNCHANGED <<controlQueue, controlQueued, controlActive, delivered>>

-----------------------------------------------------------------------------
(* shutdown(mode, deadline) *)

ShutdownAt(from, to) == shutdown = from /\ shutdown' = to

ShutdownRest == UNCHANGED <<polling, execution, cancels, entered, refused, full, mode>>

ShutdownBegin ==
    /\ ShutdownAt("none", "mode")
    /\ open' = FALSE
    /\ complete' = (mode # "Cancel")
    /\ ShutdownRest
    /\ UNCHANGED <<retain, senders, last, late, host, kept>>

ShutdownMode ==
    /\ ShutdownAt("mode", IF mode = "Cancel" THEN "force" ELSE "takeExecution")
    /\ retain' = (mode = "Retain")
    /\ kept' = IF mode = "Retain" THEN {queue[n] : n \in DOMAIN queue} ELSE {}
    /\ ShutdownRest
    /\ UNCHANGED <<open, senders, complete, last, late, host>>

(* capability_shutdown_before: a thread of its own closes the host, unless the     *)
(* deadline has passed already.                                                    *)
ShutdownForce ==
    /\ ShutdownAt("force", IF late THEN "takeExecution" ELSE "forced")
    /\ host' = IF late THEN host ELSE "closing"
    /\ ShutdownRest
    /\ UNCHANGED <<open, retain, senders, complete, last, late, kept>>

(* begin_shutdown() of the host *)
CloseHost ==
    /\ host = "closing"
    /\ host' = "closed"
    /\ ShutdownRest
    /\ UNCHANGED <<open, retain, senders, shutdown, complete, last, late, kept>>

(* It completes, fails, or outlasts the deadline. *)
ShutdownForced ==
    /\ \/ host = "closed" /\ ShutdownAt("forced", "takeExecution") /\ complete' = TRUE
       \/ late /\ ShutdownAt("forced", "takeExecution") /\ UNCHANGED complete
       \/ ShutdownAt("forced", "error") /\ UNCHANGED complete
    /\ ShutdownRest
    /\ UNCHANGED <<open, retain, senders, last, late, host, kept>>

ShutdownTakeExecution ==
    /\ poll \notin {"count", "send"}
    /\ ShutdownAt("takeExecution", "takeCancellation")
    /\ senders' = senders \ {"execution"}
    /\ ShutdownRest
    /\ UNCHANGED <<open, retain, complete, last, late, host, kept>>

ShutdownTakeCancellation ==
    /\ poll \notin {"countCancel", "sendCancel"}
    /\ ShutdownAt("takeCancellation", "queued")
    /\ senders' = senders \ {"cancellation"}
    /\ ShutdownRest
    /\ UNCHANGED <<open, retain, complete, last, late, host, kept>>

(* is_idle() reads the four counters in order. The loop probes until they are all  *)
(* zero or the deadline has passed; then they are probed a last time.              *)
ShutdownProbe(from, counter, to) ==
    /\ shutdown = from
    /\ IF counter # 0
       THEN /\ shutdown' = IF last THEN "unclean" ELSE "queued"
            /\ last' = (late /\ ~last)
       ELSE IF from = "controlActive" /\ ~last
       THEN shutdown' = "queued" /\ last' = TRUE
       ELSE shutdown' = to /\ UNCHANGED last
    /\ ShutdownRest
    /\ UNCHANGED <<open, retain, senders, complete, late, host, kept>>

ShutdownWait ==
    \/ ShutdownProbe("queued", queued, "active")
    \/ ShutdownProbe("active", active, "controlQueued")
    \/ ShutdownProbe("controlQueued", controlQueued, "controlActive")
    \/ ShutdownProbe("controlActive", controlActive,
                     IF mode = "Cancel" THEN "join" ELSE "drain")

(* The idle host is shut down in the same way ... *)
ShutdownDrain ==
    /\ ShutdownAt("drain", IF late THEN "join" ELSE "drained")
    /\ host' = IF late THEN host ELSE "closing"
    /\ complete' = FALSE
    /\ ShutdownRest
    /\ UNCHANGED <<open, retain, senders, last, late, kept>>

Permits == {w \in Threads : thread[w] = "running"}

(* ... and refuses when, once it is closed, a permit is held. *)
ShutdownDrained ==
    /\ \/ /\ host = "closed" /\ Permits = {}
          /\ ShutdownAt("drained", "join")
          /\ complete' = TRUE
       \/ late /\ ShutdownAt("drained", "join") /\ UNCHANGED complete
       \/ ShutdownAt("drained", "error") /\ UNCHANGED complete
    /\ ShutdownRest
    /\ UNCHANGED <<open, retain, senders, last, late, host, kept>>

JoinNothing ==
    /\ ShutdownAt("join", IF complete THEN "clean" ELSE "unclean")
    /\ ShutdownRest
    /\ UNCHANGED <<open, retain, senders, complete, last, late, host, kept>>

(* join() has no deadline. *)
ShutdownJoin ==
    /\ control = "exited" /\ \A w \in Threads : thread[w] = "exited"
    /\ ShutdownAt("join", IF complete THEN "clean" ELSE "unclean")
    /\ ShutdownRest
    /\ UNCHANGED <<open, retain, senders, complete, last, late, host, kept>>

Deadline ==
    /\ ~late
    /\ shutdown \notin {"none"} \cup Returned
    /\ late' = TRUE
    /\ UNCHANGED <<polling, execution, cancels, seen, full>>
    /\ UNCHANGED <<open, retain, senders, mode, shutdown, complete, last, host>>

-----------------------------------------------------------------------------
Poll ==
    \/ \E s \in SUBSET ready : PollBegin(s)
    \/ PollLock
    \/ \E i \in hand : PollCount(i)
    \/ PollSend
    \/ PollSent
    \/ \E s \in SUBSET stops : PollCancel(s)
    \/ PollLockCancel
    \/ \E i \in hand : PollCountCancel(i)
    \/ PollSendCancel
    \/ PollEnd

(* The steps of an execution thread that do not wait for an adapter. *)
Thread(w) ==
    \/ ThreadReceive(w)
    \/ ThreadExit(w)
    \/ ThreadUncount(w)
    \/ ThreadCheck(w)
    \/ ThreadActivate(w)
    \/ ThreadEnter(w)
    \/ ThreadLeave(w)

Control ==
    \/ ControlReceive
    \/ ControlExit
    \/ ControlUncount
    \/ ControlCheck
    \/ ControlActivate
    \/ ControlExecute
    \/ ControlLeave
    \/ ControlRemove

Shutdown ==
    \/ ShutdownMode
    \/ ShutdownForce
    \/ ShutdownForced
    \/ ShutdownTakeExecution
    \/ ShutdownTakeCancellation
    \/ ShutdownWait
    \/ ShutdownDrain
    \/ ShutdownDrained
    \/ ShutdownJoin

Next ==
    \/ Poll
    \/ \E s \in SUBSET ready : PollFault(s)
    \/ \E w \in Threads : Thread(w) \/ ThreadReturn(w)
    \/ Control
    \/ ShutdownBegin
    \/ Shutdown
    \/ CloseHost
    \/ Deadline

Spec == Init /\ [][Next]_vars

(* The owner polls on, threads run, and a deadline passes. A claim does not fail    *)
(* for ever, and every stop gets into a page again and again. Adapters need not      *)
(* return.                                                                         *)
Fairness ==
    /\ WF_vars(Poll)
    /\ \A i \in Invocations : SF_vars(PollCancel(stops \cap {i}))
    /\ \A w \in Threads : WF_vars(Thread(w))
    /\ WF_vars(Control)
    /\ WF_vars(Shutdown)
    /\ WF_vars(CloseHost)
    /\ WF_vars(Deadline)

FairSpec == Spec /\ Fairness

-----------------------------------------------------------------------------
(* Properties *)

(* Every variable keeps its type; in particular no counter falls below zero, where *)
(* fetch_sub would wrap.                                                           *)
TypeOK ==
    /\ ready \in SUBSET Invocations /\ stops \in SUBSET Invocations
    /\ poll \in Polls
    /\ hand \in SUBSET Invocations
    /\ sending \in Invocations \cup {None}
    /\ queue \in Seq(Invocations) /\ controlQueue \in Seq(Invocations)
    /\ queued \in Nat /\ active \in Nat
    /\ controlQueued \in Nat /\ controlActive \in Nat
    /\ thread \in [Threads -> ThreadPlaces]
    /\ item \in [Threads -> Invocations \cup {None}]
    /\ control \in ControlPlaces
    /\ controlItem \in Invocations \cup {None}
    /\ pending \in SUBSET Invocations
    /\ open \in BOOLEAN /\ retain \in BOOLEAN
    /\ senders \in SUBSET {"execution", "cancellation"}
    /\ mode \in Modes
    /\ shutdown \in Shutdowns
    /\ complete \in BOOLEAN /\ last \in BOOLEAN /\ late \in BOOLEAN
    /\ host \in {"open", "closing", "closed"}
    /\ entered \in SUBSET Invocations /\ refused \in SUBSET Invocations
    /\ kept \in SUBSET Invocations /\ delivered \in SUBSET Invocations
    /\ full \in BOOLEAN

(* "execution queue contradicted its bounded capacity accounting" is unreachable:  *)
(* whatever the threads take while poll() claims and sends, try_send finds space.  *)
NeverFull == ~full

(* A clean shutdown means that every thread ended, that nothing waits in a channel *)
(* and that the capability host is closed.                                         *)
CleanIsQuiet ==
    shutdown = "clean" =>
        /\ control = "exited" /\ \A w \in Threads : thread[w] = "exited"
        /\ queue = <<>> /\ controlQueue = <<>>
        /\ queued = 0 /\ active = 0 /\ pending = {}
        /\ host = "closed"

(* Retain: "Do not enter queued effects". What waited in the channel when the      *)
(* shutdown began is never entered, and not even refused by the closed host.       *)
RetainKeepsQueued == kept \cap (entered \cup refused) = {}

(* A cancellation that suppresses redelivery is queued, active or being sent: it   *)
(* cannot be suppressed for ever by an entry that nobody removes.                  *)
PendingBacked ==
    \A i \in pending :
        \/ \E n \in DOMAIN controlQueue : controlQueue[n] = i
        \/ controlItem = i
        \/ poll = "sendCancel" /\ sending = i


(* Drain: "Let queued and running work finish until the deadline." No execution is *)
(* refused by the closed host before the deadline.                                 *)
DrainFinishesWork == mode = "Drain" /\ ~late => refused = {}

=============================================================================
