--------------------------- MODULE MCEffectWorker ---------------------------
(***************************************************************************)
(* Instances of EffectWorker for model checking.                           *)
(***************************************************************************)
EXTENDS EffectWorker, TLC

CONSTANTS i1, i2, i3, w1, w2

Symmetric == Permutations(Invocations) \cup Permutations(Threads)

(* All work is to be executed: for what the documentation says of shutdown(). *)
DrainInit == Init /\ stops = {} /\ mode = "Drain"

DrainSpec == DrainInit /\ [][Next]_vars

(* Stops while the owner polls and adapters need not return. *)
ServingNext ==
    \/ Poll
    \/ \E s \in SUBSET ready : PollFault(s)
    \/ \E w \in Threads : Thread(w) \/ ThreadReturn(w)
    \/ Control
    \/ ShutdownBegin

ServingInit == Init /\ mode = "Drain"

ServingSpec == ServingInit /\ [][ServingNext]_vars /\ Fairness

=============================================================================
