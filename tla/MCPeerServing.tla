---------------------------- MODULE MCPeerServing ----------------------------
(***************************************************************************)
(* An instance of PeerServing with three executions and two workers.        *)
(* Either the first execution meets a cancellation call, or a second one, a *)
(* drain or a revocation comes along, or, while all goes well, a third one  *)
(* that finds the hot records filled: these are the cases whose interplay   *)
(* with the workers, faults and restarts is in question, and not their      *)
(* product.                                                                 *)
(***************************************************************************)
EXTENDS PeerServing, TLC

CONSTANTS e1, e2, e3, r1, r2, r3, c1, w1, w2, k1

ThreeRequests == (e1 :> r1) @@ (e2 :> r2) @@ (e3 :> r3)
OneCaller == [r \in Requests |-> c1]
TwoEach == [c \in Callers |-> 2]

Symmetric == Permutations(Workers)

Uncancelled ==
    /\ \A k \in Cancels : call[k].at = "idle"
    /\ \A e \in Executions : cancellation[e] = "none"

Alone(S) == \A e \in S : byRequest[RequestOf[e]] = None /\ invoking[e] = 0

Undisturbed ==
    /\ Alone({e2, e3})
    /\ service = "ready" => admissionOpen
    /\ service # "draining"
    /\ \A c \in Callers : relationship[c].enabled

Second == Uncancelled /\ Invoke(e2)

Third ==
    /\ Uncancelled /\ faults = 0 /\ starts = 1
    /\ Finished(e1) /\ phase[e2] = "entered"
    /\ Invoke(e3)

Disturbance ==
    /\ Uncancelled /\ Alone({e3})
    /\ CloseAdmission \/ BeginDrain \/ \E c \in Callers : RevokeDurably(c) \/ Revoke(c)

Cancelling(k) ==
    \/ Undisturbed /\ CancelRead(k, e1)
    \/ CancelRequest(k) \/ CancelResolve(k) \/ CancelAck(k) \/ CancelRefused(k) \/ CancelFault(k)

Operation ==
    \/ \E conf \in [Callers -> 1 .. MaxGeneration] :
         Start(conf) \/ \E C \in SUBSET Callers : StartRefused(conf, C)
    \/ \E S \in ClaimPages : RecoverPage(S)
    \/ \E S \in ArchiveBatches : Recovered(S) \/ MaintainRetention(S)
    \/ ShutdownReport \/ ProcessEnds
    \/ \E ok \in BOOLEAN : BeginShutdown(ok)

CasesNext ==
    \/ Invoke(e1) \/ Second \/ Third
    \/ \E e \in Executions : AcceptServing(e)
    \/ \E w \in Workers : Worker(w)
    \/ \E k \in Cancels : Cancelling(k)
    \/ Operation
    \/ Disturbance

CasesSpec == Init /\ [][CasesNext]_vars
=============================================================================
