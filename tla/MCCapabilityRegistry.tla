------------------------ MODULE MCCapabilityRegistry ------------------------
(***************************************************************************)
(* The instance of CapabilityRegistry for model checking.                  *)
(***************************************************************************)
EXTENDS CapabilityRegistry, TLC

CONSTANTS a, d1, d2, r1, r2, r3, c1, i1, i2

Symmetric == Permutations(Invocations)

Descriptor(v, d) == [key |-> [capability |-> a, revision |-> v], descriptor |-> d]

(* The three calls may compete for one revision, with equal and with different     *)
(* descriptors, or bring three revisions.                                          *)
RacingOffers ==
    r1 :> {Descriptor(1, d1)}
    @@ r2 :> {Descriptor(1, d2), Descriptor(2, d1)}
    @@ r3 :> {Descriptor(1, d1), Descriptor(3, d1)}

=============================================================================
