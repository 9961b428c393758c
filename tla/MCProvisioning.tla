--------------------------- MODULE MCProvisioning ---------------------------
(***************************************************************************)
(* Instances of the provisioning controllers for TLC.                       *)
(***************************************************************************)
EXTENDS ProvisioningProperties

CONSTANTS ext, sub1, sub2, sub3

Named == [id |-> None, named |-> TRUE, verify |-> TRUE]
ById == [id |-> ext, named |-> FALSE, verify |-> FALSE]

\* A config that creates its subscription and one that brings its own.
TwoSpecs == {Named, ById}

\* Bounds of the liveness run: two moves, or no move and one failed call of the
\* Gateway controller, for a config that has subscription and secrets made.
FewEvents ==
    /\ moves' + 2 * faults' <= 2
    /\ faults' > faults => gwW.pc # gwW'.pc /\ config.spec = Named
=============================================================================
