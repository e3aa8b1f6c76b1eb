---------------------------- MODULE MCDeployment ----------------------------
(***************************************************************************)
(* A small deployment for TLC: two builds that differ in one PCR, and the  *)
(* all-zero PCRs that any build has in debug mode, of which one may be     *)
(* approved (twice) or two; two boots of any of them; one operator; a file *)
(* for a build and one that lost a line.                                   *)
(***************************************************************************)
EXTENDS Deployment, TLC

CONSTANTS alice, k1, k2

BuildA == [i \in PcrIndices |-> "A"]
BuildB == [i \in PcrIndices |-> IF i = 2 THEN "B" ELSE "A"]

Debug == [i \in PcrIndices |-> "0"]

MCImages == {BuildA, BuildB, Debug}

MCDocuments ==
  {BootDocument(i, k, n) : i \in MCImages, k \in Keys, n \in {alice, Absent}}

MCPublished == {BuildA, [i \in {0, 1} |-> "A"]}

KeySymmetry == Permutations({k1, k2})

MCReceipts == {[signer |-> k, body |-> "x"] : k \in Keys}
=============================================================================
