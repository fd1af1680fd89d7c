---------------------------- MODULE MCCyclonNode ----------------------------
(* Instances of CyclonNode for TLC.                                        *)
EXTENDS CyclonNode, Sampling, TLC

(* Every peer is like every other, and so is every identity of a shuffle.  *)
Symmetry == Permutations(Ids \ {Self}) \cup Permutations(Shuffles)

(* randomSample gives the samples that Samples allows and no others, and   *)
(* from every array shuffleArray gives every order: on sets of up to four. *)
ASSUME RandomChoices ==
    \A n \in 0..4 :
        /\ \A k \in 0..4 :
                Samples(1..n, k) = {RandomSample(array, k, draws) :
                                       array \in Arrays(1..n), draws \in Draws(n)}
        /\ \A array \in Arrays(1..n) :
                Arrays(1..n) = {ShuffleArray(array, draws) : draws \in Draws(n)}
=============================================================================
