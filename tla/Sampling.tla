------------------------------ MODULE Sampling ------------------------------
(***************************************************************************)
(* The two functions of cyclon.p2p-common/src/index.ts that draw random    *)
(* numbers: randomSample, a reservoir sample, and shuffleArray.  The       *)
(* modules that model their callers let any sample, or any order, come     *)
(* out (Samples in NeighbourSet); here are the loops themselves, and the   *)
(* theorems of NeighbourSetProofs say that these two agree.                *)
(*                                                                         *)
(* "draws" lists what Math.floor(Math.random() * m) comes to at each turn. *)
(***************************************************************************)
EXTENDS Naturals, Sequences, FiniteSets, Functions

(* The possible draws of a loop over n items: below i at the i-th.         *)
Draws(n) == {draws \in [1..n -> 0..n] : \A i \in 1..n : draws[i] < i}

(* The arrays that hold every member of the finite set S once.             *)
Arrays(S) == Injection(1..Cardinality(S), S)

(* One turn of randomSample's loop.                                        *)
Offer(chosen, k, item, insertAt) ==
    IF Len(chosen) < k THEN Append(chosen, item)
    ELSE IF insertAt < Len(chosen) THEN [chosen EXCEPT ![insertAt + 1] = item]
    ELSE chosen

RandomSample(array, k, draws) ==
    LET chosen[i \in 0..Len(array)] ==
            IF i = 0 THEN <<>>
            ELSE Offer(chosen[i - 1], k, array[i], draws[i])
    IN  chosen[Len(array)]

(* shuffleArray goes down the array, and swaps each item with one that is  *)
(* not after it.                                                           *)
Swap(array, i, j) == [array EXCEPT ![i] = array[j], ![j] = array[i]]

ShuffleArray(array, draws) ==
    LET n == Len(array)
        shuffled[m \in 0..n] ==
            IF m = 0 THEN array
            ELSE LET i == n + 1 - m
                 IN  Swap(shuffled[m - 1], i, draws[i] + 1)
    IN  shuffled[n]
=============================================================================
