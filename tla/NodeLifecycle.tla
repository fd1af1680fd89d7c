---------------------------- MODULE NodeLifecycle ----------------------------
(***************************************************************************)
(* What a Cyclon node promises about its own activity: it is idle until it *)
(* is started, then it shuffles periodically; when its cache runs empty it *)
(* stops shuffling while it asks for peers, once, and when they arrive it  *)
(* shuffles again.  A bootstrap that fails leaves it stalled for good,     *)
(* which is what the code does (see CyclonNode!BootstrapBeginsShuffling    *)
(* for what its comments say).                                             *)
(***************************************************************************)

VARIABLE status

Statuses == {"idle", "shuffling", "bootstrapping", "stalled"}

Init == status = "idle"

Move(from, to) == status = from /\ status' = to

Start == Move("idle", "shuffling")

RunDry == Move("shuffling", "bootstrapping")

Bootstrapped == Move("bootstrapping", "shuffling")

Stall == Move("bootstrapping", "stalled")

Next == Start \/ RunDry \/ Bootstrapped \/ Stall

Spec == Init /\ [][Next]_status
==============================================================================
