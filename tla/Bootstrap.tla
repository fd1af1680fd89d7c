------------------------------- MODULE Bootstrap -------------------------------
(***************************************************************************)
(* What a node relies on when it asks a Bootstrap for peers                *)
(* (cyclon.p2p/src/Bootstrap.ts): while it waits, pointers to peers are    *)
(* heard of from several sources.  In the end the promise is rejected, or  *)
(* resolves with as many of the peers heard of as were asked for, each     *)
(* with the newest of its pointers, and never with the node itself.        *)
(***************************************************************************)
EXTENDS Naturals, FiniteSets

CONSTANTS
    Nodes,          \* the ids of the nodes
    Self,           \* the node that asks
    Limit           \* how many peers it asks for

VARIABLES
    status,         \* "idle", "asking", "resolved" or "rejected"
    heard,          \* the pointers heard of since it asked
    peers           \* what the promise has resolved with

Newest(pointers) ==
    {p \in pointers : \A q \in pointers : q.id = p.id => q.seq <= p.seq}

Init ==
    /\ status = "idle"
    /\ heard = {}
    /\ peers = {}

Ask ==
    /\ status # "asking"
    /\ status' \in {"asking", "rejected"}
    /\ heard' = {}
    /\ peers' = {}

Hear ==
    /\ status = "asking"
    /\ heard \subseteq heard'
    /\ \A p \in heard' : p.id \in Nodes \ {Self}
    /\ UNCHANGED <<status, peers>>

Resolve ==
    /\ status = "asking"
    /\ status' = "resolved"
    /\ peers' \subseteq Newest(heard)
    /\ \A p, q \in peers' : p.id = q.id => p = q
    /\ \/ Cardinality(peers') = Limit
       \/ /\ Cardinality(peers') < Limit
          /\ {p.id : p \in peers'} = {p.id : p \in heard}
    /\ UNCHANGED heard

Next == Ask \/ Hear \/ Resolve

Spec == Init /\ [][Next]_<<status, heard, peers>>
================================================================================
