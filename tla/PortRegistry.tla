---------------------------- MODULE PortRegistry ----------------------------
(***************************************************************************)
(* What the port manager promises the goroutines of a node, with its       *)
(* methods taken as single steps: a registry of listeners by port, and an  *)
(* allocator that hands out an ephemeral port no listener has at the       *)
(* moment it is handed out.  Nothing is promised about a port between the  *)
(* moment a caller is given it and the moment the caller registers: the    *)
(* registry takes any listener for any port, over the one it has.          *)
(***************************************************************************)
CONSTANTS
    Ports,          \* the ports
    EphemeralPorts, \* those the allocator hands out
    Callers,        \* the goroutines; a caller stands for its listener
    NULL            \* no listener, no port

VARIABLES
    registered,     \* port -> the listener it has
    given           \* caller -> the port the allocator gave it, until it is used

vars == <<registered, given>>

Init ==
    /\ registered = [p \in Ports |-> NULL]
    /\ given = [c \in Callers |-> NULL]

\* An ephemeral port that has no listener now.
Allocate(c) ==
    /\ given[c] = NULL
    /\ \E p \in EphemeralPorts :
        /\ registered[p] = NULL
        /\ given' = [given EXCEPT ![c] = p]
    /\ UNCHANGED registered

\* The caller registers, on the port it was given or on one of its choice.
Register(c) ==
    /\ \E p \in (IF given[c] = NULL THEN Ports ELSE {given[c]}) :
        registered' = [registered EXCEPT ![p] = c]
    /\ given' = [given EXCEPT ![c] = NULL]

\* The caller has used the port it was given without registering.
Release(c) ==
    /\ given[c] # NULL
    /\ given' = [given EXCEPT ![c] = NULL]
    /\ UNCHANGED registered

Next == \E c \in Callers : Allocate(c) \/ Register(c) \/ Release(c)

Spec == Init /\ [][Next]_vars

=============================================================================
