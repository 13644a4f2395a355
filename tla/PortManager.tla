----------------------------- MODULE PortManager -----------------------------
(***************************************************************************)
(* The port manager of a dmsg node (src/port_manager.go): the registry of  *)
(* local listeners by port and the allocator of ephemeral ports.           *)
(*                                                                         *)
(* The three methods are each atomic under pm.mu, but                      *)
(* NextEmptyEphemeralPort is a loop of two steps (draw a random port, then *)
(* look it up under the read lock), and what a caller does with a port it  *)
(* found vacant happens after the lock is released.  The callers are       *)
(* goroutines of the node: one that binds a port looks it up with Listener *)
(* and registers with AddListener; one that needs a local port for an      *)
(* outgoing stream asks for NextEmptyEphemeralPort.                        *)
(*                                                                         *)
(* pm.rand is read and written outside pm.mu.  Two callers that draw at    *)
(* the same time race on the state of the generator: each of them gets a   *)
(* number of the range (Intn reduces whatever the source gives), or the    *)
(* index into the vector of the source leaves its bounds and the process   *)
(* panics.  Both outcomes are steps of the model.                          *)
(*                                                                         *)
(* Ports are 0..MaxPort; the code has MaxPort = 65535 and the ephemeral    *)
(* range 49152..65534, the model a range of a few ports with the same      *)
(* shape (a non-ephemeral part, an ephemeral part, and the last port,      *)
(* which randomEphemeralPort never draws).                                 *)
(***************************************************************************)
EXTENDS Integers, FiniteSets

CONSTANTS
    MaxPort,             \* the largest uint16
    firstEphemeralPort,
    lastEphemeralPort,
    Callers,             \* goroutines that use the port manager
    NULL                 \* no listener / no port

ASSUME
    /\ MaxPort \in Nat
    /\ firstEphemeralPort \in 1..MaxPort
    /\ lastEphemeralPort \in firstEphemeralPort + 1..MaxPort
    /\ Callers # {}
    /\ NULL \notin Callers

VARIABLES
    listeners,   \* pm.listeners; the listener of caller c is written c
    pc,          \* what each caller is doing
    port,        \* the local variable `port` of each caller
    busyAtCall,  \* history: the ports registered when a caller entered
                 \* NextEmptyEphemeralPort, kept until it has used the port
    panicked     \* the process has died of a panic inside math/rand

vars == <<listeners, pc, port, busyAtCall, panicked>>

Ports == 0..MaxPort

\* The range the specification promises: [firstEphemeralPort, lastEphemeralPort).
EphemeralPorts == firstEphemeralPort..(lastEphemeralPort - 1)

Registered == {p \in Ports : listeners[p] # NULL}

\* rand.Intn(n): any of 0..n-1.
Intn(n) == 0..(n - 1)

\* Fault: the range drawn from is one too long, Intn(last - first + 1).
randomEphemeralPortInclusive ==
    {(firstEphemeralPort + n) % (MaxPort + 1) :
        n \in Intn(lastEphemeralPort - firstEphemeralPort + 1)}

\* Fault: the random source gives one value (a generator that is seeded and
\* read anew for every draw), so the loop tries the same port for ever.
randomEphemeralPortConstant ==
    {(firstEphemeralPort + n) % (MaxPort + 1) : n \in {0}}

\* randomEphemeralPort: the ports one draw can give, converted to uint16.
randomEphemeralPort ==
    {(firstEphemeralPort + n) % (MaxPort + 1) :
        n \in Intn(lastEphemeralPort - firstEphemeralPort)}

\* newPortManager.
Init ==
    /\ listeners = [p \in Ports |-> NULL]
    /\ pc = [c \in Callers |-> "idle"]
    /\ port = [c \in Callers |-> NULL]
    /\ busyAtCall = [c \in Callers |-> {}]
    /\ panicked = FALSE

\* A goroutine of a live process takes a step.
Running == ~panicked /\ UNCHANGED panicked

Goto(c, from, to) ==
    /\ Running
    /\ pc[c] = from
    /\ pc' = [pc EXCEPT ![c] = to]

\* Listener(p) by a caller that wants to bind p: it goes on to register only
\* when the port is absent.
Listener(c, p) ==
    /\ listeners[p] = NULL
    /\ Goto(c, "idle", "vacant")
    /\ port' = [port EXCEPT ![c] = p]
    /\ UNCHANGED <<listeners, busyAtCall>>

\* Listener(p) finds the port taken: the caller gives up.
ListenerBusy(c, p) ==
    /\ ~panicked
    /\ listeners[p] # NULL
    /\ pc[c] = "idle"
    /\ UNCHANGED vars

\* AddListener(l, port), by a caller that found the port vacant.
AddListener(c) ==
    /\ Running
    /\ pc[c] \in {"vacant", "returned"}
    /\ listeners' = [listeners EXCEPT ![port[c]] = c]
    /\ pc' = [pc EXCEPT ![c] = "idle"]
    /\ port' = [port EXCEPT ![c] = NULL]
    /\ busyAtCall' = [busyAtCall EXCEPT ![c] = {}]

\* A caller enters NextEmptyEphemeralPort.
CallNextEmpty(c) ==
    /\ Goto(c, "idle", "draw")
    /\ busyAtCall' = [busyAtCall EXCEPT ![c] = Registered]
    /\ UNCHANGED <<listeners, port>>

\* Fault: the first port is added to the draw a second time, as an int.
DrawOffset(c, p) ==
    /\ p \in randomEphemeralPort
    /\ Goto(c, "draw", "check")
    /\ port' = [port EXCEPT ![c] = firstEphemeralPort + p]
    /\ UNCHANGED <<listeners, busyAtCall>>

\* One pass of the loop, first half: port := pm.randomEphemeralPort().
Draw(c, p) ==
    /\ p \in randomEphemeralPort
    /\ Goto(c, "draw", "check")
    /\ port' = [port EXCEPT ![c] = p]
    /\ UNCHANGED <<listeners, busyAtCall>>

\* pm.rand.Intn while another caller is inside it too: the generator's
\* state is torn and the draw panics, which ends the process.
DrawPanics(c) ==
    /\ ~panicked
    /\ pc[c] = "draw"
    /\ \E d \in Callers \ {c} : pc[d] = "draw"
    /\ panicked' = TRUE
    /\ UNCHANGED <<listeners, pc, port, busyAtCall>>

\* Fault: the loop looks the port up in what was registered when it began.
CheckAtCall(c) ==
    /\ Running
    /\ pc[c] = "check"
    /\ pc' = [pc EXCEPT ![c] = IF port[c] \notin busyAtCall[c]
                                 THEN "returned" ELSE "draw"]
    /\ UNCHANGED <<listeners, port, busyAtCall>>

\* Second half: the lookup under the read lock; return the port or loop.
Check(c) ==
    /\ Running
    /\ pc[c] = "check"
    /\ pc' = [pc EXCEPT ![c] = IF listeners[port[c]] = NULL
                                 THEN "returned" ELSE "draw"]
    /\ UNCHANGED <<listeners, port, busyAtCall>>

NextEmptyEphemeralPort(c) ==
    \/ CallNextEmpty(c)
    \/ \E p \in Ports : Draw(c, p)
    \/ DrawPanics(c)
    \/ Check(c)

\* The caller uses the port as the local port of an outgoing stream and
\* registers nothing.
UsePort(c) ==
    /\ Goto(c, "returned", "idle")
    /\ port' = [port EXCEPT ![c] = NULL]
    /\ busyAtCall' = [busyAtCall EXCEPT ![c] = {}]
    /\ UNCHANGED listeners

Next ==
    \E c \in Callers :
        \/ \E p \in Ports : Listener(c, p) \/ ListenerBusy(c, p)
        \/ AddListener(c)
        \/ NextEmptyEphemeralPort(c)
        \/ UsePort(c)

Spec == Init /\ [][Next]_vars

\* The draws are independent and uniform, so a caller in the loop sooner or
\* later draws a port that is vacant if one stays vacant (strong fairness on
\* the draw of a vacant port), and a goroutine in the loop keeps running.
DrawVacant(c) == \E p \in Ports : listeners[p] = NULL /\ Draw(c, p)

Fairness ==
    \A c \in Callers : SF_vars(DrawVacant(c)) /\ WF_vars(Check(c))

FairSpec == Spec /\ Fairness

-----------------------------------------------------------------------------

TypeOK ==
    /\ listeners \in [Ports -> Callers \cup {NULL}]
    /\ pc \in [Callers -> {"idle", "vacant", "draw", "check", "returned"}]
    /\ port \in [Callers -> Ports \cup {NULL}]
    /\ busyAtCall \in [Callers -> SUBSET Ports]
    /\ panicked \in BOOLEAN

\* A port that NextEmptyEphemeralPort returns lies in
\* [firstEphemeralPort, lastEphemeralPort) and was not registered when the
\* call began: a listener added before the call is never handed out again,
\* however the loop's lookups interleave with other callers' AddListener.
ReturnsVacantEphemeral ==
    \A c \in Callers :
        pc[c] = "returned" => port[c] \in EphemeralPorts \ busyAtCall[c]

\* NextEmptyEphemeralPort returns unless the ephemeral range fills up or
\* the process dies: the retry loop of the code ends as long as some
\* ephemeral port stays vacant, and the only other way out of it is the panic
\* of a draw that raced with another caller's.
NextEmptyReturns ==
    \A c \in Callers :
        pc[c] = "draw" ~> \/ pc[c] = "returned"
                          \/ EphemeralPorts \subseteq Registered
                          \/ panicked

Registry ==
    INSTANCE PortRegistry
    WITH registered <- listeners,
         given <- [c \in Callers |-> IF pc[c] = "returned" THEN port[c] ELSE NULL]

\* The port manager implements PortRegistry: the loop of
\* NextEmptyEphemeralPort, whose draws and lookups interleave with the
\* AddListener of other callers, is as good as one step that returns an
\* ephemeral port without a listener at the moment of its return (the lookup
\* that finds the port absent, under the read lock), and nothing but
\* AddListener changes the registry.
ImplementsPortRegistry == Registry!Spec

=============================================================================
