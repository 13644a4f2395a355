--------------------------- MODULE TransportManager ---------------------------
(***************************************************************************)
(* The transport manager (src/unnamed/part_001, package transport): the    *)
(* table of managed transports of one node, the goroutines that put        *)
(* transports into it (CreateTransport and the accept loops of Serve), the *)
(* worker goroutine of every managed transport (manageTransport), and      *)
(* DeleteTransport and Close.                                              *)
(*                                                                         *)
(* Every goroutine is a process with a program counter.  A step is a piece *)
(* of code that touches shared state once: a critical section of tm.mu, an *)
(* operation on a channel, or a call that leaves the process (Dial,        *)
(* Accept, the settlement handshake, the discovery client).  What the      *)
(* remote node and the network do is the environment: a dial or a          *)
(* handshake succeeds or fails, a link breaks, a connection arrives.       *)
(*                                                                         *)
(* A transport ID stands for an Entry: the settlement handshake derives    *)
(* the ID from the edges, the type and the public flag, so two transports  *)
(* between the same nodes have the same ID, whoever dialed.                *)
(*                                                                         *)
(* ManagedTransport itself is not part of the sources; its operations      *)
(* (newManagedTransport, killWorker, isClosing, updateTransport, Close)    *)
(* are modelled from the specification and kept to one definition each.    *)
(***************************************************************************)
EXTENDS Integers, FiniteSets, Sequences

CONSTANTS
    IDs,          \* transport IDs
    PublicIDs,    \* the IDs of public transports
    FactoryIDs,   \* the IDs of transports whose type has a factory
    RemoteOf,     \* ID -> the edge that is not the local key, or NULL
    KnownEntries, \* the entries discovery gives to NewManager
    DefaultNodes, \* config.DefaultNodes, each as the ID of the public
                  \* "messaging" transport to it
    Servers,      \* the goroutine that calls Serve (at most one)
    Dialers,      \* goroutines that call CreateTransport
    Acceptors,    \* the accept loops of Serve, one per factory
    Users,        \* goroutines that call DeleteTransport
    Closers,      \* goroutines that call Close
    MaxManaged,   \* bound: managed transports created in one behaviour
    TrChanCap,    \* capacity of TrChan (9 in the code)
    MaxBytes,     \* bound: reads, and writes, one managed transport logs
    Cancellable,  \* whether the context of Serve may be cancelled
    NULL

ASSUME
    /\ PublicIDs \subseteq IDs
    /\ FactoryIDs \subseteq IDs
    /\ KnownEntries \subseteq IDs
    /\ IDs \subseteq DOMAIN RemoteOf
    /\ DefaultNodes \in Seq(FactoryIDs \cap PublicIDs)
    /\ Cardinality(Servers) <= 1
    /\ MaxManaged \in Nat \ {0}
    /\ TrChanCap \in Nat \ {0}
    /\ MaxBytes \in Nat
    /\ Cancellable \in BOOLEAN

\* Managed transports are numbered in the order newManagedTransport makes
\* them; the worker of managed transport m is process m.
MT == 1..MaxManaged

\* The goroutines that run createTransport or the second half of
\* acceptTransport.
Installers == Dialers \cup Acceptors \cup Servers
Procs == Installers \cup Users \cup Closers \cup MT

VARIABLES
    transports,      \* tm.transports: ID -> managed transport, or NULL
    entries,         \* tm.entries
    doneChan,        \* tm.doneChan is closed
    trChan,          \* number of managed transports waiting in tm.TrChan
    mgrQty,          \* tm.mgrQty
    managed,         \* the managed transports: record per MT, NULL before it is made
    errChan,         \* MT -> an error of the transport waits on mTr.errChan
    pc,              \* program counter of every process
    arg,             \* the ID a process works on (entry.ID, id, mTr.ID)
    ref,             \* the managed transport a process holds (mTr, tr)
    statuses,        \* the statuses Close has collected
    todo,            \* the entries reconnectTransports has still to visit
    next,            \* the index of createDefaultTransports in DefaultNodes,
                     \* 0 while Serve is in reconnectTransports
    closedFactories, \* accept loops whose factory has been closed
    discovery,       \* ID -> the last status given to UpdateStatuses
    logStore,        \* ID -> the last entry given to LogStore.Record
    ctxDone          \* the context is cancelled

tmVars   == <<transports, entries, doneChan, trChan, mgrQty>>
mtVars   == <<managed, errChan>>
procVars == <<pc, arg, ref, statuses, todo, next>>
callVars == <<statuses, todo, next>>
envVars  == <<closedFactories, discovery, logStore, ctxDone>>
vars     == <<tmVars, mtVars, procVars, envVars>>

-----------------------------------------------------------------------------
\* Managed transports.

Made == {m \in MT : managed[m] # NULL}

\* tm.Transport(id), under the read lock.
Transport(id) == transports[id]

\* tm.isClosing(): tm.doneChan is closed.
managerIsClosing == doneChan

\* tm.addEntry(entry) and tm.addIfNotExist(entry), as the settlement
\* handshakes call them.
addEntry(id) == entries' = entries \cup {id}

InTable(m) == \E id \in IDs : transports[id] = m

\* newManagedTransport(id, tr, public, accepted) over a fresh transport.
newManagedTransport(id, accepted) ==
    [id |-> id, accepted |-> accepted, done |-> FALSE, link |-> "up",
     LogEntry |-> [ReceivedBytes |-> 0, SentBytes |-> 0]]

\* mTr.killWorker(): close mTr.doneChan (once).
killWorker(mts, m) == [mts EXCEPT ![m].done = TRUE]

\* mTr.isClosing().
isClosing(m) == managed[m].done

\* mTr.Close(): kill the worker and close the transport under it.
CloseManaged(mts, m) == [mts EXCEPT ![m].done = TRUE, ![m].link = "closed"]

\* mTr.updateTransport(tr): a fresh transport under the same wrapper.
updateTransport(mts, m) == [mts EXCEPT ![m].link = "up"]

\* Bound on the managed transports of a behaviour.  A dial by createTransport
\* or a responder handshake succeeds only while one more managed transport
\* can be made (HasRoom); a user calls CreateTransport, and a connection
\* arrives, only while there is room for it and for every dial and accept
\* under way (CanAllocate).
Installing == {t \in Installers : pc[t] \in {"lookup", "install"}}

Pending ==
    {t \in Installers : pc[t] \in {"dial_check", "dialing", "acc_check", "handshake"}}

HasRoom == Cardinality(Made) + Cardinality(Installing) < MaxManaged

CanAllocate == Cardinality(Made) + Cardinality(Installing \cup Pending) < MaxManaged

\* Where a process goes on when createTransport, acceptTransport or
\* dialTransport returns to it, with a transport (ok) or with an error:
\* reconnectTransports reports a transport it has made to discovery.
Return(x, ok) ==
    CASE x \in MT        -> "select"
      [] x \in Acceptors -> "loop"
      [] x \in Servers   -> IF next > 0 THEN "default"
                            ELSE IF ok THEN "report_up" ELSE "reconnect"
      [] OTHER           -> "idle"

\* The ID stays with reconnectTransports for its report.
ArgAfter(x, ok) == IF Return(x, ok) = "report_up" THEN arg[x] ELSE NULL

Goto(x, to) == pc' = [pc EXCEPT ![x] = to]

\* A nil dereference, or the close of a closed channel, has killed the
\* process.
panicked == \E x \in Procs : pc[x] = "panic"

-----------------------------------------------------------------------------
\* NewManager: the entries of discovery, an empty table, open channels.
Init ==
    /\ transports = [id \in IDs |-> NULL]
    /\ entries = KnownEntries
    /\ doneChan = FALSE
    /\ trChan = 0
    /\ mgrQty = 0
    /\ managed = [m \in MT |-> NULL]
    /\ errChan = [m \in MT |-> FALSE]
    /\ pc = [x \in Procs |-> CASE x \in MT        -> "none"
                                 [] x \in Acceptors -> "unborn"
                                 [] x \in Servers   -> "serve"
                                 [] OTHER           -> "idle"]
    /\ arg = [x \in Procs |-> NULL]
    /\ ref = [x \in Procs |-> NULL]
    /\ statuses = {}
    /\ todo = {}
    /\ next = 0
    /\ closedFactories = {}
    /\ discovery = [id \in IDs |-> "unset"]
    /\ logStore = [id \in IDs |-> NULL]
    /\ ctxDone = FALSE

-----------------------------------------------------------------------------
\* dialTransport, called by createTransport and by a worker that re-dials.

\* The call fails: createTransport returns the error, the worker deletes
\* its transport.
DialFailed(x) ==
    IF x \in MT
    THEN Goto(x, "del_remove") /\ UNCHANGED arg
    ELSE Goto(x, Return(x, FALSE)) /\ arg' = [arg EXCEPT ![x] = NULL]

\* if tm.isClosing() { return error }
DialCheck(x) ==
    /\ pc[x] = "dial_check"
    /\ IF managerIsClosing THEN DialFailed(x) ELSE Goto(x, "dialing") /\ UNCHANGED arg
    /\ UNCHANGED <<tmVars, mtVars, ref, callVars, envVars>>

\* factory.Dial or the initiator handshake fails (the transport is closed).
DialError(x) ==
    /\ pc[x] = "dialing"
    /\ DialFailed(x)
    /\ UNCHANGED <<tmVars, mtVars, ref, callVars, envVars>>

\* factory.Dial and the handshake succeed; the handshake records the entry.
\* createTransport goes on to install the transport, the worker puts it
\* under its managed transport.
DialOk(x) ==
    /\ pc[x] = "dialing"
    /\ x \in MT \/ HasRoom
    /\ addEntry(arg[x])
    /\ IF x \in MT
       THEN /\ managed' = updateTransport(managed, x)
            /\ Goto(x, "select")
            /\ arg' = [arg EXCEPT ![x] = NULL]
       ELSE /\ Goto(x, "lookup")
            /\ UNCHANGED <<managed, arg>>
    /\ UNCHANGED <<transports, doneChan, trChan, mgrQty, errChan, ref, callVars, envVars>>

-----------------------------------------------------------------------------
\* createTransport and the second half of acceptTransport.

\* CreateTransport(ctx, remote, tpType, public) for a type without a
\* factory: "unknown transport type".
CreateUnknownType(d, id) ==
    /\ pc[d] = "idle"
    /\ id \notin FactoryIDs
    /\ RemoteOf[id] # NULL
    /\ UNCHANGED vars

\* CreateTransport(ctx, remote, tpType, public) for a type that has a factory.
CreateTransport(d, id) ==
    /\ pc[d] = "idle"
    /\ id \in FactoryIDs
    /\ RemoteOf[id] # NULL
    /\ CanAllocate
    /\ Goto(d, "dial_check")
    /\ arg' = [arg EXCEPT ![d] = id]
    /\ UNCHANGED <<tmVars, mtVars, ref, callVars, envVars>>

\* oldTr := tm.Transport(entry.ID); if oldTr != nil { oldTr.killWorker() }
LookupOld(t) ==
    /\ pc[t] = "lookup"
    /\ managed' = IF Transport(arg[t]) = NULL THEN managed
                  ELSE killWorker(managed, Transport(arg[t]))
    /\ Goto(t, "install")
    /\ UNCHANGED <<tmVars, errChan, arg, ref, callVars, envVars>>

\* mTr := newManagedTransport(...); tm.transports[entry.ID] = mTr
Install(t) ==
    /\ pc[t] = "install"
    /\ LET m == Cardinality(Made) + 1 IN
        /\ managed' = [managed EXCEPT ![m] = newManagedTransport(arg[t], t \in Acceptors)]
        /\ transports' = [transports EXCEPT ![arg[t]] = m]
        /\ ref' = [ref EXCEPT ![t] = m]
    /\ Goto(t, "publish")
    /\ UNCHANGED <<entries, doneChan, trChan, mgrQty, errChan, arg, callVars, envVars>>

\* tm.TrChan <- mTr, which waits while the channel is full, and then
\* go tm.manageTransport(...).
Publish(t) ==
    /\ pc[t] = "publish"
    /\ trChan < TrChanCap
    /\ trChan' = trChan + 1
    /\ pc' = [pc EXCEPT ![t] = Return(t, TRUE), ![ref[t]] = "spawned"]
    /\ arg' = [arg EXCEPT ![t] = ArgAfter(t, TRUE)]
    /\ ref' = [ref EXCEPT ![t] = NULL]
    /\ UNCHANGED <<transports, entries, doneChan, mgrQty, mtVars, callVars, envVars>>

\* Whoever reads TrChan takes a managed transport from it.
ReceiveTr ==
    /\ ~panicked
    /\ trChan > 0
    /\ trChan' = trChan - 1
    /\ UNCHANGED <<transports, entries, doneChan, mgrQty, mtVars, procVars, envVars>>

-----------------------------------------------------------------------------
\* Serve: reconnectTransports, createDefaultTransports, the accept loops.

\* Serve is called; reconnectTransports copies tm.entries under the read lock.
Serve(s) ==
    /\ pc[s] = "serve"
    /\ todo' = entries
    /\ Goto(s, "reconnect")
    /\ UNCHANGED <<tmVars, mtVars, arg, ref, statuses, next, envVars>>

\* An entry createTransport has a factory for, with the local key as an edge.
Dialable(id) == id \in FactoryIDs /\ RemoteOf[id] # NULL

\* The next entry of the copy (a Go map: in any order) is in the table, has
\* no local edge, or has a type without a factory: continue.
ReconnectSkip(s, e) ==
    /\ pc[s] = "reconnect"
    /\ e \in todo
    /\ Transport(e) # NULL \/ ~Dialable(e)
    /\ todo' = todo \ {e}
    /\ UNCHANGED <<tmVars, mtVars, pc, arg, ref, statuses, next, envVars>>

\* The next entry is not in the table: tm.createTransport(...).
ReconnectDial(s, e) ==
    /\ pc[s] = "reconnect"
    /\ e \in todo
    /\ Transport(e) = NULL /\ Dialable(e)
    /\ todo' = todo \ {e}
    /\ arg' = [arg EXCEPT ![s] = e]
    /\ Goto(s, "dial_check")
    /\ UNCHANGED <<tmVars, mtVars, ref, statuses, next, envVars>>

\* createTransport has returned a transport:
\* UpdateStatuses(ctx, &Status{ID: entry.ID, IsUp: true}).
ReportUp(s) ==
    /\ pc[s] = "report_up"
    /\ discovery' = [discovery EXCEPT ![arg[s]] = "up"]
    /\ arg' = [arg EXCEPT ![s] = NULL]
    /\ Goto(s, "reconnect")
    /\ UNCHANGED <<tmVars, mtVars, ref, callVars, closedFactories, logStore, ctxDone>>

\* reconnectTransports returns; createDefaultTransports begins.
ReconnectDone(s) ==
    /\ pc[s] = "reconnect"
    /\ todo = {}
    /\ next' = 1
    /\ Goto(s, "default")
    /\ UNCHANGED <<tmVars, mtVars, arg, ref, statuses, todo, envVars>>

\* tm.WalkTransports(walkFunc): the transports of the table, which walkFunc
\* is given one by one, under the read lock.
WalkTransports == {id \in IDs : transports[id] # NULL}

\* The walk finds a transport that has the default node as its remote edge.
DefaultExists(id) ==
    \E other \in WalkTransports : RemoteOf[other] = RemoteOf[id]

\* The default node has a transport: continue.
DefaultSkip(s) ==
    /\ pc[s] = "default"
    /\ next <= Len(DefaultNodes)
    /\ DefaultExists(DefaultNodes[next])
    /\ next' = next + 1
    /\ UNCHANGED <<tmVars, mtVars, pc, arg, ref, statuses, todo, envVars>>

\* It has none: tm.CreateTransport(ctx, pk, "messaging", true), whose error
\* is logged.
DefaultDial(s) ==
    /\ pc[s] = "default"
    /\ next <= Len(DefaultNodes)
    /\ ~DefaultExists(DefaultNodes[next])
    /\ next' = next + 1
    /\ arg' = [arg EXCEPT ![s] = DefaultNodes[next]]
    /\ Goto(s, "dial_check")
    /\ UNCHANGED <<tmVars, mtVars, ref, statuses, todo, envVars>>

\* createDefaultTransports returns; Serve starts one accept loop per
\* factory and waits for them.
StartAccepting(s) ==
    /\ pc[s] = "default"
    /\ next > Len(DefaultNodes)
    /\ pc' = [x \in Procs |-> IF x \in Acceptors THEN "loop"
                              ELSE IF x = s THEN "wait" ELSE pc[x]]
    /\ UNCHANGED <<tmVars, mtVars, arg, ref, callVars, envVars>>

\* wg.Wait() returns when every accept loop has ended; Serve returns nil.
ServeReturn(s) ==
    /\ pc[s] = "wait"
    /\ \A a \in Acceptors : pc[a] = "exit"
    /\ Goto(s, "returned")
    /\ UNCHANGED <<tmVars, mtVars, arg, ref, callVars, envVars>>

reconnectTransports(s) ==
    \/ \E e \in IDs : ReconnectSkip(s, e) \/ ReconnectDial(s, e)
    \/ ReportUp(s)
    \/ ReconnectDone(s)

createDefaultTransports(s) ==
    \/ DefaultSkip(s)
    \/ DefaultDial(s)

-----------------------------------------------------------------------------
\* The accept loop of Serve and acceptTransport.

\* case <-ctx.Done(), case <-tm.doneChan: the loop ends.
AcceptLoopExit(a) ==
    /\ pc[a] = "loop"
    /\ doneChan \/ ctxDone
    /\ Goto(a, "exit")
    /\ UNCHANGED <<tmVars, mtVars, arg, ref, callVars, envVars>>

\* default: the loop calls acceptTransport, which waits in factory.Accept.
AcceptBegin(a) ==
    /\ pc[a] = "loop"
    /\ ~doneChan /\ ~ctxDone
    /\ Goto(a, "accepting")
    /\ UNCHANGED <<tmVars, mtVars, arg, ref, callVars, envVars>>

\* factory.Accept returns the transport of a node that dialed.
AcceptReturn(a, id) ==
    /\ pc[a] = "accepting"
    /\ a \notin closedFactories
    /\ id \in FactoryIDs
    /\ CanAllocate
    /\ Goto(a, "acc_check")
    /\ arg' = [arg EXCEPT ![a] = id]
    /\ UNCHANGED <<tmVars, mtVars, ref, callVars, envVars>>

\* factory.Accept fails with an error that does not say "closed": the loop
\* logs it and goes round.
AcceptFailed(a) ==
    /\ pc[a] = "accepting"
    /\ Goto(a, "loop")
    /\ UNCHANGED <<tmVars, mtVars, arg, ref, callVars, envVars>>

\* factory.Accept fails because the factory is closed: the loop ends.
AcceptClosed(a) ==
    /\ pc[a] = "accepting"
    /\ a \in closedFactories
    /\ Goto(a, "exit")
    /\ UNCHANGED <<tmVars, mtVars, arg, ref, callVars, envVars>>

\* if tm.isClosing() { return error }: the accepted transport is dropped.
AcceptCheck(a) ==
    /\ pc[a] = "acc_check"
    /\ IF managerIsClosing
       THEN Goto(a, "loop") /\ arg' = [arg EXCEPT ![a] = NULL]
       ELSE Goto(a, "handshake") /\ UNCHANGED arg
    /\ UNCHANGED <<tmVars, mtVars, ref, callVars, envVars>>

\* The responder handshake fails (the transport is closed), or the local
\* key is not among the edges: acceptTransport returns the error.
HandshakeError(a) ==
    /\ pc[a] = "handshake"
    /\ Goto(a, "loop")
    /\ arg' = [arg EXCEPT ![a] = NULL]
    /\ UNCHANGED <<tmVars, mtVars, ref, callVars, envVars>>

\* The responder handshake fails with an error that says "closed" (the
\* peer has closed the connection): the accept loop tests every error of
\* acceptTransport for that word, and ends.
HandshakeClosed(a) ==
    /\ pc[a] = "handshake"
    /\ Goto(a, "exit")
    /\ arg' = [arg EXCEPT ![a] = NULL]
    /\ UNCHANGED <<tmVars, mtVars, ref, callVars, envVars>>

\* The responder handshake succeeds and records the entry.
HandshakeOk(a) ==
    /\ pc[a] = "handshake"
    /\ RemoteOf[arg[a]] # NULL
    /\ HasRoom
    /\ addEntry(arg[a])
    /\ Goto(a, "lookup")
    /\ UNCHANGED <<transports, doneChan, trChan, mgrQty, mtVars, arg, ref, callVars, envVars>>

acceptTransport(a) ==
    \/ \E id \in IDs : AcceptReturn(a, id)
    \/ AcceptFailed(a)
    \/ AcceptClosed(a)
    \/ AcceptCheck(a)
    \/ HandshakeError(a)
    \/ HandshakeClosed(a)
    \/ HandshakeOk(a)

-----------------------------------------------------------------------------
\* DeleteTransport, called by a user and by workers.

\* A user deletes by ID, whether the table has a transport of that ID or not.
DeleteTransport(u, id) ==
    /\ pc[u] = "idle"
    /\ Goto(u, "del_remove")
    /\ arg' = [arg EXCEPT ![u] = id]
    /\ UNCHANGED <<tmVars, mtVars, ref, callVars, envVars>>

\* Fault: the transport is read from the table and left in it.
DeleteRemoveKeeps(x) ==
    /\ pc[x] = "del_remove"
    /\ ref' = [ref EXCEPT ![x] = transports[arg[x]]]
    /\ Goto(x, "del_close")
    /\ UNCHANGED <<tmVars, mtVars, arg, callVars, envVars>>

\* tm.mu.Lock(); tr := tm.transports[id]; delete(tm.transports, id); Unlock()
DeleteRemove(x) ==
    /\ pc[x] = "del_remove"
    /\ ref' = [ref EXCEPT ![x] = transports[arg[x]]]
    /\ transports' = [transports EXCEPT ![arg[x]] = NULL]
    /\ Goto(x, "del_close")
    /\ UNCHANGED <<entries, doneChan, trChan, mgrQty, mtVars, arg, callVars, envVars>>

\* tr.Close(), before tr is compared with nil: on a nil transport the call
\* panics and the process, with all its goroutines, dies.
DeleteClose(x) ==
    /\ pc[x] = "del_close"
    /\ IF ref[x] = NULL
       THEN pc' = [p \in Procs |-> "panic"] /\ UNCHANGED managed
       ELSE managed' = CloseManaged(managed, ref[x]) /\ Goto(x, "del_status")
    /\ UNCHANGED <<tmVars, errChan, arg, ref, callVars, envVars>>

\* UpdateStatuses(&Status{ID: id, IsUp: false}); the second tr.Close() finds
\* the transport closed; return.
DeleteStatus(x) ==
    /\ pc[x] = "del_status"
    /\ discovery' = [discovery EXCEPT ![arg[x]] = "down"]
    /\ Goto(x, Return(x, TRUE))
    /\ arg' = [arg EXCEPT ![x] = NULL]
    /\ ref' = [ref EXCEPT ![x] = NULL]
    /\ UNCHANGED <<tmVars, mtVars, callVars, closedFactories, logStore, ctxDone>>

-----------------------------------------------------------------------------
\* manageTransport: the worker of managed transport m.

\* Fault: the goroutine starts and is not counted.
WorkerStartUncounted(m) ==
    /\ pc[m] = "spawned"
    /\ Goto(m, "select")
    /\ UNCHANGED <<tmVars, mtVars, arg, ref, callVars, envVars>>

\* The goroutine starts: atomic.AddInt32(&tm.mgrQty, 1).
WorkerStart(m) ==
    /\ pc[m] = "spawned"
    /\ mgrQty' = mgrQty + 1
    /\ Goto(m, "select")
    /\ UNCHANGED <<transports, entries, doneChan, trChan, mtVars, arg, ref, callVars, envVars>>

\* Fault: the worker leaves and the counter is not taken back.
WorkerDoneUncounted(m) ==
    /\ pc[m] = "select"
    /\ isClosing(m)
    /\ Goto(m, "exited")
    /\ UNCHANGED <<tmVars, mtVars, arg, ref, callVars, envVars>>

\* Fault: the worker leaves without looking at mTr.doneChan.
WorkerDoneAnytime(m) ==
    /\ pc[m] = "select"
    /\ mgrQty' = mgrQty - 1
    /\ Goto(m, "exited")
    /\ UNCHANGED <<transports, entries, doneChan, trChan, mtVars, arg, ref, callVars, envVars>>

\* case <-mTr.doneChan: atomic.AddInt32(&tm.mgrQty, -1); return
WorkerDone(m) ==
    /\ pc[m] = "select"
    /\ isClosing(m)
    /\ mgrQty' = mgrQty - 1
    /\ Goto(m, "exited")
    /\ UNCHANGED <<transports, entries, doneChan, trChan, mtVars, arg, ref, callVars, envVars>>

\* Fault: the error of a transport that is not closing is skipped.
WorkerErrorSkipped(m) ==
    /\ pc[m] = "select"
    /\ errChan[m]
    /\ errChan' = [errChan EXCEPT ![m] = FALSE]
    /\ UNCHANGED <<tmVars, managed, procVars, envVars>>

\* case err := <-mTr.errChan: a transport that is closing skips the error;
\* an accepted one is deleted, a dialed one is re-dialed.
WorkerError(m) ==
    /\ pc[m] = "select"
    /\ errChan[m]
    /\ errChan' = [errChan EXCEPT ![m] = FALSE]
    /\ IF isClosing(m)
       THEN UNCHANGED <<pc, arg>>
       ELSE /\ arg' = [arg EXCEPT ![m] = managed[m].id]
            /\ Goto(m, IF managed[m].accepted THEN "del_remove" ELSE "dial_check")
    /\ UNCHANGED <<tmVars, managed, ref, callVars, envVars>>

\* case n := <-mTr.readLogChan, case n := <-mTr.writeLogChan: the count is
\* added to the entry of the managed transport and the entry is recorded
\* under its ID.  One read or write stands for its n bytes.
WorkerLog(m, field) ==
    /\ pc[m] = "select"
    /\ managed[m].link = "up"
    /\ managed[m].LogEntry[field] < MaxBytes
    /\ LET entry == [managed[m].LogEntry EXCEPT ![field] = @ + 1] IN
        /\ managed' = [managed EXCEPT ![m].LogEntry = entry]
        /\ logStore' = [logStore EXCEPT ![managed[m].id] = entry]
    /\ UNCHANGED <<tmVars, errChan, procVars, closedFactories, discovery, ctxDone>>

manageTransport(m) ==
    \/ WorkerStart(m)
    \/ WorkerDone(m)
    \/ WorkerError(m)
    \/ WorkerLog(m, "ReceivedBytes")
    \/ WorkerLog(m, "SentBytes")

\* The transport under a managed transport breaks; the next Read or Write on
\* it offers the error on mTr.errChan.
LinkFail(m) ==
    /\ ~panicked
    /\ m \in Made
    /\ managed[m].link = "up"
    /\ managed' = [managed EXCEPT ![m].link = "down"]
    /\ errChan' = [errChan EXCEPT ![m] = TRUE]
    /\ UNCHANGED <<tmVars, procVars, envVars>>

-----------------------------------------------------------------------------
\* Close.

\* close(tm.doneChan): the first call closes the channel, and a call that
\* finds it closed panics.
Close(c) ==
    /\ pc[c] = "idle"
    /\ doneChan' = TRUE
    /\ pc' = IF doneChan THEN [p \in Procs |-> "panic"]
                         ELSE [pc EXCEPT ![c] = "close_table"]
    /\ UNCHANGED <<transports, entries, trChan, mgrQty, mtVars, arg, ref, callVars, envVars>>

PublicInTable == {id \in PublicIDs : transports[id] # NULL}

\* Under tm.mu: every public transport gets a Status{IsUp: false} and is
\* closed.
CloseTable(c) ==
    /\ pc[c] = "close_table"
    /\ statuses' = PublicInTable
    /\ managed' = [m \in MT |->
                     IF \E id \in PublicInTable : transports[id] = m
                     THEN CloseManaged(managed, m)[m] ELSE managed[m]]
    /\ Goto(c, "close_report")
    /\ UNCHANGED <<tmVars, errChan, arg, ref, todo, next, envVars>>

\* UpdateStatuses(statuses...)
CloseReport(c) ==
    /\ pc[c] = "close_report"
    /\ discovery' = [id \in IDs |-> IF id \in statuses THEN "down" ELSE discovery[id]]
    /\ statuses' = {}
    /\ Goto(c, "closed")
    /\ UNCHANGED <<tmVars, mtVars, arg, ref, todo, next, closedFactories, logStore, ctxDone>>

\* Fault: Close returns without closing the factories.
FactoryCloseNever(a) ==
    /\ FALSE
    /\ UNCHANGED vars

\* go f.Close(), one goroutine per factory, started when Close returns.
FactoryClose(a) ==
    /\ \E c \in Closers : pc[c] = "closed"
    /\ a \notin closedFactories
    /\ closedFactories' = closedFactories \cup {a}
    /\ UNCHANGED <<tmVars, mtVars, procVars, discovery, logStore, ctxDone>>

\* The context given to Serve is cancelled.
Cancel ==
    /\ Cancellable
    /\ ~panicked
    /\ ~ctxDone
    /\ ctxDone' = TRUE
    /\ UNCHANGED <<tmVars, mtVars, procVars, closedFactories, discovery, logStore>>

-----------------------------------------------------------------------------

\* The steps a process takes by itself once it has been called.
Step(x) ==
    \/ DialCheck(x) \/ DialError(x) \/ DialOk(x)
    \/ LookupOld(x) \/ Install(x)
    \/ DeleteRemove(x) \/ DeleteClose(x) \/ DeleteStatus(x)

Next ==
    \/ \E x \in Procs : Step(x)
    \/ \E t \in Installers : Publish(t)
    \/ \E d \in Dialers, id \in IDs : CreateTransport(d, id) \/ CreateUnknownType(d, id)
    \/ \E s \in Servers :
        \/ Serve(s)
        \/ reconnectTransports(s)
        \/ createDefaultTransports(s)
        \/ StartAccepting(s)
        \/ ServeReturn(s)
    \/ \E a \in Acceptors : AcceptLoopExit(a) \/ AcceptBegin(a) \/ acceptTransport(a)
    \/ \E u \in Users, id \in IDs : DeleteTransport(u, id)
    \/ \E m \in MT : manageTransport(m) \/ LinkFail(m)
    \/ \E c \in Closers : Close(c) \/ CloseTable(c) \/ CloseReport(c)
    \/ \E a \in Acceptors : FactoryClose(a)
    \/ ReceiveTr
    \/ Cancel

Spec == Init /\ [][Next]_vars

(***************************************************************************)
(* Fairness.  A goroutine that can take a step takes it: the Go scheduler  *)
(* runs every runnable goroutine.  Dial and the handshakes return, with    *)
(* success or an error, because they are bounded by a context and by       *)
(* timeouts of a minute and of 30 seconds.  A sender blocked on TrChan is  *)
(* served in turn when the channel has room (strong fairness), and the     *)
(* channel is read by its consumer.  Nothing is assumed of the calls of    *)
(* users, of arriving connections or of links breaking.                    *)
(***************************************************************************)
Fairness ==
    /\ \A x \in Procs : WF_vars(Step(x))
    /\ \A t \in Installers : SF_vars(Publish(t))
    /\ \A a \in Acceptors :
        /\ WF_vars(AcceptLoopExit(a) \/ AcceptBegin(a))
        /\ WF_vars(AcceptClosed(a) \/ AcceptCheck(a))
        /\ WF_vars(HandshakeError(a) \/ HandshakeClosed(a) \/ HandshakeOk(a))
        /\ WF_vars(FactoryClose(a))
    /\ \A m \in MT : WF_vars(manageTransport(m))
    /\ \A c \in Closers : WF_vars(CloseTable(c) \/ CloseReport(c))
    /\ \A s \in Servers :
        WF_vars(reconnectTransports(s) \/ createDefaultTransports(s)
                    \/ StartAccepting(s) \/ ServeReturn(s))
    /\ WF_vars(ReceiveTr)

FairSpec == Spec /\ Fairness

-----------------------------------------------------------------------------

LogEntries == [ReceivedBytes : 0..MaxBytes, SentBytes : 0..MaxBytes]

ManagedTransport ==
    [id : IDs, accepted : BOOLEAN, done : BOOLEAN, link : {"up", "down", "closed"},
     LogEntry : LogEntries]

Labels ==
    {"idle", "dial_check", "dialing", "lookup", "install", "publish",
     "unborn", "loop", "accepting", "acc_check", "handshake", "exit",
     "serve", "reconnect", "report_up", "default", "wait", "returned",
     "del_remove", "del_close", "del_status",
     "none", "spawned", "select", "exited",
     "close_table", "close_report", "closed", "panic"}

TypeOK ==
    /\ transports \in [IDs -> Made \cup {NULL}]
    /\ entries \subseteq IDs
    /\ doneChan \in BOOLEAN
    /\ trChan \in 0..TrChanCap
    /\ mgrQty \in 0..MaxManaged
    /\ managed \in [MT -> ManagedTransport \cup {NULL}]
    /\ errChan \in [MT -> BOOLEAN]
    /\ pc \in [Procs -> Labels]
    /\ arg \in [Procs -> IDs \cup {NULL}]
    /\ ref \in [Procs -> MT \cup {NULL}]
    /\ statuses \subseteq PublicIDs
    /\ todo \subseteq IDs
    /\ next \in 0..Len(DefaultNodes) + 1
    /\ closedFactories \subseteq Acceptors
    /\ discovery \in [IDs -> {"unset", "up", "down"}]
    /\ logStore \in [IDs -> LogEntries \cup {NULL}]
    /\ ctxDone \in BOOLEAN

\* A managed transport that has not been told to stop has a worker: until
\* mTr.doneChan is closed, manageTransport has not returned, and a managed
\* transport without a worker is one that createTransport or
\* acceptTransport is about to hand to TrChan.  No error of a live
\* transport is left without a goroutine to handle it.
OpenTransportsAreManaged ==
    \A m \in Made :
        ~isClosing(m) =>
            /\ pc[m] # "exited"
            /\ pc[m] = "none" => \E t \in Installers : pc[t] = "publish" /\ ref[t] = m

\* tm.mgrQty is the number of manageTransport goroutines that run: each is
\* counted when it starts and once when it leaves, whatever it was doing
\* (a re-dial, a DeleteTransport) when its transport was told to stop.
WorkersCounted ==
    ~panicked =>
        mgrQty = Cardinality({m \in MT : pc[m] \notin {"none", "spawned", "exited"}})

\* tm.Transport(id) gives a managed transport that is closing only while the
\* manager closes or while createTransport or acceptTransport is replacing
\* it: DeleteTransport takes a transport out of the table before it closes
\* it, and the replacement follows the kill.  Nothing is asked of the table
\* of a process that has died.
TableHoldsOpenTransports ==
    \A id \in IDs :
        LET m == transports[id] IN
        (m # NULL /\ isClosing(m)) =>
            \/ doneChan \/ panicked
            \/ \E t \in Installers : pc[t] = "install" /\ arg[t] = id

\* A transport in the table whose link has failed, and which has not been
\* told to stop, is re-dialed, leaves the table or is told to stop:
\* manageTransport re-dials what was dialed and deletes what was accepted,
\* and createTransport hands every transport it installs to a worker.
FailedLinkHandled ==
    \A m \in MT :
        (m \in Made /\ InTable(m) /\ managed[m].link = "down" /\ ~isClosing(m))
            ~> (~InTable(m) \/ managed[m].link # "down" \/ isClosing(m) \/ panicked)

\* Once Close has returned, a Serve that has been called returns: its
\* start-up fails its dials on the closing manager, and every accept loop
\* sees tm.doneChan or the "closed" error of its factory.
ServeReturnsAfterClose ==
    \A s \in Servers :
        ((\E c \in Closers : pc[c] = "closed") /\ pc[s] # "serve")
            ~> (pc[s] = "returned" \/ panicked)

\* "Spawn one accept loop per factory until context cancels or doneChan
\* closes", and an Accept error that says "closed" is the shutdown of the
\* factory: a loop that has ended has been told to.
AcceptLoopServes ==
    \A a \in Acceptors :
        pc[a] = "exit" => (doneChan \/ ctxDone \/ a \in closedFactories)

\* "A closed transport whose peer does not come back remains deleted;
\* discovery will reflect IsUp=false": discovery holds IsUp=true only for a
\* transport of the table, or for one that DeleteTransport has taken out and
\* is about to report.
DeletedIsDown ==
    \A id \in IDs :
        discovery[id] = "up" =>
            \/ Transport(id) # NULL
            \/ \E x \in Procs : pc[x] \in {"del_close", "del_status"} /\ arg[x] = id
            \/ panicked

\* DeleteTransport never calls Close on a nil transport: the design notes of
\* the specification call the nil check after the call a bug.
NoNilClose == ~panicked

\* Close closes every public transport of the table, and a managed transport
\* that has been closed stays closed: no live transport is left under it.
ClosedStaysClosed ==
    [][\A m \in MT :
          (m \in Made /\ managed[m].link = "closed") => managed'[m].link = "closed"]_vars

\* "On re-dial, the old managed transport is killed before the new one
\* replaces it": an entry of tm.transports is only overwritten when the
\* managed transport it held has been told to stop.
KilledBeforeReplaced ==
    [][\A id \in IDs :
          (transports[id] # NULL /\ transports'[id] \notin {NULL, transports[id]})
              => isClosing(transports[id])]_vars

=============================================================================
