------------------------------ MODULE Registry ------------------------------
(***************************************************************************)
(* ConnectionRegistry of the Real-Time service (ws/connections.go), its    *)
(* RWMutex, and the goroutines around it: the WebSocket handler and reader *)
(* of every connection (ws/handler.go, handleRead in ws/message.go) and    *)
(* the goroutines that send (ws/responses.go, the consumers).              *)
(*                                                                         *)
(* A section under the write lock is one step.  What spans several steps   *)
(* is SendToAdmin, which keeps the read lock while it writes to a client,  *)
(* and WriteMessage itself, which lasts as long as the client lets it: no  *)
(* write deadline is set.  A goroutine waiting for the write lock keeps    *)
(* new readers out, as sync.RWMutex does.                                  *)
(***************************************************************************)
EXTENDS Integers, Sequences, GoMap, SequencesExt

CONSTANTS
    Sessions,   \* session codes
    Users,      \* user ids; every token has an id of its own
    SessionOf,  \* the session a user's token is for
    Admins,     \* the users whose token has the role "admin"
    Conns,      \* WebSocket connections, each with its handler goroutine
    Tokens,     \* per connection, the users whose token it may come with
    Present,    \* userId -> connection, for users connected from the start
    Senders,    \* goroutines that send or handle session events
    Duties,     \* per sender, the kinds of operations it carries out
    MaxOps,     \* bound: operations the senders carry out
    MaxStalls,  \* bound: clients that stop reading
    Nobody      \* no goroutine

\* An operation: "start" and "end" are the session events, "broadcast" is a
\* message to the participants, "toAdmin" one to the admin.
Kinds == {"start", "end", "broadcast", "toAdmin"}

ASSUME TokensAssumption == /\ SessionOf \in [Users -> Sessions]
                           /\ Admins \subseteq Users
                           /\ Tokens \in [Conns -> SUBSET Users]
ASSUME PresentAssumption == /\ IsMap(Present, Users, Conns)
                            /\ IsFiniteSet(DOMAIN Present)
                            /\ IsInjective(Present)
ASSUME DutiesAssumption == Duties \in [Senders -> SUBSET Kinds]
ASSUME BoundsAssumption == MaxOps \in Nat /\ MaxStalls \in Nat
ASSUME IdsAssumption == Conns \cap Senders = {} /\ Nobody \notin Conns \cup Senders

VARIABLES
    connections,  \* sessionId -> userId -> connection
    pending,      \* the goroutine whose Lock() keeps new readers out
    conns,        \* per connection: its user, its handler, its socket
    ops,          \* what each busy sender is doing
    opCount,      \* operations begun so far
    stalls,       \* clients that have stopped reading so far
    alive,        \* the process is up
    ended         \* history: sessions that have been unregistered

vars == <<connections, pending, conns, ops, opCount, stalls, alive, ended>>

-----------------------------------------------------------------------------
\* A ConnectionContext and the goroutine of its handler.  A socket is
\* "stalled" when the client reads no more and "gone" when it has left.
Conn == [user : Users,
         pc   : {"accepted", "registering", "welcoming", "reading",
                 "closed", "stuck"},
         sock : {"open", "stalled", "gone", "closed"}]

\* What a busy sender is doing.
Op == [kind      : Kinds,
       session   : Sessions,
       pc        : {"register", "snapshot", "print", "send", "write", "drop",
                    "unregister"},
       receivers : Seq(Conns)]     \* those still to be written to

IsAdmin(c) == conns[c].user \in Admins

\* GetConnections(s), as a set; the order of a Go map is any order.
Members(s) == IF s \in DOMAIN connections
              THEN {connections[s][u] : u \in DOMAIN connections[s]}
              ELSE {}

Registered(c) == c \in Members(SessionOf[conns[c].user])

\* The goroutines inside WriteMessage of c: senders, which hold the mutex of
\* the context, and the handler's welcome, which does not.
WritersOf(c) ==
    {g \in DOMAIN ops : ops[g].pc = "write" /\ Head(ops[g].receivers) = c}
        \cup {d \in {c} : conns[d].pc = "welcoming"}

\* Nothing has happened yet, or a game is under way with some users there.
Init ==
    /\ connections = [s \in {SessionOf[u] : u \in DOMAIN Present} |->
                        [u \in {v \in DOMAIN Present : SessionOf[v] = s} |->
                            Present[u]]]
    /\ pending = Nobody
    /\ conns = [c \in Range(Present) |->
                  [user |-> CHOOSE u \in DOMAIN Present : Present[u] = c,
                   pc |-> "reading", sock |-> "open"]]
    /\ ops = EmptyMap
    /\ opCount = 0
    /\ stalls = 0
    /\ alive = TRUE
    /\ ended = {}

-----------------------------------------------------------------------------
(* sync.RWMutex.                                                           *)

\* A mutant: every operation holds the read lock across its writes.
Readers_AllSends == {g \in DOMAIN ops : ops[g].pc \in {"send", "write", "drop"}}

\* SendToAdmin holds the read lock across its writes.
Readers == {g \in DOMAIN ops :
              ops[g].kind = "toAdmin" /\ ops[g].pc \in {"send", "write", "drop"}}

WantsLock(p) ==
    \/ /\ p \in DOMAIN conns
       /\ \/ conns[p].pc \in {"accepted", "registering"}
          \/ conns[p].pc = "reading" /\ conns[p].sock = "gone"
    \/ /\ p \in DOMAIN ops
       /\ ops[p].pc \in {"register", "drop", "unregister"}

\* Lock() has to wait for the readers, and no new reader is let in.
WaitForLock(p) ==
    /\ alive
    /\ WantsLock(p)
    /\ Readers # {}
    /\ pending = Nobody
    /\ pending' = p
    /\ UNCHANGED <<connections, conns, ops, opCount, stalls, alive, ended>>

Locked(p) == Readers = {} /\ pending \in {Nobody, p} /\ pending' = Nobody

RLocked == pending = Nobody

-----------------------------------------------------------------------------
(* The registry's own methods, called with the lock held.                  *)

\* A mutant: an existing session is registered again, and forgets everybody.
RegisterSession_Again(s) == connections' = Put(connections, s, EmptyMap)

RegisterSession(s) ==
    connections' = IF s \in DOMAIN connections THEN connections
                   ELSE Put(connections, s, EmptyMap)

\* A mutant: the entry is emptied, not removed.
UnregisterConnection_Empties(s, u) ==
    connections' = IF s \in DOMAIN connections
                   THEN Put(connections, s, Put(connections[s], u, Nobody))
                   ELSE connections

UnregisterConnection(s, u) ==
    connections' = IF s \in DOMAIN connections
                   THEN Put(connections, s, Delete(connections[s], u))
                   ELSE connections

-----------------------------------------------------------------------------
(* The handler of a connection, and its reader.                            *)

HandlerFrame == UNCHANGED <<ops, opCount, stalls, alive, ended>>

\* The token is valid and the connection upgraded.
Accept(c, u) ==
    /\ alive
    /\ c \notin DOMAIN conns
    /\ u \in Tokens[c]
    /\ conns' = Put(conns, c, [user |-> u, pc |-> "accepted", sock |-> "open"])
    /\ UNCHANGED <<connections, pending>>
    /\ HandlerFrame

\* Ensure session exists in registry.
EnsureSession(c) ==
    /\ conns[c].pc = "accepted"
    /\ Locked(c)
    /\ RegisterSession(SessionOf[conns[c].user])
    /\ conns' = [conns EXCEPT ![c].pc = "registering"]
    /\ HandlerFrame

\* RegisterConnection: a user's earlier connection is replaced, not closed;
\* the connection is closed when its session is gone again.  The welcome
\* message follows, written without the context's mutex.
RegisterConnection(c) ==
    LET u == conns[c].user
        s == SessionOf[u]
    IN  /\ conns[c].pc = "registering"
        /\ Locked(c)
        /\ IF s \in DOMAIN connections
           THEN /\ connections' = Put(connections, s, Put(connections[s], u, c))
                /\ conns' = [conns EXCEPT ![c].pc = "welcoming"]
           ELSE /\ conns' = [conns EXCEPT ![c].pc = "closed", ![c].sock = "closed"]
                /\ UNCHANGED connections
        /\ HandlerFrame

\* Its error is dropped; go handleRead.
EndWelcome(c) ==
    /\ conns[c].pc = "welcoming"
    /\ conns[c].sock # "stalled"
    /\ conns' = [conns EXCEPT ![c].pc = "reading"]
    /\ UNCHANGED <<connections, pending>>
    /\ HandlerFrame

\* Two writers at once make the library panic in one of them.  In the
\* handler it is recovered: the connection stays as it is, with no reader.
WelcomePanics(c) ==
    /\ conns[c].pc = "welcoming"
    /\ WritersOf(c) # {c}
    /\ conns' = [conns EXCEPT ![c].pc = "stuck"]
    /\ UNCHANGED <<connections, pending>>
    /\ HandlerFrame

\* A mutant: the connection is closed and stays registered.
Leave_StaysRegistered(c) ==
    /\ conns[c].pc = "reading"
    /\ conns[c].sock = "gone"
    /\ conns' = [conns EXCEPT ![c].pc = "closed", ![c].sock = "closed"]
    /\ UNCHANGED <<connections, pending>>
    /\ HandlerFrame

\* ReadMessage fails once the client has left, and handleRead cleans up:
\* whatever connection the user has now is removed.
Leave(c) ==
    /\ conns[c].pc = "reading"
    /\ conns[c].sock = "gone"
    /\ Locked(c)
    /\ UnregisterConnection(SessionOf[conns[c].user], conns[c].user)
    /\ conns' = [conns EXCEPT ![c].pc = "closed", ![c].sock = "closed"]
    /\ HandlerFrame

HandlerStep(c) ==
    /\ alive
    /\ c \in DOMAIN conns
    /\ \/ EnsureSession(c) \/ RegisterConnection(c)
       \/ EndWelcome(c) \/ WelcomePanics(c) \/ Leave(c)

\* The client stops reading, or leaves.
ClientStalls(c) ==
    /\ alive
    /\ stalls < MaxStalls
    /\ conns[c].sock = "open"
    /\ conns' = [conns EXCEPT ![c].sock = "stalled"]
    /\ stalls' = stalls + 1
    /\ UNCHANGED <<connections, pending, ops, opCount, alive, ended>>

ClientLeaves(c) ==
    /\ alive
    /\ conns[c].sock \in {"open", "stalled"}
    /\ conns' = [conns EXCEPT ![c].sock = "gone"]
    /\ UNCHANGED <<connections, pending>>
    /\ HandlerFrame

-----------------------------------------------------------------------------
(* Senders.                                                                *)

OpFrame == UNCHANGED <<conns, opCount, stalls, alive, ended>>

FirstPc == [start |-> "register", end |-> "snapshot", broadcast |-> "snapshot",
            toAdmin |-> "print"]

Begin(g, kind, s) ==
    /\ alive
    /\ g \notin DOMAIN ops
    /\ kind \in Duties[g]
    /\ opCount < MaxOps
    /\ opCount' = opCount + 1
    /\ ops' = Put(ops, g, [kind |-> kind, session |-> s, pc |-> FirstPc[kind],
                           receivers |-> <<>>])
    /\ UNCHANGED <<connections, pending, conns, stalls, alive, ended>>

\* ConsumeSessionStart.
StartSession(g) ==
    /\ ops[g].pc = "register"
    /\ Locked(g)
    /\ RegisterSession(ops[g].session)
    /\ ops' = Delete(ops, g)
    /\ OpFrame

\* A mutant: an element is removed from a slice of the original length.
RemoveAdmins_KeepsLength(receivers) ==
    [ok |-> TRUE,
     list |-> LET first == CHOOSE i \in 1 .. Len(receivers) + 1 :
                               i > Len(receivers) \/ IsAdmin(receivers[i])
              IN  [i \in DOMAIN receivers |->
                     IF i >= first /\ i < Len(receivers) THEN receivers[i + 1]
                                                         ELSE receivers[i]]]

\* One turn of the loop in BroadcastToSession: receivers[i+1:] panics behind
\* the end of what is left.
CutAt(st, i) ==
    IF ~st.ok \/ ~IsAdmin(st.array[i]) THEN st
    ELSE IF i > st.len THEN [st EXCEPT !.ok = FALSE]
    ELSE [st EXCEPT
            !.len = @ - 1,
            !.array = [j \in DOMAIN st.array |->
                         IF j >= i /\ j < st.len THEN st.array[j + 1]
                                                 ELSE st.array[j]]]

\* BroadcastToSession removes the admins from the slice it ranges over: the
\* loop runs over the original length and reads the array that the removals
\* shift.
RemoveAdmins(receivers) ==
    LET st == FoldLeftDomain(
                  CutAt,
                  [array |-> receivers, len |-> Len(receivers), ok |-> TRUE],
                  receivers)
    IN  [ok |-> st.ok, list |-> SubSeq(st.array, 1, st.len)]

\* Where an operation stands when the writes in rest remain.
Sending(g, rest) ==
    IF rest # <<>>
    THEN [ops EXCEPT ![g].pc = "send", ![g].receivers = rest]
    ELSE IF ops[g].kind = "end"
    THEN [ops EXCEPT ![g].pc = "unregister", ![g].receivers = rest]
    ELSE Delete(ops, g)

\* GetConnections, and the admin removed; SendQuestionStat skips admins one
\* by one instead.
Snapshot(g) ==
    LET all == Members(ops[g].session)
    IN  /\ ops[g].pc = "snapshot"
        /\ RLocked
        /\ \/ \E seq \in SetToSeqs(all) :
                 /\ RemoveAdmins(seq).ok
                 /\ ops' = Sending(g, RemoveAdmins(seq).list)
           \/ /\ ops[g].kind = "broadcast"
              /\ \E seq \in SetToSeqs({c \in all : ~IsAdmin(c)}) :
                    ops' = Sending(g, seq)
        /\ UNCHANGED <<connections, pending>>
        /\ OpFrame

\* The process ends, and its memory with it.
Die == /\ alive' = FALSE
       /\ connections' = EmptyMap
       /\ pending' = Nobody
       /\ conns' = EmptyMap
       /\ ops' = EmptyMap
       /\ UNCHANGED <<opCount, stalls, ended>>

\* The removal panics, in a goroutine nobody recovers.
SnapshotPanics(g) ==
    /\ ops[g].pc = "snapshot"
    /\ RLocked
    /\ \E all \in SetToSeqs(Members(ops[g].session)) : ~RemoveAdmins(all).ok
    /\ Die

\* SendToAdmin takes the read lock and finds the admins.
FindAdmin(g) ==
    /\ ops[g].pc = "print"
    /\ RLocked
    /\ \E list \in SetToSeqs({c \in Members(ops[g].session) : IsAdmin(c)}) :
          ops' = Sending(g, list)
    /\ UNCHANGED <<connections, pending>>
    /\ OpFrame

\* Before that it prints the map without the lock; iterating over a map that
\* another goroutine writes is a fatal error.
PrintFatal(g) ==
    /\ ops[g].pc = "print"
    /\ Readers = {}
    /\ \E p \in Conns \cup Senders : WantsLock(p)
    /\ Die

\* SendMessage: ctx.mu.Lock and WriteMessage for the next receiver.
BeginWrite(g) ==
    /\ ops[g].pc = "send"
    /\ WritersOf(Head(ops[g].receivers)) \cap Senders = {}
    /\ ops' = [ops EXCEPT ![g].pc = "write"]
    /\ UNCHANGED <<connections, pending>>
    /\ OpFrame

WriteSucceeds(g) ==
    /\ ops[g].pc = "write"
    /\ conns[Head(ops[g].receivers)].sock \in {"open", "gone"}
    /\ ops' = Sending(g, Tail(ops[g].receivers))
    /\ UNCHANGED <<connections, pending>>
    /\ OpFrame

WriteFails(g) ==
    /\ ops[g].pc = "write"
    /\ conns[Head(ops[g].receivers)].sock \in {"gone", "closed"}
    /\ ops' = [ops EXCEPT ![g].pc = "drop"]
    /\ UNCHANGED <<connections, pending>>
    /\ OpFrame

\* The welcome is being written at the same time.
WritePanics(g) ==
    /\ ops[g].pc = "write"
    /\ WritersOf(Head(ops[g].receivers)) # {g}
    /\ Die

\* A failed write unregisters whatever connection the user has now, under the
\* write lock.
Drop(g) ==
    LET u == conns[Head(ops[g].receivers)].user
    IN  /\ ops[g].pc = "drop"
        /\ Locked(g)
        /\ UnregisterConnection(SessionOf[u], u)
        /\ ops' = Sending(g, Tail(ops[g].receivers))
        /\ OpFrame

\* ConsumeSessionEnd, after the broadcast: UnregisterSession.
UnregisterSession(g) ==
    /\ ops[g].pc = "unregister"
    /\ Locked(g)
    /\ connections' = Delete(connections, ops[g].session)
    /\ ended' = ended \cup {ops[g].session}
    /\ ops' = Delete(ops, g)
    /\ UNCHANGED <<conns, opCount, stalls, alive>>

SenderStep(g) ==
    /\ alive
    /\ g \in DOMAIN ops
    /\ \/ StartSession(g) \/ Snapshot(g) \/ SnapshotPanics(g)
       \/ FindAdmin(g) \/ PrintFatal(g)
       \/ BeginWrite(g) \/ WriteSucceeds(g) \/ WriteFails(g) \/ WritePanics(g)
       \/ Drop(g) \/ UnregisterSession(g)

-----------------------------------------------------------------------------
Next ==
    \/ \E c \in Conns : \/ \E u \in Users : Accept(c, u)
                        \/ HandlerStep(c)
    \/ \E c \in DOMAIN conns : ClientStalls(c) \/ ClientLeaves(c)
    \/ \E g \in Senders :
          \/ \E kind \in Kinds, s \in Sessions : Begin(g, kind, s)
          \/ SenderStep(g)
    \/ \E p \in Conns \cup Senders : WaitForLock(p)

\* Goroutines that can run do run.  Nothing is assumed of the clients.
Fairness ==
    /\ \A c \in Conns : WF_vars(HandlerStep(c))
    /\ \A g \in Senders : WF_vars(SenderStep(g))
    /\ \A p \in Conns \cup Senders : WF_vars(WaitForLock(p))

Spec == Init /\ [][Next]_vars /\ Fairness

-----------------------------------------------------------------------------
(* Properties.                                                             *)

\* The types of the registry's map, of its contexts and of the operations.
TypeOK ==
    /\ DOMAIN connections \subseteq Sessions
    /\ \A s \in DOMAIN connections : IsMap(connections[s], Users, Conns)
    /\ pending \in Conns \cup Senders \cup {Nobody}
    /\ IsMap(conns, Conns, Conn)
    /\ IsMap(ops, Senders, Op)
    /\ opCount \in 0 .. MaxOps
    /\ stalls \in 0 .. MaxStalls
    /\ alive \in BOOLEAN
    /\ ended \subseteq Sessions

\* A connection in the registry is under its own user, and its handler still
\* runs: no connection is left behind after its reader has gone, although any
\* connection of the user may remove the entry and any may replace it.  (A
\* handler stopped by the library's panic is the exception.)
RegisteredIsServed ==
    \A s \in DOMAIN connections : \A u \in DOMAIN connections[s] :
        LET c == connections[s][u]
        IN  /\ conns[c].user = u
            /\ SessionOf[u] = s
            /\ conns[c].pc \in {"welcoming", "reading", "stuck"}

\* A client whose messages are read also gets the session's messages, with
\* two exceptions the code cannot tell apart from a departure: another
\* connection of the same user (whose exit, or failed write, removes this
\* one), and the end of the session.
ReaderIsRegistered ==
    \A c \in DOMAIN conns :
        conns[c].pc = "reading" /\ conns[c].sock = "open" =>
            \/ Registered(c)
            \/ \E d \in DOMAIN conns \ {c} : conns[d].user = conns[c].user
            \/ SessionOf[conns[c].user] \in ended

\* BroadcastToSession and SendQuestionStat set out to write to every
\* participant in the session exactly once, whatever the order of the map and
\* the number of admins, and to an admin only when the session has two.
ParticipantsOnce ==
    [][\A g \in (DOMAIN ops) \cap (DOMAIN ops') :
          ops[g].pc = "snapshot" /\ ops'[g].pc # "snapshot" =>
              LET list   == ops'[g].receivers
                  all    == Members(ops[g].session)
                  admins == {c \in all : IsAdmin(c)}
              IN  /\ IsInjective(list)
                  /\ all \ admins \subseteq ToSet(list)
                  /\ ToSet(list) \subseteq all
                  /\ ToSet(list) \cap admins # {} => Cardinality(admins) > 1]_vars

\* An operation that never ends has met one of three things, and stays there:
\* the process died, a client that reads no more blocks a write, or a write
\* to an admin failed inside SendToAdmin.  No other interleaving of locks and
\* waiting writers stops a sender.
HangsForAReason ==
    \A g \in Senders :
        <>[](g \in DOMAIN ops) =>
            <>[](\/ ~alive
                 \/ \E h \in DOMAIN ops : /\ ops[h].kind = "toAdmin"
                                          /\ ops[h].pc = "drop"
                 \/ \E c \in DOMAIN conns : /\ conns[c].sock = "stalled"
                                            /\ WritersOf(c) # {})

\* "It logs errors but does not halt on failure to individual connections"
\* (ws/connections.go:129): a sender whose write failed gets the lock it needs
\* to go on: it does not hold the read lock itself.
SendMessageGoesOn == \A g \in Readers : ops[g].pc # "drop"
=============================================================================
