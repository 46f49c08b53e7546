------------------------------- MODULE Lobby -------------------------------
(***************************************************************************)
(* The lobby of the Session Service (Handlers/ws_list_handler.go and       *)
(* DeleteUserFromSessionHandler.go): who waits for a game to begin, and    *)
(* the list of names every one of them is shown.                           *)
(*                                                                         *)
(* One session's room: sessions share nothing but the registry's lock.     *)
(* The maps connections and rooms change together, under the write lock,   *)
(* and are one map here.  A list is read under the lock, then the          *)
(* connections are, then each is written to under a mutex of its own.      *)
(* UnregisterConnection writes to the connection it removes while it holds *)
(* the registry's lock, and without that mutex.  Every connection has a    *)
(* goroutine that pings it; a client that does not answer for a minute is  *)
(* taken for gone.  The minute also passes when nobody reads what the      *)
(* client answers: its handler is still sending the list, or the pings     *)
(* wait for the mutex of a request that panicked.                          *)
(* UnregisterSession has no caller: rooms are kept.                        *)
(***************************************************************************)
EXTENDS Integers, Sequences, GoMap, SequencesExt

CONSTANTS
    Users,      \* user ids; every token has an id of its own
    Conns,      \* WebSocket connections, each with its handleRead goroutine
    Tokens,     \* per connection, the users whose token it may come with
    Kicks,      \* requests to DeleteUserHandler
    MaxStalls,  \* bound: clients that stop reading
    Nobody      \* no goroutine, no connection

ASSUME TokensAssumption == Tokens \in [Conns -> SUBSET Users]
ASSUME StallsAssumption == MaxStalls \in Nat
ASSUME IdsAssumption == Conns \cap Kicks = {} /\ Nobody \notin Conns \cup Kicks

VARIABLES
    opened,   \* the session has an entry in the registry
    members,  \* userId -> connection
    holder,   \* who holds the registry's lock beyond a step
    sock,     \* connection -> state of its socket
    proc,     \* handlers and requests
    expired,  \* connections that work and whose read deadline has passed
    stalls,   \* clients that have stopped reading so far
    alive,    \* the process is up
    shown,    \* history: connection -> the list it was sent last
    cut,      \* history: connections that worked when they were closed
    kicked,   \* history: users whose removal was asked for
    overlap   \* history: the room changed while a list was on its way

vars == <<opened, members, holder, sock, proc, expired, stalls, alive, shown,
          cut, kicked, overlap>>

\* What only the read deadline and a removal change.
deadlines == <<expired, cut>>

-----------------------------------------------------------------------------
\* A goroutine: "list", "targets", "send" and "write" are the broadcast of
\* the list; "closing" is a close message that cannot be written; "crashed"
\* a request whose panic the HTTP server has recovered, its locks still held.
Proc == [user    : Users,
         pc      : {"accepted", "joined", "list", "targets", "send", "write",
                    "reading", "leaving", "closing", "crashed", "done"},
         own     : Conns \cup {Nobody},   \* UserConn
         left    : BOOLEAN,               \* it has removed the user
         list    : SUBSET Users,
         queue   : Seq(Conns)]

Processes == Conns \cup Kicks

NewProc(u, pc) == [user |-> u, pc |-> pc, own |-> Nobody, left |-> FALSE,
                   list |-> {}, queue |-> <<>>]

\* Goroutines that hold the mutex of c.
MutexOf(c) == {p \in DOMAIN proc : /\ proc[p].pc \in {"write", "crashed"}
                                   /\ proc[p].queue # <<>>
                                   /\ Head(proc[p].queue) = c}

\* Goroutines with a list to send, or about to make one.
Listing == {p \in DOMAIN proc :
              proc[p].pc \notin {"accepted", "reading", "leaving", "done"}}

Init ==
    /\ opened = FALSE
    /\ members = EmptyMap
    /\ holder = Nobody
    /\ sock = EmptyMap
    /\ proc = EmptyMap
    /\ expired = {}
    /\ stalls = 0
    /\ alive = TRUE
    /\ shown = EmptyMap
    /\ cut = {}
    /\ kicked = {}
    /\ overlap = FALSE

\* A panic nobody recovers: the process ends, and its memory with it.
Die ==
    /\ alive' = FALSE
    /\ opened' = FALSE
    /\ members' = EmptyMap
    /\ holder' = Nobody
    /\ sock' = EmptyMap
    /\ proc' = EmptyMap
    /\ expired' = {}
    /\ shown' = EmptyMap
    /\ cut' = {}
    /\ UNCHANGED <<stalls, kicked, overlap>>

-----------------------------------------------------------------------------
(* Joining: NewWebSocketHandler, then handleRead.                          *)

\* A mutant: a session that exists is made anew.
RegisterSession_Again == opened' = TRUE /\ members' = EmptyMap

RegisterSession == opened' = TRUE /\ UNCHANGED members

Accept(c, u) ==
    /\ alive
    /\ c \notin DOMAIN proc
    /\ u \in Tokens[c]
    /\ holder = Nobody
    /\ RegisterSession
    /\ sock' = Put(sock, c, "open")
    /\ proc' = Put(proc, c, NewProc(u, "accepted"))
    /\ UNCHANGED <<holder, deadlines, stalls, alive, shown, kicked, overlap>>

\* RegisterConnection: replaces an earlier connection of the user.
RegisterConnection(c) ==
    /\ proc[c].pc = "accepted"
    /\ holder = Nobody
    /\ members' = Put(members, proc[c].user, c)
    /\ overlap' = (overlap \/ Listing # {})
    /\ proc' = [proc EXCEPT ![c].pc = "joined"]
    /\ UNCHANGED <<opened, holder, sock, deadlines, stalls, alive, shown, kicked>>

RoomFrame == UNCHANGED <<opened, members, holder, sock, stalls, alive, cut,
                         kicked, overlap>>

ProcFrame == RoomFrame /\ UNCHANGED expired

\* GetConnectionById: the user's connection by now, which may be another.  Its
\* read deadline is set, and the goroutine that pings it starts.
LookUp(c) ==
    /\ proc[c].pc = "joined"
    /\ holder = Nobody
    /\ proc[c].user \in DOMAIN members
    /\ proc' = [proc EXCEPT ![c].pc = "list", ![c].own = members[proc[c].user]]
    /\ expired' = expired \ {members[proc[c].user]}
    /\ UNCHANGED shown
    /\ RoomFrame

\* The user has been removed: a nil pointer is dereferenced.
LookUpPanics(c) ==
    /\ proc[c].pc = "joined"
    /\ holder = Nobody
    /\ proc[c].user \notin DOMAIN members
    /\ Die

-----------------------------------------------------------------------------
(* The list, after a join (handleRead) and after a removal (handleDelete). *)

\* GetRooms.
ReadList(p) ==
    /\ proc[p].pc = "list"
    /\ holder = Nobody
    /\ proc' = [proc EXCEPT ![p].pc = "targets", ![p].list = DOMAIN members]
    /\ UNCHANGED shown
    /\ ProcFrame

\* What follows the last write.
Sending(p, rest) ==
    [proc EXCEPT ![p].queue = rest,
                 ![p].list = IF rest = <<>> THEN {} ELSE @,
                 ![p].pc = IF rest # <<>> THEN "send"
                           ELSE IF proc[p].left THEN "done"
                           ELSE "reading"]

\* GetConnections, in any order.
ReadTargets(p) ==
    /\ proc[p].pc = "targets"
    /\ holder = Nobody
    /\ \E queue \in SetToSeqs({members[u] : u \in DOMAIN members}) :
          proc' = Sending(p, queue)
    /\ UNCHANGED shown
    /\ ProcFrame

BeginWrite(p) ==
    /\ proc[p].pc = "send"
    /\ MutexOf(Head(proc[p].queue)) = {}
    /\ proc' = [proc EXCEPT ![p].pc = "write"]
    /\ UNCHANGED shown
    /\ ProcFrame

\* The write returns when the client reads, or when its socket has failed;
\* an error is logged.
EndWrite(p) ==
    LET c == Head(proc[p].queue)
    IN  /\ proc[p].pc = "write"
        /\ sock[c] # "stalled"
        /\ shown' = IF sock[c] = "open" THEN Put(shown, c, proc[p].list) ELSE shown
        /\ proc' = Sending(p, Tail(proc[p].queue))
        /\ ProcFrame

-----------------------------------------------------------------------------
(* Leaving.                                                                *)

\* A mutant: without a read deadline, a client that vanishes is waited for.
ReadFails_NoDeadline(c) ==
    /\ proc[c].pc = "reading"
    /\ sock[proc[c].own] = "closed"
    /\ proc' = [proc EXCEPT ![c].pc = "leaving"]
    /\ UNCHANGED shown
    /\ ProcFrame

\* The handler's sending of the list waits: for the registry's lock, for a
\* client that does not read, or for the mutex of a request that panicked.
Held(c) ==
    \/ proc[c].pc \in {"list", "targets"} /\ holder # Nobody
    \/ /\ proc[c].pc \in {"send", "write"}
       /\ LET d == Head(proc[c].queue)
          IN  \/ sock[d] = "stalled"
              \/ \E p \in MutexOf(d) : proc[p].pc = "crashed"

\* The handlers that read the connection d, or are to.
Owners(d) == {c \in Conns \cap DOMAIN proc : proc[c].own = d}

\* A minute goes by in which no pong of a working client was read.
DeadlinePasses(d) ==
    /\ sock[d] = "open"
    /\ d \notin expired
    /\ \E c \in Owners(d) : Held(c) \/ proc[c].pc = "reading"
    /\ \A c \in Owners(d) : proc[c].pc = "reading" =>
          \E p \in MutexOf(d) : proc[p].pc = "crashed"
    /\ expired' = expired \cup {d}
    /\ UNCHANGED <<proc, shown>>
    /\ RoomFrame

\* ReadMessage fails: the socket was closed, or the deadline has passed.
ReadFails(c) ==
    /\ proc[c].pc = "reading"
    /\ sock[proc[c].own] # "open" \/ proc[c].own \in expired
    /\ proc' = [proc EXCEPT ![c].pc = "leaving"]
    /\ UNCHANGED shown
    /\ ProcFrame

\* DeleteUserHandler: any user of any session may be asked for.
Kick(k, u) ==
    /\ alive
    /\ k \notin DOMAIN proc
    /\ proc' = Put(proc, k, NewProc(u, "leaving"))
    /\ kicked' = kicked \cup {u}
    /\ UNCHANGED <<opened, members, holder, sock, deadlines, stalls, alive, shown,
                   overlap>>

\* UnregisterConnection for an unknown session: false, and nothing is sent.
UnregisterUnknown(p) ==
    /\ proc[p].pc = "leaving"
    /\ holder = Nobody
    /\ ~opened
    /\ proc' = [proc EXCEPT ![p].pc = "done"]
    /\ UNCHANGED shown
    /\ ProcFrame

\* A mutant: the entry is emptied and stays.
Removed_Empties(p) ==
    LET u == proc[p].user
    IN  /\ members' = Put(members, u, Nobody)
        /\ proc' = [proc EXCEPT ![p].pc = "list", ![p].left = TRUE]
        /\ UNCHANGED <<opened, sock, deadlines, stalls, alive, shown, kicked, overlap>>

\* The user's connection is closed, whichever it is, and the user removed.
Removed(p) ==
    LET u == proc[p].user
    IN  /\ members' = Delete(members, u)
        /\ sock' = IF u \in DOMAIN members
                   THEN [sock EXCEPT ![members[u]] = "closed"] ELSE sock
        /\ cut' = cut \cup {c \in {members[v] : v \in {u} \cap DOMAIN members} :
                              sock[c] = "open"}
        /\ proc' = [proc EXCEPT ![p].pc = "list", ![p].left = TRUE]
        /\ shown' = IF u \in DOMAIN members THEN Delete(shown, members[u])
                    ELSE shown
        /\ overlap' = (overlap \/ Listing \ {p} # {})
        /\ UNCHANGED <<opened, expired, stalls, alive, kicked>>

Stalled(u) == u \in DOMAIN members /\ sock[members[u]] = "stalled"

\* A mutant: nobody is told of the departure.
UnregisterConnection_Silent(p) ==
    /\ proc[p].pc = "leaving"
    /\ holder = Nobody
    /\ opened
    /\ members' = Delete(members, proc[p].user)
    /\ proc' = [proc EXCEPT ![p].pc = "done"]
    /\ UNCHANGED <<opened, holder, sock, deadlines, stalls, alive, shown, kicked,
                   overlap>>

\* UnregisterConnection, when the close message can be written.
UnregisterConnection(p) ==
    /\ proc[p].pc = "leaving"
    /\ holder = Nobody
    /\ opened
    /\ ~Stalled(proc[p].user)
    /\ Removed(p)
    /\ UNCHANGED holder

\* The close message waits for a client that reads no more, under the lock.
BeginClose(p) ==
    /\ proc[p].pc = "leaving"
    /\ holder = Nobody
    /\ Stalled(proc[p].user)
    /\ MutexOf(members[proc[p].user]) = {}
    /\ holder' = p
    /\ proc' = [proc EXCEPT ![p].pc = "closing"]
    /\ UNCHANGED <<opened, members, sock, deadlines, stalls, alive, shown, kicked,
                   overlap>>

EndClose(p) ==
    /\ proc[p].pc = "closing"
    /\ ~Stalled(proc[p].user)
    /\ Removed(p)
    /\ holder' = Nobody

\* The close message meets a list or a ping on the same connection, and the
\* library panics in one of the two goroutines: the process ends, unless it
\* is a request, whose panic is recovered without anything being unlocked.
CloseCollides(p) ==
    /\ proc[p].pc = "leaving"
    /\ holder = Nobody
    /\ proc[p].user \in DOMAIN members
    /\ LET c == members[proc[p].user]
       IN  /\ sock[c] # "closed"
           /\ MutexOf(c) # {} \/ \E d \in Conns \cap DOMAIN proc : proc[d].own = c
           /\ \/ Die
              \/ /\ p \in Kicks
                 /\ holder' = p
                 /\ proc' = [proc EXCEPT ![p].pc = "crashed"]
                 /\ UNCHANGED <<opened, members, sock, deadlines, stalls,
                                alive, shown, kicked, overlap>>
              \/ \E k \in Kicks \cap MutexOf(c) :
                    /\ proc' = [proc EXCEPT ![k].pc = "crashed"]
                    /\ UNCHANGED shown
                    /\ ProcFrame

-----------------------------------------------------------------------------
\* The client stops reading, or vanishes.
ClientStalls(c) ==
    /\ sock[c] = "open"
    /\ stalls < MaxStalls
    /\ sock' = [sock EXCEPT ![c] = "stalled"]
    /\ stalls' = stalls + 1
    /\ UNCHANGED <<opened, members, holder, proc, deadlines, alive, shown, kicked,
                   overlap>>

ClientLeaves(c) ==
    /\ sock[c] \in {"open", "stalled"}
    /\ sock' = [sock EXCEPT ![c] = "gone"]
    /\ UNCHANGED <<opened, members, holder, proc, deadlines, stalls, alive, shown,
                   kicked, overlap>>

HandlerStep(c) ==
    /\ c \in DOMAIN proc
    /\ RegisterConnection(c) \/ LookUp(c) \/ LookUpPanics(c) \/ ReadFails(c)

ProcStep(p) ==
    /\ p \in DOMAIN proc
    /\ \/ ReadList(p) \/ ReadTargets(p) \/ BeginWrite(p) \/ EndWrite(p)
       \/ UnregisterUnknown(p) \/ UnregisterConnection(p)
       \/ BeginClose(p) \/ EndClose(p) \/ CloseCollides(p)

Next ==
    \/ \E c \in Conns : \/ \E u \in Users : Accept(c, u)
                        \/ HandlerStep(c)
    \/ \E k \in Kicks, u \in Users : Kick(k, u)
    \/ \E p \in Processes : ProcStep(p)
    \/ \E c \in DOMAIN sock : ClientStalls(c) \/ ClientLeaves(c) \/ DeadlinePasses(c)

\* Goroutines that can run do run, and the read deadline passes.  Nothing is
\* assumed of the clients.
Fairness == /\ \A c \in Conns : WF_vars(HandlerStep(c))
            /\ \A p \in Processes : WF_vars(ProcStep(p))

Spec == Init /\ [][Next]_vars /\ Fairness

-----------------------------------------------------------------------------
(* Properties.                                                             *)

\* The types of the registry's maps, of the sockets and of the goroutines.
TypeOK ==
    /\ opened \in BOOLEAN
    /\ IsMap(members, Users, Conns)
    /\ holder \in Processes \cup {Nobody}
    /\ IsMap(sock, Conns, {"open", "stalled", "gone", "closed"})
    /\ IsMap(proc, Processes, Proc)
    /\ expired \subseteq Conns /\ cut \subseteq Conns
    /\ stalls \in 0 .. MaxStalls
    /\ alive \in BOOLEAN
    /\ IsMap(shown, Conns, SUBSET Users)
    /\ kicked \subseteq Users
    /\ overlap \in BOOLEAN

\* A user whose one connection works, or worked until the server closed it, is
\* in the room: unless somebody asked for the removal, or a minute went by in
\* which none of the client's answers was read, although they came.  Only then
\* can handleRead meet a nil connection, and only then is an open connection
\* without its entry.  A second connection of the same user breaks this, as
\* the exit of either removes the other.
RemovedForAReason ==
    \A c \in Conns \cap DOMAIN proc :
        LET u == proc[c].user
        IN  proc[c].pc # "accepted" /\ (sock[c] = "open" \/ c \in cut) =>
                \/ u \in DOMAIN members /\ members[u] = c
                \/ u \in kicked
                \/ c \in expired
                \/ \E d \in (Conns \cap DOMAIN proc) \ {c} : proc[d].user = u

\* Whoever waits in the room is shown exactly those who do, once no list is on
\* its way: as long as no join or removal fell into the sending of another
\* list.  If one did, an older list may have arrived last, and stays.
ShownIsCurrent ==
    Listing = {} /\ ~overlap =>
        \A u \in DOMAIN members : sock[members[u]] = "open" =>
            /\ members[u] \in DOMAIN shown
            /\ shown[members[u]] = DOMAIN members

\* A client that has vanished does not stay in the room for ever, unless the
\* lobby is stuck: the lock is held by a request that panicked or by a close
\* message to a client that reads no more, or such a client, or the mutex of
\* a request that panicked, blocks the sending of a list.
GhostsLeave ==
    \A u \in Users :
        <>[](u \in DOMAIN members /\ sock[members[u]] = "gone") =>
            <>[](\/ holder # Nobody
                 \/ \E p \in DOMAIN proc : proc[p].pc = "crashed"
                 \/ \E c \in DOMAIN sock : sock[c] = "stalled" /\ MutexOf(c) # {})
=============================================================================
