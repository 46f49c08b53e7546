---------------------------- MODULE Lobby_proofs ----------------------------
(***************************************************************************)
(* Proofs about Lobby: its invariants hold for any users, connections and  *)
(* requests, whoever joins, leaves, stops reading or is removed meanwhile. *)
(***************************************************************************)
EXTENDS Lobby, FiniteSetTheorems, TLAPS

-----------------------------------------------------------------------------
(* The inductive invariant.                                                *)

\* Goroutines that owe the room a list, and can still send it: those of
\* Listing that neither wait for a close message nor have panicked.
Listers == {p \in DOMAIN proc :
              proc[p].pc \in {"joined", "list", "targets", "send", "write"}}

Crashed == {p \in DOMAIN proc : proc[p].pc = "crashed"}

\* The connections of those in the room.
Room == {members[u] : u \in DOMAIN members}

\* The client behind c, if it reads, was sent the list of those present.
Seen(c) == sock[c] = "open" => c \in DOMAIN shown /\ shown[c] = DOMAIN members

\* A room has finitely many users, so that GetConnections can enumerate them.
RoomFinite == IsFiniteSet(DOMAIN members)

\* Every entry of the room is a connection that was accepted.
RoomConnected ==
    /\ DOMAIN sock = Conns \cap DOMAIN proc
    /\ Room \subseteq DOMAIN sock

\* DeleteUserHandler works on the user it was asked to remove.
KicksAsked == \A k \in Kicks \cap DOMAIN proc : proc[k].user \in kicked

\* Between two writes there is a connection left to write to.
QueueLeft == \A p \in DOMAIN proc :
                 proc[p].pc \in {"send", "write"} => proc[p].queue # <<>>

\* Without overlap there is one list on its way at most,
OneLister == ~overlap => \A p, q \in Listers : p = q

\* it names those present,
ListCurrent ==
    ~overlap => \A p \in Listers :
        proc[p].pc \in {"targets", "send", "write"} => proc[p].list = DOMAIN members

\* everybody it has not reached yet is still in the queue,
QueueComplete ==
    ~overlap => \A p \in Listers : proc[p].pc \in {"send", "write"} =>
        \A c \in Room :
            \/ \E i \in DOMAIN proc[p].queue : proc[p].queue[i] = c
            \/ Seen(c)

\* and after the last one everybody has seen it, unless its sender panicked.
Settled ==
    ~overlap /\ Listers = {} /\ Crashed = {} =>
        \A c \in Room : Seen(c)

LobbyInv ==
    /\ TypeOK
    /\ RoomFinite
    /\ RoomConnected
    /\ KicksAsked
    /\ QueueLeft
    /\ OneLister
    /\ ListCurrent
    /\ QueueComplete
    /\ Settled

-----------------------------------------------------------------------------
(* What a step does to the goroutines.                                     *)

\* GetConnections puts every connection of the room into the queue.
LEMMA QueueOfRoom ==
    ASSUME TypeOK, RoomFinite,
           NEW queue \in SetToSeqs(Room)
    PROVE  /\ queue \in Seq(Conns)
           /\ \A c \in Room : \E i \in DOMAIN queue : queue[i] = c
<1> DEFINE n == Cardinality(Room)
<1>1. Room \subseteq Conns
  BY DEF TypeOK, IsMap, Room
<1>2. members \in Surjection(DOMAIN members, Room)
  BY DEF TypeOK, IsMap, Surjection, Room
<1>3. IsFiniteSet(Room)
  BY <1>2, FS_Surjection DEF RoomFinite
<1>4. n \in Nat
  BY <1>3, FS_CardinalityType
<1>5. queue \in [1 .. n -> Room] /\ \A i, j \in 1 .. n : i # j => queue[i] # queue[j]
  BY DEF SetToSeqs
<1>6. queue \in Injection(1 .. n, Room)
  BY <1>5 DEF Injection, IsInjective
<1>7. Cardinality(1 .. n) = n
  BY <1>4, FS_Interval
<1> HIDE DEF n
<1>8. queue \in Surjection(1 .. n, Room)
  BY <1>3, <1>6, <1>7, FS_Injection DEF n
<1>9. \A c \in Room : \E i \in 1 .. n : queue[i] = c
  BY <1>8 DEF Surjection
<1> QED
  BY <1>1, <1>4, <1>5, <1>9

\* A step of one goroutine, which stays what it is and goes on at pc.
Moves(p, pc) ==
    /\ proc' = [q \in DOMAIN proc |-> proc'[q]]
    /\ \A q \in DOMAIN proc \ {p} : proc'[q] = proc[q]
    /\ proc'[p] \in Proc
    /\ proc'[p].pc = pc
    /\ proc'[p].user = proc[p].user

Pcs == {"accepted", "joined", "list", "targets", "send", "write", "reading",
        "leaving", "closing", "crashed", "done"}

\* The step that changes the goroutine's pc and nothing else of it.
LEMMA PcMoves ==
    ASSUME TypeOK, NEW p \in DOMAIN proc, NEW pc \in Pcs,
           proc' = [proc EXCEPT ![p].pc = pc]
    PROVE  /\ Moves(p, pc)
           /\ proc'[p].list = proc[p].list /\ proc'[p].queue = proc[p].queue
           /\ proc'[p].own = proc[p].own
<1>1. proc[p] \in Proc
  BY DEF TypeOK, IsMap
<1> QED
  BY <1>1 DEF Moves, Proc, Pcs

\* The goroutines keep their types.
LEMMA MovesType ==
    ASSUME TypeOK, NEW p \in DOMAIN proc, NEW pc, Moves(p, pc)
    PROVE  IsMap(proc', Processes, Proc) /\ DOMAIN proc' = DOMAIN proc
<1>1. \A q \in DOMAIN proc : proc'[q] \in Proc
  BY DEF Moves, TypeOK, IsMap
<1> QED
  BY <1>1 DEF TypeOK, IsMap, Moves

\* What follows a write, or the choice of the connections to write to.
LEMMA SendingMoves ==
    ASSUME TypeOK, NEW p \in DOMAIN proc, NEW rest \in Seq(Conns),
           proc' = Sending(p, rest)
    PROVE  \E pc \in {"send", "reading", "done"} :
              /\ Moves(p, pc)
              /\ pc = "send" <=> rest # <<>>
              /\ pc = "send" => proc'[p].list = proc[p].list
              /\ proc'[p].queue = rest
              /\ proc'[p].own = proc[p].own
<1> DEFINE x == proc[p]
           pc == IF rest # <<>> THEN "send"
                 ELSE IF x.left THEN "done" ELSE "reading"
           list == IF rest = <<>> THEN {} ELSE x.list
           x1 == [x EXCEPT !.queue = rest]
           x2 == [x1 EXCEPT !.list = list]
           y == [x2 EXCEPT !.pc = pc]
<1>1. x \in Proc
  BY DEF TypeOK, IsMap
<1>2. list \in SUBSET Users /\ pc \in {"send", "reading", "done"}
  BY <1>1 DEF Proc
<1>3. rest # <<>> => list = x.list /\ pc = "send"
  OBVIOUS
<1>4. rest = <<>> => pc # "send"
  OBVIOUS
<1>5. proc' = [q \in DOMAIN proc |-> IF q = p THEN y ELSE proc[q]]
  BY DEF Sending, TypeOK, IsMap
<1> HIDE DEF pc, list
<1>6. x1 \in Proc /\ x1.user = x.user /\ x1.own = x.own /\ x1.queue = rest
  BY <1>1 DEF Proc
<1> HIDE DEF x1
<1>7. x2 \in Proc /\ x2.user = x.user /\ x2.own = x.own /\ x2.queue = rest /\ x2.list = list
  BY <1>2, <1>6 DEF Proc
<1> HIDE DEF x2
<1>8. y \in Proc /\ y.user = x.user /\ y.own = x.own
      /\ y.queue = rest /\ y.list = list /\ y.pc = pc
  BY <1>2, <1>7 DEF Proc
<1> HIDE DEF y
<1>9. Moves(p, pc) /\ proc'[p] = y
  BY <1>5, <1>8 DEF Moves
<1> QED
  BY <1>2, <1>3, <1>4, <1>8, <1>9

-----------------------------------------------------------------------------
(* Initial states, and the end of the process.                             *)

\* Nobody is there yet.
LEMMA InitInv == Init => LobbyInv
<1> SUFFICES ASSUME Init PROVE LobbyInv
  OBVIOUS
<1>1. /\ DOMAIN members = {} /\ DOMAIN sock = {} /\ DOMAIN proc = {}
      /\ IsMap(members, Users, Conns) /\ IsMap(proc, Processes, Proc)
      /\ IsMap(sock, Conns, {"open", "stalled", "gone", "closed"})
      /\ IsMap(shown, Conns, SUBSET Users)
  BY DEF Init, EmptyMap, IsMap
<1>2. opened \in BOOLEAN /\ alive \in BOOLEAN /\ overlap \in BOOLEAN
  BY Zenon DEF Init
<1>3. /\ stalls \in 0 .. MaxStalls /\ kicked = {} /\ holder = Nobody
      /\ expired = {} /\ cut = {}
  BY StallsAssumption DEF Init
<1>4. IsFiniteSet(DOMAIN members)
  BY <1>1, FS_EmptySet
<1> QED
  BY <1>1, <1>2, <1>3, <1>4
  DEF LobbyInv, TypeOK, RoomFinite, RoomConnected, KicksAsked, QueueLeft,
      OneLister, ListCurrent, QueueComplete, Settled, Listers, Room

\* A panic that ends the process empties the room.
LEMMA DieInv ==
    ASSUME LobbyInv, Die
    PROVE  LobbyInv'
<1>1. /\ DOMAIN members' = {} /\ DOMAIN sock' = {} /\ DOMAIN proc' = {}
      /\ IsMap(members', Users, Conns) /\ IsMap(proc', Processes, Proc)
      /\ IsMap(sock', Conns, {"open", "stalled", "gone", "closed"})
      /\ IsMap(shown', Conns, SUBSET Users)
  BY DEF Die, EmptyMap, IsMap
<1>2. opened' \in BOOLEAN /\ alive' \in BOOLEAN /\ overlap' \in BOOLEAN
  BY Zenon DEF Die, LobbyInv, TypeOK
<1>3. /\ stalls' \in 0 .. MaxStalls /\ kicked' \subseteq Users /\ holder' = Nobody
      /\ expired' = {} /\ cut' = {}
  BY DEF Die, LobbyInv, TypeOK
<1>4. IsFiniteSet(DOMAIN members')
  BY <1>1, FS_EmptySet
<1> QED
  BY <1>1, <1>2, <1>3, <1>4
  DEF LobbyInv, TypeOK, RoomFinite, RoomConnected, KicksAsked, QueueLeft,
      OneLister, ListCurrent, QueueComplete, Settled, Listers, Room

-----------------------------------------------------------------------------
(* Steps that leave the room as it is.                                     *)

\* A goroutine goes on: a list it owed stays owed, up to date and with its
\* queue complete, or everybody has seen it in the end.
LEMMA MovesInv ==
    ASSUME LobbyInv, NEW p \in DOMAIN proc, NEW pc, Moves(p, pc),
           UNCHANGED <<opened, members, sock, stalls, alive, kicked, overlap>>,
           holder' \in Processes \cup {Nobody},
           expired' \subseteq Conns, cut' \subseteq Conns,
           IsMap(shown', Conns, SUBSET Users),
           proc[p].pc # "accepted", pc # "accepted",
           proc[p].pc = "crashed" => pc = "crashed",
           p \in Listers' => p \in Listers,
           pc \in {"send", "write"} => proc'[p].queue # <<>>,
           ~overlap =>
               /\ \A c \in Room : Seen(c) => Seen(c)'
               /\ pc \in {"targets", "send", "write"} =>
                     proc'[p].list = DOMAIN members
               /\ pc \in {"send", "write"} => \A c \in Room :
                     \/ \E i \in DOMAIN proc'[p].queue : proc'[p].queue[i] = c
                     \/ Seen(c)'
               /\ p \in Listers \ Listers' /\ pc # "crashed" =>
                     \A c \in Room : Seen(c)'
    PROVE  LobbyInv'
<1> USE DEF LobbyInv
<1>1. /\ members' = members /\ sock' = sock /\ overlap' = overlap
      /\ kicked' = kicked /\ DOMAIN proc' = DOMAIN proc
      /\ \A q \in DOMAIN proc : proc'[q].user = proc[q].user
      /\ \A q \in DOMAIN proc \ {p} : proc'[q] = proc[q]
      /\ proc'[p].pc = pc /\ Room' = Room
  BY MovesType DEF Moves, Room
<1>2. TypeOK'
  BY MovesType DEF TypeOK
<1>3. RoomFinite' /\ RoomConnected' /\ KicksAsked'
  BY <1>1 DEF RoomFinite, RoomConnected, KicksAsked
<1>4. QueueLeft'
  BY <1>1 DEF QueueLeft
<1>5. Listers' \subseteq Listers /\ Listers \ {p} \subseteq Listers'
  BY <1>1 DEF Listers
<1>6. OneLister'
  BY <1>1, <1>5 DEF OneLister
<1>7. ListCurrent'
  <2> SUFFICES ASSUME ~overlap, NEW q \in Listers',
                      proc'[q].pc \in {"targets", "send", "write"}
               PROVE  proc'[q].list = DOMAIN members
    BY <1>1 DEF ListCurrent
  <2>1. CASE q = p
    BY <1>1, <2>1
  <2>2. CASE q # p
    BY <1>1, <1>5, <2>2 DEF ListCurrent, Listers
  <2> QED
    BY <2>1, <2>2
<1>8. QueueComplete'
  <2> SUFFICES ASSUME ~overlap, NEW q \in Listers',
                      proc'[q].pc \in {"send", "write"}, NEW c \in Room
               PROVE  \/ \E i \in DOMAIN proc'[q].queue : proc'[q].queue[i] = c
                      \/ Seen(c)'
    BY <1>1 DEF QueueComplete
  <2>1. CASE q = p
    BY <1>1, <2>1
  <2>2. CASE q # p
    BY <1>1, <1>5, <2>2 DEF QueueComplete, Listers
  <2> QED
    BY <2>1, <2>2
<1>9. Settled'
  <2> SUFFICES ASSUME ~overlap', Listers' = {}, Crashed' = {}
               PROVE  \A c \in Room' : Seen(c)'
    BY DEF Settled
  <2>1. Crashed = {} /\ pc # "crashed"
    BY <1>1 DEF Crashed
  <2>2. CASE p \in Listers
    BY <1>1, <2>1, <2>2
  <2>3. CASE p \notin Listers
    BY <1>1, <1>5, <2>1, <2>3 DEF Settled
  <2> QED
    BY <2>2, <2>3
<1> QED
  BY <1>2, <1>3, <1>4, <1>6, <1>7, <1>8, <1>9

\* Neither the list nor the queue changes, and nothing is sent.
LEMMA PcMovesInv ==
    ASSUME LobbyInv, NEW p \in DOMAIN proc, NEW pc \in Pcs,
           Moves(p, pc), proc'[p].list = proc[p].list, proc'[p].queue = proc[p].queue,
           UNCHANGED <<opened, members, sock, stalls, alive, shown, kicked, overlap>>,
           holder' \in Processes \cup {Nobody},
           expired' \subseteq Conns, cut' \subseteq Conns,
           \/ proc[p].pc = "joined" /\ pc = "list"
           \/ proc[p].pc = "send" /\ pc = "write"
           \/ proc[p].pc = "reading" /\ pc = "leaving"
           \/ proc[p].pc = "leaving" /\ pc \in {"done", "closing", "crashed"}
           \/ proc[p].pc \in {"write", "crashed"} /\ pc = "crashed"
    PROVE  LobbyInv'
<1>1. p \in Listers' => p \in Listers
  BY MovesType DEF Listers, Moves, LobbyInv
<1>2. pc \in {"send", "write"} => proc[p].pc = "send" /\ p \in Listers
  BY DEF Listers
<1>3. p \in Listers => pc \in {"list", "write", "crashed"}
  BY DEF Listers
<1>4. p \in Listers \ Listers' => pc = "crashed"
  BY <1>3, MovesType DEF Listers, Moves, LobbyInv
<1>5. \A c : Seen(c)' <=> Seen(c)
  BY DEF Seen
<1>6. IsMap(shown', Conns, SUBSET Users)
  BY DEF LobbyInv, TypeOK
<1>7. pc \in {"send", "write"} => proc'[p].queue # <<>>
  BY <1>2 DEF LobbyInv, QueueLeft
<1>8. ~overlap /\ pc \in {"targets", "send", "write"} =>
         /\ proc'[p].list = DOMAIN members
         /\ \A c \in Room :
               \/ \E i \in DOMAIN proc'[p].queue : proc'[p].queue[i] = c
               \/ Seen(c)'
  BY <1>2, <1>5 DEF LobbyInv, ListCurrent, QueueComplete
<1>9. /\ proc[p].pc # "accepted" /\ pc # "accepted"
      /\ proc[p].pc = "crashed" => pc = "crashed"
  OBVIOUS
<1> QED
  BY <1>1, <1>4, <1>5, <1>6, <1>7, <1>8, <1>9, MovesInv

\* GetRooms, after a join or a removal: the list is that of the room.
LEMMA ReadListInv ==
    ASSUME LobbyInv, NEW p \in DOMAIN proc, ReadList(p)
    PROVE  LobbyInv'
<1> DEFINE x == proc[p]
<1>1. x \in Proc /\ DOMAIN members \subseteq Users /\ p \in Processes
  BY DEF LobbyInv, TypeOK, IsMap
<1>2. /\ Moves(p, "targets") /\ proc'[p].list = DOMAIN members /\ x.pc = "list"
      /\ UNCHANGED <<opened, members, sock, stalls, alive, shown, kicked, overlap>>
      /\ holder' \in Processes \cup {Nobody}
      /\ expired' \subseteq Conns /\ cut' \subseteq Conns
      /\ IsMap(shown', Conns, SUBSET Users)
  BY <1>1 DEF ReadList, ProcFrame, RoomFrame, Moves, Proc, LobbyInv, TypeOK
<1>3. p \in Listers /\ p \in Listers'
  BY <1>2, MovesType DEF Listers, Moves, LobbyInv
<1>4. \A c : Seen(c)' <=> Seen(c)
  BY <1>2 DEF Seen
<1> QED
  BY <1>2, <1>3, <1>4, MovesInv

\* GetConnections: whoever is in the room is in the queue; when nobody is,
\* the list is nobody's.
LEMMA ReadTargetsInv ==
    ASSUME LobbyInv, NEW p \in DOMAIN proc, ReadTargets(p)
    PROVE  LobbyInv'
<1> USE DEF LobbyInv
<1>1. PICK queue \in SetToSeqs(Room) :
         proc' = Sending(p, queue)
  BY DEF ReadTargets, Room
<1>2. /\ queue \in Seq(Conns)
      /\ \A c \in Room : \E i \in DOMAIN queue : queue[i] = c
  BY QueueOfRoom
<1>3. PICK pc \in {"send", "reading", "done"} :
         /\ Moves(p, pc)
         /\ pc = "send" <=> queue # <<>>
         /\ pc = "send" => proc'[p].list = proc[p].list
         /\ proc'[p].queue = queue
  BY <1>1, <1>2, SendingMoves
<1>4. /\ proc[p].pc = "targets"
      /\ UNCHANGED <<opened, members, sock, stalls, alive, shown, kicked, overlap>>
      /\ holder' \in Processes \cup {Nobody}
      /\ expired' \subseteq Conns /\ cut' \subseteq Conns
      /\ IsMap(shown', Conns, SUBSET Users)
  BY DEF ReadTargets, ProcFrame, RoomFrame, TypeOK
<1>5. p \in Listers
  BY <1>4 DEF Listers
<1>6. \A c : Seen(c)' <=> Seen(c)
  BY <1>4 DEF Seen
<1>7. ~overlap /\ pc = "send" => proc'[p].list = DOMAIN members
  BY <1>3, <1>4, <1>5 DEF ListCurrent
<1>8. queue = <<>> => Room = {}
  BY <1>2
<1>9. p \in Listers \ Listers' => queue = <<>>
  BY <1>3, MovesType DEF Listers, Moves
<1> QED
  BY <1>2, <1>3, <1>4, <1>5, <1>6, <1>7, <1>8, <1>9, MovesInv, ZenonT(40)

\* A write ends: its connection, if it still reads, has seen the list, and it
\* was the first of the queue.
LEMMA EndWriteInv ==
    ASSUME LobbyInv, NEW p \in DOMAIN proc, EndWrite(p)
    PROVE  LobbyInv'
<1> USE DEF LobbyInv
<1> DEFINE x == proc[p]
<1> PICK c, rest : c = Head(x.queue) /\ rest = Tail(x.queue)
  OBVIOUS
<1>1. /\ x.pc = "write" /\ p \in Listers
      /\ x \in Proc /\ x.queue # <<>>
  BY DEF EndWrite, Listers, TypeOK, IsMap, QueueLeft
<1>2. x.queue \in Seq(Conns) /\ x.list \in SUBSET Users
  BY <1>1 DEF Proc
<1>3. /\ c \in Conns /\ rest \in Seq(Conns)
      /\ \A d : (\E i \in DOMAIN x.queue : x.queue[i] = d) =>
                   d = c \/ \E i \in DOMAIN rest : rest[i] = d
  <2>1. c \in Conns /\ rest \in Seq(Conns) /\ Len(rest) = Len(x.queue) - 1
        /\ Len(x.queue) \in Nat \ {0}
    BY <1>1, <1>2
  <2>2. \A i \in 1 .. Len(rest) : rest[i] = x.queue[i + 1]
    BY <1>1, <1>2
  <2>3. ASSUME NEW d, NEW i \in DOMAIN x.queue, x.queue[i] = d, i # 1
        PROVE  i - 1 \in DOMAIN rest /\ rest[i - 1] = d
    <3>1. i \in 1 .. Len(x.queue) /\ i - 1 \in 1 .. Len(rest) /\ (i - 1) + 1 = i
      BY <1>2, <2>1, <2>3
    <3> QED
      BY <2>1, <2>2, <2>3, <3>1
  <2>4. x.queue[1] = c
    BY <1>1, <1>2
  <2> QED
    BY <2>1, <2>3, <2>4
<1>4. PICK pc \in {"send", "reading", "done"} :
         /\ Moves(p, pc)
         /\ pc = "send" <=> rest # <<>>
         /\ pc = "send" => proc'[p].list = x.list
         /\ proc'[p].queue = rest
  <2>1. proc' = Sending(p, rest) /\ rest \in Seq(Conns)
    BY <1>3 DEF EndWrite
  <2> HIDE DEF x
  <2>2. \E pc \in {"send", "reading", "done"} :
           /\ Moves(p, pc)
           /\ pc = "send" <=> rest # <<>>
           /\ pc = "send" => proc'[p].list = proc[p].list
           /\ proc'[p].queue = rest
           /\ proc'[p].own = proc[p].own
    BY <2>1, SendingMoves, Zenon
  <2> QED
    BY <2>2 DEF x
<1>5. /\ UNCHANGED <<opened, members, sock, stalls, alive, kicked, overlap>>
      /\ holder' \in Processes \cup {Nobody}
      /\ expired' \subseteq Conns /\ cut' \subseteq Conns
      /\ shown' = IF sock[c] = "open" THEN Put(shown, c, x.list) ELSE shown
  BY DEF EndWrite, ProcFrame, RoomFrame, TypeOK
<1>6. IsMap(shown', Conns, SUBSET Users)
  BY <1>2, <1>3, <1>5 DEF TypeOK, IsMap, Put
<1>7. ~overlap => x.list = DOMAIN members
  BY <1>1 DEF ListCurrent
<1>8. ~overlap => Seen(c)'
  BY <1>5, <1>7 DEF Seen, Put
<1>9. \A d : d # c => (Seen(d)' <=> Seen(d))
  BY <1>5 DEF Seen, Put
<1>10. ~overlap => \A d \in Room : \/ \E i \in DOMAIN rest : rest[i] = d
                                   \/ Seen(d)'
  <2> SUFFICES ASSUME ~overlap, NEW d \in Room
               PROVE  (\E i \in DOMAIN rest : rest[i] = d) \/ Seen(d)'
    OBVIOUS
  <2>1. (\E i \in DOMAIN x.queue : x.queue[i] = d) \/ Seen(d)
    BY <1>1 DEF QueueComplete
  <2> QED
    BY <1>3, <1>8, <1>9, <2>1
<1>11. ~overlap => \A d \in Room : Seen(d) => Seen(d)'
  BY <1>8, <1>9
<1>12. p \in Listers \ Listers' => rest = <<>>
  BY <1>4, MovesType DEF Listers, Moves
<1>13. rest = <<>> => DOMAIN rest = {}
  OBVIOUS
<1>14. ~overlap /\ p \in Listers \ Listers' => \A d \in Room : Seen(d)'
  BY <1>10, <1>12, <1>13
<1> QED
  BY <1>1, <1>4, <1>5, <1>6, <1>7, <1>10, <1>11, <1>14, MovesInv

-----------------------------------------------------------------------------
(* Steps that change the room.                                             *)

\* Whoever changes the room owes it a list; if another was on its way, that
\* is an overlap.
LEMMA RoomChangesInv ==
    ASSUME LobbyInv, NEW p \in DOMAIN proc, NEW pc \in {"joined", "list"},
           Moves(p, pc), TypeOK', RoomFinite', RoomConnected',
           overlap' = (overlap \/ Listing \ {p} # {}),
           kicked' = kicked
    PROVE  LobbyInv'
<1> USE DEF LobbyInv
<1>1. /\ DOMAIN proc' = DOMAIN proc /\ proc'[p].pc = pc
      /\ \A q \in DOMAIN proc : proc'[q].user = proc[q].user
      /\ \A q \in DOMAIN proc \ {p} : proc'[q] = proc[q]
  BY MovesType DEF Moves
<1>2. KicksAsked'
  BY <1>1 DEF KicksAsked
<1>3. QueueLeft'
  BY <1>1 DEF QueueLeft
<1>4. p \in Listers'
  BY <1>1 DEF Listers
<1>5. ~overlap' => Listing \ {p} = {}
  BY Zenon
<1>6. Listing \ {p} = {} => Listers' = {p}
  BY <1>1, <1>4 DEF Listers, Listing
<1>7. OneLister'
  BY <1>5, <1>6 DEF OneLister
<1>8. ListCurrent' /\ QueueComplete'
  BY <1>1, <1>5, <1>6 DEF ListCurrent, QueueComplete
<1>9. Settled'
  BY <1>4 DEF Settled
<1> QED
  BY <1>2, <1>3, <1>7, <1>8, <1>9

\* RegisterConnection: the user has its newest connection in the room.
LEMMA RegisterConnectionInv ==
    ASSUME LobbyInv, NEW c \in Conns \cap DOMAIN proc, RegisterConnection(c)
    PROVE  LobbyInv'
<1> USE DEF LobbyInv
<1> PICK u : u = proc[c].user
  OBVIOUS
<1>1. u \in Users /\ proc[c].pc = "accepted"
  BY DEF RegisterConnection, TypeOK, IsMap, Proc
<1>2. Moves(c, "joined")
  BY PcMoves DEF RegisterConnection, Pcs
<1>3. /\ DOMAIN proc' = DOMAIN proc
      /\ \A q \in DOMAIN proc : proc'[q].user = proc[q].user
      /\ \A q \in DOMAIN proc \ {c} : proc'[q] = proc[q]
  BY <1>2, MovesType DEF Moves
<1>4. /\ members' = Put(members, u, c)
      /\ UNCHANGED <<opened, holder, sock, expired, cut, stalls, alive, shown,
                     kicked>>
  BY DEF RegisterConnection, deadlines
<1>5. /\ DOMAIN members' = DOMAIN members \cup {u}
      /\ members'[u] = c
      /\ \A v \in DOMAIN members \ {u} : members'[v] = members[v]
      /\ IsMap(members', Users, Conns)
  BY <1>1, <1>4 DEF TypeOK, IsMap, Put
<1>6. overlap' = (overlap \/ Listing \ {c} # {})
  <2>1. c \notin Listing
    BY <1>1 DEF Listing
  <2>2. Listing \ {c} = Listing
    BY <2>1
  <2> QED
    BY <2>2 DEF RegisterConnection
<1>7. overlap' \in BOOLEAN
  BY <1>6, Zenon
<1>8. TypeOK'
  BY <1>2, <1>4, <1>5, <1>7, MovesType DEF TypeOK
<1>9. RoomFinite'
  BY <1>5, FS_AddElement DEF RoomFinite
<1>10. RoomConnected'
  BY <1>3, <1>4, <1>5 DEF RoomConnected, Room
<1> QED
  BY <1>2, <1>4, <1>6, <1>8, <1>9, <1>10, RoomChangesInv

\* UnregisterConnection, at its end: the user is out of the room, and its
\* connection closed.
LEMMA RemovedInv ==
    ASSUME LobbyInv, NEW p \in DOMAIN proc, Removed(p),
           proc[p].pc \in {"leaving", "closing"},
           holder' \in Processes \cup {Nobody}
    PROVE  LobbyInv'
<1> USE DEF LobbyInv
<1> PICK u : u = proc[p].user
  OBVIOUS
<1>1. proc[p] \in Proc /\ p \in Conns \cup Kicks
  BY DEF TypeOK, IsMap, Processes
<1>2. Moves(p, "list")
  BY <1>1 DEF Removed, Moves, Proc
<1>3. /\ DOMAIN proc' = DOMAIN proc
      /\ \A q \in DOMAIN proc : proc'[q].user = proc[q].user
      /\ \A q \in DOMAIN proc \ {p} : proc'[q] = proc[q]
  BY <1>2, MovesType DEF Moves
<1>4. /\ members' = Delete(members, u)
      /\ UNCHANGED <<opened, expired, stalls, alive, kicked>>
      /\ overlap' = (overlap \/ Listing \ {p} # {})
  BY DEF Removed
<1>5. /\ DOMAIN members' = DOMAIN members \ {u}
      /\ \A v \in DOMAIN members \ {u} : members'[v] = members[v]
      /\ IsMap(members', Users, Conns)
  BY <1>4 DEF TypeOK, IsMap, Delete
<1>6. /\ DOMAIN sock' = DOMAIN sock
      /\ \A c \in DOMAIN sock : sock'[c] = "open" => sock[c] = "open"
      /\ \A c \in DOMAIN sock :
            u \in DOMAIN members /\ members[u] = c => sock'[c] = "closed"
      /\ IsMap(sock', Conns, {"open", "stalled", "gone", "closed"})
  BY DEF Removed, TypeOK, IsMap
<1>7. IsMap(shown', Conns, SUBSET Users)
  BY DEF Removed, TypeOK, IsMap, Delete
<1>8. overlap' \in BOOLEAN /\ cut' \subseteq Conns
  <2>1. overlap' \in BOOLEAN
    BY <1>4, Zenon
  <2>2. cut' \subseteq Conns
    BY DEF Removed, TypeOK, IsMap
  <2> QED
    BY <2>1, <2>2
<1>9. TypeOK'
  BY <1>2, <1>4, <1>5, <1>6, <1>7, <1>8, MovesType DEF TypeOK
<1>10. RoomFinite'
  BY <1>5, FS_RemoveElement DEF RoomFinite
<1>11. RoomConnected'
  BY <1>3, <1>5, <1>6 DEF RoomConnected, Room
<1> QED
  BY <1>2, <1>4, <1>9, <1>10, <1>11, RoomChangesInv

-----------------------------------------------------------------------------
(* New goroutines, and the clients.                                        *)

\* Accept and Kick: a goroutine that has nothing to do with a list yet.
LEMMA NewProcInv ==
    ASSUME LobbyInv, NEW p \in Processes \ DOMAIN proc, NEW u \in Users,
           NEW pc \in {"accepted", "leaving"},
           proc' = Put(proc, p, NewProc(u, pc)),
           p \in Conns => pc = "accepted" /\ sock' = Put(sock, p, "open"),
           p \in Kicks => sock' = sock /\ u \in kicked',
           kicked \subseteq kicked', kicked' \subseteq Users, opened' \in BOOLEAN,
           UNCHANGED <<members, holder, deadlines, stalls, alive, shown, overlap>>
    PROVE  LobbyInv'
<1> USE DEF LobbyInv
<1>1. /\ DOMAIN proc' = DOMAIN proc \cup {p}
      /\ \A q \in DOMAIN proc : proc'[q] = proc[q]
      /\ proc'[p] = NewProc(u, pc)
      /\ IsMap(proc', Processes, Proc)
  <2>1. NewProc(u, pc) \in Proc
    BY DEF NewProc, Proc
  <2> QED
    BY <2>1 DEF TypeOK, IsMap, Put
<1>2. proc'[p].pc = pc /\ proc'[p].user = u
  BY <1>1 DEF NewProc
<1>3. /\ DOMAIN sock' = Conns \cap DOMAIN proc'
      /\ DOMAIN sock \subseteq DOMAIN sock'
      /\ \A c \in DOMAIN sock : sock'[c] = sock[c]
      /\ IsMap(sock', Conns, {"open", "stalled", "gone", "closed"})
  <2>1. CASE p \in Conns
    BY <1>1, <2>1 DEF RoomConnected, TypeOK, IsMap, Put
  <2>2. CASE p \in Kicks
    BY <1>1, <2>2, IdsAssumption DEF RoomConnected, TypeOK
  <2> QED
    BY <2>1, <2>2 DEF Processes
<1>4. TypeOK'
  BY <1>1, <1>3 DEF TypeOK, deadlines
<1>5. RoomFinite' /\ RoomConnected' /\ Room' = Room
  BY <1>3 DEF RoomFinite, RoomConnected, Room
<1>6. KicksAsked' /\ QueueLeft'
  BY <1>1, <1>2, IdsAssumption DEF KicksAsked, QueueLeft, Processes
<1>7. Listers' = Listers /\ Crashed' = Crashed
  BY <1>1, <1>2 DEF Listers, Crashed
<1>8. \A c \in Room : Seen(c)' <=> Seen(c)
  BY <1>3 DEF Seen, RoomConnected
<1>9. /\ overlap' = overlap /\ members' = members
      /\ \A q \in Listers : q \in DOMAIN proc /\ proc'[q] = proc[q]
  BY <1>1 DEF Listers
<1>10. OneLister' /\ ListCurrent'
  BY <1>7, <1>9 DEF OneLister, ListCurrent
<1>11. QueueComplete' /\ Settled'
  BY <1>5, <1>7, <1>8, <1>9 DEF QueueComplete, Settled
<1> QED
  BY <1>4, <1>5, <1>6, <1>10, <1>11

\* A client reads no more, or vanishes, or is not read in time.
LEMMA ClientInv ==
    ASSUME LobbyInv, NEW c \in DOMAIN sock,
           ClientStalls(c) \/ ClientLeaves(c) \/ DeadlinePasses(c)
    PROVE  LobbyInv'
<1> USE DEF LobbyInv
<1>1. /\ DOMAIN sock' = DOMAIN sock
      /\ \A d \in DOMAIN sock : sock'[d] = "open" => sock[d] = "open"
      /\ IsMap(sock', Conns, {"open", "stalled", "gone", "closed"})
  BY DEF ClientStalls, ClientLeaves, DeadlinePasses, RoomFrame, TypeOK, IsMap
<1>2. /\ stalls' \in 0 .. MaxStalls
      /\ expired' \subseteq Conns /\ cut' \subseteq Conns
  BY StallsAssumption
  DEF ClientStalls, ClientLeaves, DeadlinePasses, RoomFrame, deadlines, TypeOK, IsMap
<1>3. UNCHANGED <<opened, members, holder, proc, alive, shown, kicked, overlap>>
  BY DEF ClientStalls, ClientLeaves, DeadlinePasses, RoomFrame
<1>4. TypeOK'
  BY <1>1, <1>2, <1>3 DEF TypeOK
<1>5. RoomFinite' /\ RoomConnected' /\ KicksAsked' /\ QueueLeft' /\ Room' = Room
  BY <1>1, <1>3 DEF RoomFinite, RoomConnected, KicksAsked, QueueLeft, Room
<1>6. Listers' = Listers /\ Crashed' = Crashed
  BY <1>3 DEF Listers, Crashed
<1>7. \A d \in Room : Seen(d) => Seen(d)'
  BY <1>1, <1>3 DEF Seen, RoomConnected
<1>8. OneLister' /\ ListCurrent'
  BY <1>3, <1>6 DEF OneLister, ListCurrent
<1>9. QueueComplete' /\ Settled'
  BY <1>3, <1>5, <1>6, <1>7 DEF QueueComplete, Settled
<1> QED
  BY <1>4, <1>5, <1>8, <1>9

-----------------------------------------------------------------------------
(* Every step.                                                             *)

\* LookUp: the user's connection by now is the one that will be read.
LEMMA LookUpInv ==
    ASSUME LobbyInv, NEW c \in DOMAIN proc, LookUp(c)
    PROVE  LobbyInv'
<1>1. proc[c] \in Proc /\ proc[c].pc = "joined"
  BY DEF LookUp, LobbyInv, TypeOK, IsMap
<1>2. members[proc[c].user] \in Conns
  BY DEF LookUp, LobbyInv, TypeOK, IsMap
<1>3. /\ Moves(c, "list")
      /\ proc'[c].list = proc[c].list /\ proc'[c].queue = proc[c].queue
  BY <1>1, <1>2 DEF LookUp, Moves, Proc
<1>4. /\ UNCHANGED <<opened, members, sock, stalls, alive, shown, kicked, overlap>>
      /\ holder' \in Processes \cup {Nobody}
      /\ expired' \subseteq Conns /\ cut' \subseteq Conns
  BY DEF LookUp, RoomFrame, LobbyInv, TypeOK
<1> QED
  BY <1>1, <1>3, <1>4, PcMovesInv DEF Pcs

\* The handler of a connection.
LEMMA HandlerStepInv ==
    ASSUME LobbyInv, NEW c \in Conns, HandlerStep(c)
    PROVE  LobbyInv'
<1>1. c \in Conns \cap DOMAIN proc
  BY DEF HandlerStep
<1>2. CASE RegisterConnection(c)
  BY <1>1, <1>2, RegisterConnectionInv
<1>3. CASE LookUp(c)
  BY <1>1, <1>3, LookUpInv
<1>4. CASE LookUpPanics(c)
  BY <1>4, DieInv DEF LookUpPanics
<1>5. CASE ReadFails(c)
  <2>1. /\ Moves(c, "leaving") /\ proc[c].pc = "reading"
        /\ proc'[c].list = proc[c].list /\ proc'[c].queue = proc[c].queue
    BY <1>1, <1>5, PcMoves DEF ReadFails, Pcs, LobbyInv
  <2>2. /\ UNCHANGED <<opened, members, sock, stalls, alive, shown, kicked, overlap>>
        /\ holder' \in Processes \cup {Nobody}
        /\ expired' \subseteq Conns /\ cut' \subseteq Conns
    BY <1>5 DEF ReadFails, ProcFrame, RoomFrame, LobbyInv, TypeOK
  <2> QED
    BY <1>1, <2>1, <2>2, PcMovesInv DEF Pcs
<1> QED
  BY <1>2, <1>3, <1>4, <1>5 DEF HandlerStep

\* A close message meets another write: the process ends, or a request stops
\* where it is.
LEMMA CloseCollidesInv ==
    ASSUME LobbyInv, NEW p \in DOMAIN proc, CloseCollides(p)
    PROVE  LobbyInv'
<1>1. CASE Die
  BY <1>1, DieInv
<1>2. CASE /\ holder' = p
           /\ proc' = [proc EXCEPT ![p].pc = "crashed"]
           /\ UNCHANGED <<opened, members, sock, deadlines, stalls, alive, shown,
                          kicked, overlap>>
  <2>1. /\ Moves(p, "crashed") /\ proc[p].pc = "leaving"
        /\ proc'[p].list = proc[p].list /\ proc'[p].queue = proc[p].queue
    BY <1>2, PcMoves DEF CloseCollides, Pcs, LobbyInv
  <2>2. /\ holder' \in Processes \cup {Nobody}
        /\ expired' \subseteq Conns /\ cut' \subseteq Conns
    BY <1>2 DEF LobbyInv, TypeOK, IsMap, deadlines
  <2> QED
    BY <1>2, <2>1, <2>2, PcMovesInv DEF Pcs
<1>3. CASE \E c : \E k \in Kicks \cap MutexOf(c) :
              /\ proc' = [proc EXCEPT ![k].pc = "crashed"]
              /\ UNCHANGED shown
              /\ ProcFrame
  <2>1. PICK c : \E k \in Kicks \cap MutexOf(c) :
              /\ proc' = [proc EXCEPT ![k].pc = "crashed"]
              /\ UNCHANGED shown
              /\ ProcFrame
    BY <1>3
  <2>2. PICK k \in Kicks \cap MutexOf(c) :
              /\ proc' = [proc EXCEPT ![k].pc = "crashed"]
              /\ UNCHANGED shown
              /\ ProcFrame
    BY <2>1
  <2>3. k \in DOMAIN proc /\ proc[k].pc \in {"write", "crashed"}
    BY DEF MutexOf
  <2>4. /\ Moves(k, "crashed")
        /\ proc'[k].list = proc[k].list /\ proc'[k].queue = proc[k].queue
    BY <2>2, <2>3, PcMoves DEF Pcs, LobbyInv
  <2>5. /\ UNCHANGED <<opened, members, sock, stalls, alive, shown, kicked, overlap>>
        /\ holder' \in Processes \cup {Nobody}
        /\ expired' \subseteq Conns /\ cut' \subseteq Conns
    BY <2>2 DEF ProcFrame, RoomFrame, LobbyInv, TypeOK
  <2> QED
    BY <2>3, <2>4, <2>5, PcMovesInv DEF Pcs
<1> QED
  BY <1>1, <1>2, <1>3 DEF CloseCollides

\* The list, and the removal of a user.
LEMMA ProcStepInv ==
    ASSUME LobbyInv, NEW p \in Processes, ProcStep(p)
    PROVE  LobbyInv'
<1>1. p \in DOMAIN proc
  BY DEF ProcStep
<1>2. CASE ReadList(p) \/ ReadTargets(p) \/ EndWrite(p)
  BY <1>1, <1>2, ReadListInv, ReadTargetsInv, EndWriteInv
<1>3. CASE UnregisterConnection(p) \/ EndClose(p)
  <2>1. /\ Removed(p) /\ proc[p].pc \in {"leaving", "closing"}
        /\ holder' \in Processes \cup {Nobody}
    BY <1>3 DEF UnregisterConnection, EndClose, LobbyInv, TypeOK
  <2> QED
    BY <1>1, <2>1, RemovedInv
<1>4. CASE CloseCollides(p)
  BY <1>1, <1>4, CloseCollidesInv
<1>5. CASE BeginWrite(p) \/ UnregisterUnknown(p) \/ BeginClose(p)
  <2>1. PICK pc \in {"write", "done", "closing"} :
           /\ proc' = [proc EXCEPT ![p].pc = pc]
           /\ \/ proc[p].pc = "send" /\ pc = "write"
              \/ proc[p].pc = "leaving" /\ pc \in {"done", "closing"}
    BY <1>5 DEF BeginWrite, UnregisterUnknown, BeginClose
  <2>2. /\ Moves(p, pc)
        /\ proc'[p].list = proc[p].list /\ proc'[p].queue = proc[p].queue
    BY <1>1, <2>1, PcMoves DEF Pcs, LobbyInv
  <2>3. /\ UNCHANGED <<opened, members, sock, stalls, alive, shown, kicked, overlap>>
        /\ holder' \in Processes \cup {Nobody}
        /\ expired' \subseteq Conns /\ cut' \subseteq Conns
    BY <1>5 DEF BeginWrite, UnregisterUnknown, BeginClose, ProcFrame, RoomFrame, deadlines,
        LobbyInv, TypeOK
  <2> QED
    BY <1>1, <2>1, <2>2, <2>3, PcMovesInv DEF Pcs
<1> QED
  BY <1>2, <1>3, <1>4, <1>5 DEF ProcStep

\* Every step keeps the invariant.
LEMMA NextInv == LobbyInv /\ [Next]_vars => LobbyInv'
<1> SUFFICES ASSUME LobbyInv, [Next]_vars PROVE LobbyInv'
  OBVIOUS
<1>1. CASE UNCHANGED vars
  BY <1>1
  DEF vars, LobbyInv, TypeOK, RoomFinite, RoomConnected, KicksAsked, QueueLeft,
      OneLister, ListCurrent, QueueComplete, Settled, Listers, Crashed, Room,
      Seen
<1>2. ASSUME NEW c \in Conns, NEW u \in Users, Accept(c, u) PROVE LobbyInv'
  <2>1. c \in Processes \ DOMAIN proc /\ c \notin Kicks
    BY <1>2, IdsAssumption DEF Accept, Processes
  <2>2. opened' \in BOOLEAN
    BY <1>2 DEF Accept, RegisterSession
  <2>3. /\ proc' = Put(proc, c, NewProc(u, "accepted"))
        /\ sock' = Put(sock, c, "open") /\ kicked' = kicked
        /\ UNCHANGED <<members, holder, deadlines, stalls, alive, shown, overlap>>
    BY <1>2 DEF Accept, RegisterSession
  <2>4. kicked \subseteq kicked' /\ kicked' \subseteq Users
    BY <2>3 DEF LobbyInv, TypeOK
  <2> QED
    BY <2>1, <2>2, <2>3, <2>4, NewProcInv
<1>3. ASSUME NEW c \in Conns, HandlerStep(c) PROVE LobbyInv'
  BY <1>3, HandlerStepInv
<1>4. ASSUME NEW k \in Kicks, NEW u \in Users, Kick(k, u) PROVE LobbyInv'
  <2>1. k \in Processes \ DOMAIN proc /\ k \notin Conns
    BY <1>4, IdsAssumption DEF Kick, Processes
  <2>2. opened' \in BOOLEAN
    BY <1>4, Zenon DEF Kick, LobbyInv, TypeOK
  <2>3. /\ proc' = Put(proc, k, NewProc(u, "leaving"))
        /\ sock' = sock /\ kicked' = kicked \cup {u}
        /\ UNCHANGED <<members, holder, deadlines, stalls, alive, shown, overlap>>
    BY <1>4 DEF Kick
  <2>4. kicked \subseteq kicked' /\ kicked' \subseteq Users /\ u \in kicked'
    BY <2>3 DEF LobbyInv, TypeOK
  <2> QED
    BY <2>1, <2>2, <2>3, <2>4, NewProcInv
<1>5. ASSUME NEW p \in Processes, ProcStep(p) PROVE LobbyInv'
  BY <1>5, ProcStepInv
<1>6. ASSUME NEW c \in DOMAIN sock,
             ClientStalls(c) \/ ClientLeaves(c) \/ DeadlinePasses(c)
      PROVE  LobbyInv'
  BY <1>6, ClientInv
<1> QED
  BY <1>1, <1>2, <1>3, <1>4, <1>5, <1>6 DEF Next

-----------------------------------------------------------------------------
(* Why a user is out of the room.                                          *)

Handlers == Conns \cap DOMAIN proc

\* Another connection of the same user.
Second(c) == \E d \in Handlers \ {c} : proc[d].user = proc[c].user

\* The room maps users to connections of theirs, which have joined.
RoomOwned ==
    \A u \in DOMAIN members : /\ proc[members[u]].user = u
                              /\ proc[members[u]].pc # "accepted"

\* A handler reads its own connection, or one that has replaced it.
OwnMine == \A c \in Handlers :
               proc[c].pc \notin {"accepted", "joined"} => proc[c].own = c \/ Second(c)

\* A connection that the server has closed was in the room, and is no more.
CutLeft == \A c \in cut : c \in Handlers /\ proc[c].pc # "accepted" /\ c \notin Room

\* A handler leaves because its connection fails or was not read in time.
LeavesForAReason ==
    \A c \in Handlers : proc[c].pc \in {"leaving", "closing"} =>
        sock[c] # "open" \/ c \in expired \/ Second(c)

ReasonInv ==
    /\ RoomOwned
    /\ OwnMine
    /\ CutLeft
    /\ LeavesForAReason
    /\ RemovedForAReason

\* Without goroutines there is nothing to show: at the start, and when the
\* process has ended.
LEMMA NoProcReason ==
    DOMAIN proc = {} /\ DOMAIN members = {} /\ cut = {} => ReasonInv
BY DEF ReasonInv, RoomOwned, OwnMine, CutLeft, LeavesForAReason, RemovedForAReason,
       Handlers

LEMMA DieReason ==
    ASSUME Die
    PROVE  ReasonInv'
<1>1. DOMAIN proc' = {} /\ DOMAIN members' = {} /\ cut' = {}
  BY DEF Die, EmptyMap
<1> QED
  BY <1>1
  DEF ReasonInv, RoomOwned, OwnMine, CutLeft, LeavesForAReason, RemovedForAReason,
      Handlers

\* A goroutine goes on, and starts to leave for a reason only.
LEMMA MovesReason ==
    ASSUME LobbyInv, ReasonInv, NEW p \in DOMAIN proc, NEW pc, Moves(p, pc),
           UNCHANGED <<members, sock, expired, cut, kicked>>,
           proc'[p].own = proc[p].own,
           proc[p].pc \notin {"accepted", "joined"}, pc \notin {"accepted", "joined"},
           pc \in {"leaving", "closing"} =>
               \/ proc[p].pc \in {"leaving", "closing"}
               \/ sock[proc[p].own] # "open" \/ proc[p].own \in expired
    PROVE  ReasonInv'
<1> USE DEF ReasonInv
<1>1. /\ DOMAIN proc' = DOMAIN proc /\ proc'[p].pc = pc
      /\ \A q \in DOMAIN proc : /\ proc'[q].user = proc[q].user
                                /\ proc'[q].own = proc[q].own
      /\ \A q \in DOMAIN proc \ {p} : proc'[q] = proc[q]
  BY MovesType DEF Moves, LobbyInv
<1>2. Handlers' = Handlers /\ Room' = Room
  BY <1>1 DEF Handlers, Room
<1>3. \A c \in Handlers : Second(c)' <=> Second(c)
  BY <1>1, <1>2 DEF Second, Handlers
<1>4. RoomOwned'
  <2>1. Room \subseteq DOMAIN proc
    BY DEF LobbyInv, RoomConnected
  <2> QED
    BY <1>1, <2>1 DEF RoomOwned, Room
<1>5. OwnMine'
  BY <1>1, <1>2, <1>3 DEF OwnMine, Handlers
<1>6. CutLeft'
  BY <1>1, <1>2 DEF CutLeft, Handlers
<1>7. LeavesForAReason'
  <2> SUFFICES ASSUME NEW c \in Handlers, proc'[c].pc \in {"leaving", "closing"}
               PROVE  sock[c] # "open" \/ c \in expired \/ Second(c)
    BY <1>2, <1>3 DEF LeavesForAReason
  <2>1. CASE proc[c].pc \in {"leaving", "closing"}
    BY <2>1 DEF LeavesForAReason
  <2>2. CASE proc[c].pc \notin {"leaving", "closing"}
    <3>1. c = p
      BY <1>1, <2>2 DEF Handlers
    <3>2. proc[c].own = c \/ Second(c)
      BY <3>1 DEF OwnMine
    <3> QED
      BY <1>1, <2>2, <3>1, <3>2
  <2> QED
    BY <2>1, <2>2
<1>8. RemovedForAReason'
  BY <1>1 DEF RemovedForAReason
<1> QED
  BY <1>4, <1>5, <1>6, <1>7, <1>8

\* RegisterConnection: the connection is in the room; whichever it has
\* replaced is one of two.
LEMMA RegisterConnectionReason ==
    ASSUME LobbyInv, ReasonInv, NEW c \in Handlers, RegisterConnection(c)
    PROVE  ReasonInv'
<1> USE DEF ReasonInv
<1> PICK u : u = proc[c].user
  OBVIOUS
<1>1. /\ proc[c].pc = "accepted" /\ Moves(c, "joined")
      /\ members' = Put(members, u, c)
      /\ UNCHANGED <<sock, expired, cut, kicked>>
  BY PcMoves DEF RegisterConnection, deadlines, Pcs, LobbyInv, Handlers
<1>2. /\ DOMAIN proc' = DOMAIN proc /\ proc'[c].pc = "joined"
      /\ \A q \in DOMAIN proc : proc'[q].user = proc[q].user
      /\ \A q \in DOMAIN proc \ {c} : proc'[q] = proc[q]
  BY <1>1, MovesType DEF Moves, LobbyInv, Handlers
<1>3. /\ DOMAIN members' = DOMAIN members \cup {u}
      /\ members'[u] = c
      /\ \A v \in DOMAIN members \ {u} : members'[v] = members[v]
  BY <1>1 DEF Put
<1>4. Handlers' = Handlers /\ Room' \subseteq Room \cup {c} /\ Room \subseteq DOMAIN proc
  BY <1>2, <1>3 DEF Handlers, Room, LobbyInv, RoomConnected
<1>5. \A d \in Handlers : Second(d)' <=> Second(d)
  BY <1>2, <1>4 DEF Second, Handlers
<1>6. RoomOwned'
  BY <1>2, <1>3, <1>4 DEF RoomOwned, Room, Handlers
<1>7. OwnMine'
  BY <1>2, <1>4, <1>5 DEF OwnMine, Handlers
<1>8. CutLeft'
  BY <1>1, <1>2, <1>4 DEF CutLeft, Handlers
<1>9. LeavesForAReason'
  BY <1>1, <1>2, <1>4, <1>5 DEF LeavesForAReason, Handlers
<1>10. RemovedForAReason'
  <2> SUFFICES ASSUME NEW d \in Handlers,
                      proc'[d].pc # "accepted", sock[d] = "open" \/ d \in cut
               PROVE  \/ /\ proc[d].user \in DOMAIN members'
                         /\ members'[proc[d].user] = d
                      \/ proc[d].user \in kicked
                      \/ d \in expired
                      \/ Second(d)
    BY <1>1, <1>2, <1>4 DEF RemovedForAReason, Second, Handlers
  <2>1. CASE d = c
    BY <1>3, <2>1
  <2>2. CASE d # c /\ proc[d].user = u
    BY <2>2 DEF Second
  <2>3. CASE d # c /\ proc[d].user # u
    BY <1>2, <1>3, <2>3 DEF RemovedForAReason, Second, Handlers
  <2> QED
    BY <2>1, <2>2, <2>3
<1> QED
  BY <1>6, <1>7, <1>8, <1>9, <1>10

\* LookUp: the connection whose deadline is set anew is in the room, and the
\* handler's own unless the user has two.
LEMMA LookUpReason ==
    ASSUME LobbyInv, ReasonInv, NEW c \in Handlers, LookUp(c)
    PROVE  ReasonInv'
<1> USE DEF ReasonInv
<1> PICK u, m : u = proc[c].user /\ m = members[u]
  OBVIOUS
<1>1. /\ proc[c].pc = "joined" /\ u \in DOMAIN members
      /\ proc' = [proc EXCEPT ![c].pc = "list", ![c].own = m]
      /\ expired' = expired \ {m}
      /\ UNCHANGED <<members, sock, cut, kicked>>
  BY DEF LookUp, RoomFrame
<1>2. proc[c] \in Proc /\ m \in Handlers /\ proc[m].user = u
  BY <1>1 DEF LobbyInv, TypeOK, IsMap, RoomConnected, Room, RoomOwned, Handlers
<1>3. /\ DOMAIN proc' = DOMAIN proc /\ proc'[c].pc = "list" /\ proc'[c].own = m
      /\ \A q \in DOMAIN proc : proc'[q].user = proc[q].user
      /\ \A q \in DOMAIN proc \ {c} : proc'[q] = proc[q]
  BY <1>1, <1>2 DEF Handlers, Proc
<1>4. Handlers' = Handlers /\ Room' = Room /\ Room \subseteq DOMAIN proc
  BY <1>1, <1>3 DEF Handlers, Room, LobbyInv, RoomConnected
<1>5. \A d \in Handlers : Second(d)' <=> Second(d)
  BY <1>3, <1>4 DEF Second, Handlers
<1>6. m # c => Second(c) /\ Second(m)
  BY <1>2 DEF Second
<1>7. RoomOwned'
  BY <1>1, <1>3, <1>4 DEF RoomOwned, Room
<1>8. OwnMine'
  BY <1>3, <1>4, <1>5, <1>6 DEF OwnMine, Handlers
<1>9. CutLeft'
  BY <1>1, <1>3, <1>4 DEF CutLeft, Handlers
<1>10. LeavesForAReason'
  <2> SUFFICES ASSUME NEW d \in Handlers, proc'[d].pc \in {"leaving", "closing"}
               PROVE  sock[d] # "open" \/ d \in expired' \/ Second(d)
    BY <1>1, <1>4, <1>5 DEF LeavesForAReason
  <2>1. d # c /\ proc'[d] = proc[d]
    BY <1>3 DEF Handlers
  <2>2. sock[d] # "open" \/ d \in expired \/ Second(d)
    BY <2>1 DEF LeavesForAReason
  <2> QED
    BY <1>1, <1>6, <2>1, <2>2
<1>11. RemovedForAReason'
  <2> SUFFICES ASSUME NEW d \in Handlers,
                      proc'[d].pc # "accepted", sock[d] = "open" \/ d \in cut
               PROVE  \/ /\ proc[d].user \in DOMAIN members
                         /\ members[proc[d].user] = d
                      \/ proc[d].user \in kicked
                      \/ d \in expired'
                      \/ Second(d)
    BY <1>1, <1>3, <1>4 DEF RemovedForAReason, Second, Handlers
  <2>1. CASE d = m
    BY <1>1, <1>2, <2>1
  <2>2. CASE d # m
    <3>1. proc[d].pc # "accepted"
      BY <1>1, <1>3 DEF Handlers
    <3> QED
      BY <1>1, <2>2, <3>1 DEF RemovedForAReason, Second, Handlers
  <2> QED
    BY <2>1, <2>2
<1> QED
  BY <1>7, <1>8, <1>9, <1>10, <1>11

\* Removed: a request was made for it, the handler's own connection has failed
\* or was not read in time, or the user has two.
LEMMA RemovedReason ==
    ASSUME LobbyInv, ReasonInv, NEW p \in DOMAIN proc, Removed(p),
           proc[p].pc \in {"leaving", "closing"}
    PROVE  ReasonInv'
<1> USE DEF ReasonInv
<1> PICK u : u = proc[p].user
  OBVIOUS
<1>1. proc[p] \in Proc /\ p \in Conns \cup Kicks
  BY DEF LobbyInv, TypeOK, IsMap, Processes
<1>2. Moves(p, "list") /\ proc'[p].own = proc[p].own
  BY <1>1 DEF Removed, Moves, Proc, LobbyInv, TypeOK, IsMap
<1>3. /\ DOMAIN proc' = DOMAIN proc /\ proc'[p].pc = "list"
      /\ \A q \in DOMAIN proc : /\ proc'[q].user = proc[q].user
                                /\ proc'[q].own = proc[q].own
      /\ \A q \in DOMAIN proc \ {p} : proc'[q] = proc[q]
  BY <1>2, MovesType DEF Moves, LobbyInv
<1>4. members' = Delete(members, u) /\ UNCHANGED <<expired, kicked>>
  BY DEF Removed
<1>5. /\ DOMAIN members' = DOMAIN members \ {u}
      /\ \A v \in DOMAIN members \ {u} : members'[v] = members[v]
  BY <1>4 DEF Delete
<1>6. /\ \A c \in DOMAIN sock : sock'[c] = "open" => sock[c] = "open"
      /\ cut \subseteq cut'
      /\ \A c \in cut' \ cut : /\ u \in DOMAIN members /\ members[u] = c
                               /\ sock[c] = "open"
      /\ \A c \in DOMAIN sock :
            u \in DOMAIN members /\ members[u] = c => sock'[c] = "closed"
  BY DEF Removed, LobbyInv, TypeOK, IsMap
<1>7. /\ Handlers' = Handlers /\ Room' \subseteq Room
      /\ Room \subseteq Handlers /\ DOMAIN sock = Handlers
  BY <1>3, <1>5 DEF Handlers, Room, LobbyInv, RoomConnected
<1>8. \A d \in Handlers : Second(d)' <=> Second(d)
  BY <1>3, <1>7 DEF Second, Handlers
<1>9. \A v \in DOMAIN members : members[v] \in Handlers /\ proc[members[v]].user = v
  BY <1>7 DEF RoomOwned, Room
<1>10. RoomOwned'
  BY <1>3, <1>5, <1>9 DEF RoomOwned, Handlers
<1>11. OwnMine'
  BY <1>3, <1>7, <1>8 DEF OwnMine, Handlers
<1>12. CutLeft'
  <2> SUFFICES ASSUME NEW c \in cut'
               PROVE  c \in Handlers /\ proc'[c].pc # "accepted" /\ c \notin Room'
    BY <1>7 DEF CutLeft
  <2>1. CASE c \in cut
    BY <1>3, <1>7, <2>1 DEF CutLeft, Handlers
  <2>2. CASE c \notin cut
    <3>1. u \in DOMAIN members /\ members[u] = c /\ c \in Handlers
      BY <1>6, <1>9, <2>2
    <3>2. c \notin Room'
      BY <1>5, <1>9, <3>1 DEF Room
    <3>3. proc[c].pc # "accepted"
      BY <3>1 DEF RoomOwned
    <3> QED
      BY <1>3, <3>1, <3>2, <3>3 DEF Handlers
  <2> QED
    BY <2>1, <2>2
<1>13. LeavesForAReason'
  BY <1>3, <1>4, <1>6, <1>7, <1>8 DEF LeavesForAReason, Handlers
<1>14. RemovedForAReason'
  <2> SUFFICES ASSUME NEW d \in Handlers,
                      proc'[d].pc # "accepted", sock'[d] = "open" \/ d \in cut'
               PROVE  \/ /\ proc[d].user \in DOMAIN members'
                         /\ members'[proc[d].user] = d
                      \/ proc[d].user \in kicked
                      \/ d \in expired
                      \/ Second(d)
    BY <1>3, <1>4, <1>7 DEF RemovedForAReason, Second, Handlers
  <2>1. proc[d].pc # "accepted" /\ (sock[d] = "open" \/ d \in cut)
    BY <1>3, <1>6, <1>7 DEF Handlers
  <2>2. \/ proc[d].user \in DOMAIN members /\ members[proc[d].user] = d
        \/ proc[d].user \in kicked
        \/ d \in expired
        \/ Second(d)
    BY <2>1 DEF RemovedForAReason, Second, Handlers
  <2>3. CASE proc[d].user # u
    BY <1>5, <2>2, <2>3
  <2>4. CASE proc[d].user = u /\ p \in Kicks
    BY <2>4 DEF KicksAsked, LobbyInv
  <2>5. CASE proc[d].user = u /\ p \in Conns /\ p # d
    BY <2>5 DEF Second, Handlers
  <2>6. CASE p = d
    <3>1. d \in Room => d \notin cut
      BY DEF CutLeft
    <3>2. sock[d] # "open" \/ d \in expired \/ Second(d)
      BY <2>6 DEF LeavesForAReason
    <3>3. members[proc[d].user] = d /\ proc[d].user \in DOMAIN members => d \in Room
      BY DEF Room
    <3> QED
      BY <2>1, <2>2, <3>1, <3>2, <3>3
  <2> QED
    BY <1>1, <2>3, <2>4, <2>5, <2>6
<1> QED
  BY <1>10, <1>11, <1>12, <1>13, <1>14

\* Accept and Kick: another connection changes nothing for those there are.
LEMMA NewProcReason ==
    ASSUME LobbyInv, ReasonInv, NEW p \in Processes \ DOMAIN proc, NEW u \in Users,
           NEW pc, proc' = Put(proc, p, NewProc(u, pc)),
           p \in Conns => pc = "accepted" /\ sock' = Put(sock, p, "open"),
           p \notin Conns => sock' = sock,
           kicked \subseteq kicked', UNCHANGED <<members, expired, cut>>
    PROVE  ReasonInv'
<1> USE DEF ReasonInv
<1>1. /\ DOMAIN proc' = DOMAIN proc \cup {p}
      /\ \A q \in DOMAIN proc : proc'[q] = proc[q]
      /\ proc'[p].pc = pc
  BY DEF Put, NewProc
<1>2. /\ Handlers \subseteq Handlers' /\ Handlers' \subseteq Handlers \cup {p}
      /\ p \in Handlers' => pc = "accepted"
      /\ Room' = Room /\ Room \subseteq Handlers /\ DOMAIN sock = Handlers
  BY <1>1 DEF Handlers, Room, LobbyInv, RoomConnected
<1>3. \A c \in Handlers : c \in DOMAIN proc /\ sock'[c] = sock[c]
  BY <1>2 DEF Handlers, Put
<1>4. \A c \in Handlers : Second(c) => Second(c)'
  BY <1>1, <1>2 DEF Second, Handlers
<1>5. RoomOwned'
  BY <1>1, <1>2 DEF RoomOwned, Room, Handlers
<1>6. OwnMine'
  <2> SUFFICES ASSUME NEW c \in Handlers', proc'[c].pc \notin {"accepted", "joined"}
               PROVE  proc'[c].own = c \/ Second(c)'
    BY DEF OwnMine
  <2>1. c \in Handlers /\ proc'[c] = proc[c]
    BY <1>1, <1>2, <1>3
  <2> QED
    BY <1>4, <2>1 DEF OwnMine
<1>7. CutLeft'
  BY <1>1, <1>2, <1>3 DEF CutLeft
<1>8. LeavesForAReason'
  <2> SUFFICES ASSUME NEW c \in Handlers', proc'[c].pc \in {"leaving", "closing"}
               PROVE  sock'[c] # "open" \/ c \in expired \/ Second(c)'
    BY DEF LeavesForAReason
  <2>1. c \in Handlers /\ proc'[c] = proc[c]
    BY <1>1, <1>2, <1>3
  <2> QED
    BY <1>3, <1>4, <2>1 DEF LeavesForAReason
<1>9. RemovedForAReason'
  <2> SUFFICES ASSUME NEW c \in Handlers',
                      proc'[c].pc # "accepted", sock'[c] = "open" \/ c \in cut
               PROVE  \/ /\ proc'[c].user \in DOMAIN members
                         /\ members[proc'[c].user] = c
                      \/ proc'[c].user \in kicked'
                      \/ c \in expired
                      \/ Second(c)'
    BY DEF RemovedForAReason, Second, Handlers
  <2>1. c \in Handlers /\ proc'[c] = proc[c] /\ sock'[c] = sock[c]
    BY <1>1, <1>2, <1>3
  <2>2. \/ proc[c].user \in DOMAIN members /\ members[proc[c].user] = c
        \/ proc[c].user \in kicked
        \/ c \in expired
        \/ Second(c)
    BY <2>1 DEF RemovedForAReason, Second, Handlers
  <2> QED
    BY <1>4, <2>1, <2>2
<1> QED
  BY <1>5, <1>6, <1>7, <1>8, <1>9

\* A connection fails, or is not read in time: no reason goes away.
LEMMA ClientReason ==
    ASSUME LobbyInv, ReasonInv, NEW c \in DOMAIN sock,
           ClientStalls(c) \/ ClientLeaves(c) \/ DeadlinePasses(c)
    PROVE  ReasonInv'
<1>1. /\ \A d \in DOMAIN sock : sock'[d] = "open" => sock[d] = "open"
      /\ expired \subseteq expired'
      /\ UNCHANGED <<members, proc, cut, kicked>>
  BY DEF ClientStalls, ClientLeaves, DeadlinePasses, RoomFrame, deadlines, LobbyInv,
         TypeOK, IsMap
<1>2. Handlers' = Handlers /\ Room' = Room /\ DOMAIN sock = Handlers
  BY <1>1 DEF Handlers, Room, LobbyInv, RoomConnected
<1>3. \A d : Second(d)' <=> Second(d)
  BY <1>1, <1>2 DEF Second
<1>4. RoomOwned' /\ OwnMine' /\ CutLeft' /\ LeavesForAReason'
  BY <1>1, <1>2, <1>3
  DEF ReasonInv, RoomOwned, OwnMine, CutLeft, LeavesForAReason
<1>5. RemovedForAReason'
  BY <1>1, <1>2 DEF ReasonInv, RemovedForAReason, Handlers
<1> QED
  BY <1>4, <1>5 DEF ReasonInv

\* The handler of a connection.
LEMMA HandlerStepReason ==
    ASSUME LobbyInv, ReasonInv, NEW c \in Conns, HandlerStep(c)
    PROVE  ReasonInv'
<1>1. c \in Handlers
  BY DEF HandlerStep, Handlers
<1>2. CASE RegisterConnection(c)
  BY <1>1, <1>2, RegisterConnectionReason
<1>3. CASE LookUp(c)
  BY <1>1, <1>3, LookUpReason
<1>4. CASE LookUpPanics(c)
  BY <1>4, DieReason DEF LookUpPanics
<1>5. CASE ReadFails(c)
  <2>1. /\ Moves(c, "leaving") /\ proc[c].pc = "reading" /\ c \in DOMAIN proc
        /\ proc'[c].own = proc[c].own
    BY <1>1, <1>5, PcMoves DEF ReadFails, Pcs, LobbyInv, Handlers, TypeOK, IsMap
  <2>2. /\ UNCHANGED <<members, sock, expired, cut, kicked>>
        /\ sock[proc[c].own] # "open" \/ proc[c].own \in expired
    BY <1>5 DEF ReadFails, ProcFrame, RoomFrame
  <2> QED
    BY <2>1, <2>2, MovesReason
<1> QED
  BY <1>2, <1>3, <1>4, <1>5 DEF HandlerStep

\* A close message meets another write.
LEMMA CloseCollidesReason ==
    ASSUME LobbyInv, ReasonInv, NEW p \in DOMAIN proc, CloseCollides(p)
    PROVE  ReasonInv'
<1>1. ASSUME ~Die
      PROVE  \E k \in DOMAIN proc :
                /\ proc' = [proc EXCEPT ![k].pc = "crashed"]
                /\ proc[k].pc \in {"leaving", "write", "crashed"}
                /\ UNCHANGED <<members, sock, expired, cut, kicked>>
  BY <1>1 DEF CloseCollides, ProcFrame, RoomFrame, deadlines, MutexOf
<1>2. CASE ~Die
  <2>1. PICK k \in DOMAIN proc :
           /\ proc' = [proc EXCEPT ![k].pc = "crashed"]
           /\ proc[k].pc \in {"leaving", "write", "crashed"}
           /\ UNCHANGED <<members, sock, expired, cut, kicked>>
    BY <1>1, <1>2
  <2>2. Moves(k, "crashed") /\ proc'[k].own = proc[k].own
    BY <2>1, PcMoves DEF Pcs, LobbyInv, TypeOK, IsMap
  <2> QED
    BY <2>1, <2>2, MovesReason
<1> QED
  BY <1>2, DieReason

\* The list, and the removal of a user.
LEMMA ProcStepReason ==
    ASSUME LobbyInv, ReasonInv, NEW p \in Processes, ProcStep(p)
    PROVE  ReasonInv'
<1>1. p \in DOMAIN proc /\ proc[p] \in Proc
  BY DEF ProcStep, LobbyInv, TypeOK, IsMap
<1>2. CASE ReadList(p)
  <2>1. Moves(p, "targets") /\ proc[p].pc = "list" /\ proc'[p].own = proc[p].own
    <3>1. DOMAIN members \subseteq Users
      BY DEF LobbyInv, TypeOK, IsMap
    <3> QED
      BY <1>1, <1>2, <3>1 DEF ReadList, Moves, Proc, LobbyInv, TypeOK, IsMap
  <2>2. UNCHANGED <<members, sock, expired, cut, kicked>>
    BY <1>2 DEF ReadList, ProcFrame, RoomFrame
  <2> QED
    BY <1>1, <2>1, <2>2, MovesReason
<1>3. CASE ReadTargets(p) \/ EndWrite(p)
  <2>1. PICK rest \in Seq(Conns) : proc' = Sending(p, rest)
    <3>1. CASE ReadTargets(p)
      BY <3>1, QueueOfRoom DEF ReadTargets, Room, LobbyInv
    <3>2. CASE EndWrite(p)
      <4>1. proc[p].queue \in Seq(Conns) /\ proc[p].queue # <<>>
        BY <1>1, <3>2 DEF EndWrite, Proc, LobbyInv, QueueLeft
      <4>2. Tail(proc[p].queue) \in Seq(Conns)
        BY <4>1
      <4> QED
        BY <3>2, <4>2 DEF EndWrite
    <3> QED
      BY <1>3, <3>1, <3>2
  <2>2. PICK pc \in {"send", "reading", "done"} :
           Moves(p, pc) /\ proc'[p].own = proc[p].own
    BY <1>1, <2>1, SendingMoves DEF LobbyInv
  <2>3. /\ proc[p].pc \in {"targets", "write"}
        /\ UNCHANGED <<members, sock, expired, cut, kicked>>
    BY <1>3 DEF ReadTargets, EndWrite, ProcFrame, RoomFrame
  <2> QED
    BY <1>1, <2>2, <2>3, MovesReason
<1>4. CASE UnregisterConnection(p) \/ EndClose(p)
  <2>1. Removed(p) /\ proc[p].pc \in {"leaving", "closing"}
    BY <1>4 DEF UnregisterConnection, EndClose
  <2> QED
    BY <1>1, <2>1, RemovedReason
<1>5. CASE CloseCollides(p)
  BY <1>1, <1>5, CloseCollidesReason
<1>6. CASE BeginWrite(p) \/ UnregisterUnknown(p) \/ BeginClose(p)
  <2>1. PICK pc \in {"write", "done", "closing"} :
           /\ proc' = [proc EXCEPT ![p].pc = pc]
           /\ \/ proc[p].pc = "send" /\ pc = "write"
              \/ proc[p].pc = "leaving" /\ pc \in {"done", "closing"}
    BY <1>6 DEF BeginWrite, UnregisterUnknown, BeginClose
  <2>2. Moves(p, pc) /\ proc'[p].own = proc[p].own
    BY <1>1, <2>1, PcMoves DEF Pcs, LobbyInv, TypeOK, IsMap
  <2>3. UNCHANGED <<members, sock, expired, cut, kicked>>
    BY <1>6 DEF BeginWrite, UnregisterUnknown, BeginClose, ProcFrame, RoomFrame,
                deadlines
  <2> QED
    BY <1>1, <2>1, <2>2, <2>3, MovesReason
<1> QED
  BY <1>2, <1>3, <1>4, <1>5, <1>6 DEF ProcStep

\* Every step keeps the reasons.
LEMMA NextReason == LobbyInv /\ ReasonInv /\ [Next]_vars => ReasonInv'
<1> SUFFICES ASSUME LobbyInv, ReasonInv, [Next]_vars PROVE ReasonInv'
  OBVIOUS
<1>1. CASE UNCHANGED vars
  BY <1>1
  DEF vars, ReasonInv, RoomOwned, OwnMine, CutLeft, LeavesForAReason,
      RemovedForAReason, Handlers, Second, Room
<1>2. ASSUME NEW c \in Conns, NEW u \in Users, Accept(c, u) PROVE ReasonInv'
  <2>1. c \in Processes \ DOMAIN proc
    BY <1>2 DEF Accept, Processes
  <2>2. /\ proc' = Put(proc, c, NewProc(u, "accepted"))
        /\ sock' = Put(sock, c, "open") /\ kicked' = kicked
        /\ UNCHANGED <<members, expired, cut>>
    BY <1>2 DEF Accept, RegisterSession, deadlines
  <2> QED
    BY <2>1, <2>2, NewProcReason
<1>3. ASSUME NEW c \in Conns, HandlerStep(c) PROVE ReasonInv'
  BY <1>3, HandlerStepReason
<1>4. ASSUME NEW k \in Kicks, NEW u \in Users, Kick(k, u) PROVE ReasonInv'
  <2>1. k \in Processes \ DOMAIN proc /\ k \notin Conns
    BY <1>4, IdsAssumption DEF Kick, Processes
  <2>2. /\ proc' = Put(proc, k, NewProc(u, "leaving"))
        /\ sock' = sock /\ kicked \subseteq kicked'
        /\ UNCHANGED <<members, expired, cut>>
    BY <1>4 DEF Kick, deadlines
  <2> QED
    BY <2>1, <2>2, NewProcReason
<1>5. ASSUME NEW p \in Processes, ProcStep(p) PROVE ReasonInv'
  BY <1>5, ProcStepReason
<1>6. ASSUME NEW c \in DOMAIN sock,
             ClientStalls(c) \/ ClientLeaves(c) \/ DeadlinePasses(c)
      PROVE  ReasonInv'
  BY <1>6, ClientReason
<1> QED
  BY <1>1, <1>2, <1>3, <1>4, <1>5, <1>6 DEF Next

-----------------------------------------------------------------------------
(* Theorems.                                                               *)

\* The inductive invariant: one list at most is on its way when no change of
\* the room has fallen into the sending of another (ws_list_handler.go).
THEOREM LobbyInvariant == Spec => []LobbyInv
BY InitInv, NextInv, PTL DEF Spec

\* The lobby's maps, sockets and goroutines have their types.
THEOREM LobbyTyped == Spec => []TypeOK
<1>1. LobbyInv => TypeOK
  BY DEF LobbyInv
<1> QED
  BY <1>1, LobbyInvariant, PTL

\* A user whose only connection works, or did until the server closed it, is in
\* the room unless somebody asked for the removal or a minute went by in which
\* none of its answers was read: neither a handler that gives up (handleRead)
\* nor another user's departure takes it out.
THEOREM RemovedForAReasonHolds == Spec => []RemovedForAReason
<1>1. Init => ReasonInv
  BY NoProcReason DEF Init, EmptyMap
<1>2. ReasonInv => RemovedForAReason
  BY DEF ReasonInv
<1> QED
  BY <1>1, <1>2, NextReason, LobbyInvariant, PTL DEF Spec

\* When no list is on its way, and none was made while another was, whoever
\* waits has been shown exactly those who wait (handleRead, handleDelete).
THEOREM ShownIsCurrentHolds == Spec => []ShownIsCurrent
<1>1. LobbyInv => ShownIsCurrent
  <2> SUFFICES ASSUME LobbyInv, Listing = {}, ~overlap,
                      NEW u \in DOMAIN members, sock[members[u]] = "open"
               PROVE  /\ members[u] \in DOMAIN shown
                      /\ shown[members[u]] = DOMAIN members
    BY DEF ShownIsCurrent
  <2>1. Listers = {} /\ Crashed = {}
    BY DEF Listers, Crashed, Listing
  <2>2. members[u] \in Room
    BY DEF Room
  <2> QED
    BY <2>1, <2>2 DEF LobbyInv, Settled, Seen
<1> QED
  BY <1>1, LobbyInvariant, PTL
=============================================================================
