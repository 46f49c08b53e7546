----------------------------- MODULE Auth_proofs -----------------------------
(***************************************************************************)
(* Proofs about Auth: its invariants hold for any users, tokens and        *)
(* requests, however their statements interleave and whichever fail.       *)
(***************************************************************************)
EXTENDS Auth, TLAPS

-----------------------------------------------------------------------------
(* The inductive invariant.                                                *)

\* What the type invariant leaves open: req is a function to such records.
RequestShape ==
    /\ DOMAIN req = Requests
    /\ \A p \in Requests :
          DOMAIN req[p] = {"kind", "pc", "user", "rows", "del", "ins"}

\* What each kind of request has read, deleted and inserted at each point.
RequestStage ==
    \A p \in Requests :
        /\ req[p].pc # "idle" => req[p].user \in Users
        /\ req[p].kind = "login" => DOMAIN req[p].rows = {}
        /\ req[p].kind = "refresh" => DOMAIN req[p].rows # {}
        /\ req[p].kind \in Logouts => req[p].pc # "create"
        /\ req[p].kind \in Logouts => DOMAIN req[p].ins = {}
        /\ req[p].pc # "commit" => DOMAIN req[p].ins = {}
        /\ req[p].pc \in {"idle", "revoke"} => req[p].del = {}
        /\ req[p].pc = "idle" => req[p].rows = EmptyMap

\* A DELETE holds its rows until its transaction ends: nobody else has them,
\* they are in the table, and it has all it asked for that are there.
RowsLocked ==
    \A p \in Requests :
        /\ req[p].del \subseteq DOMAIN table
        /\ \A q \in Requests \ {p} : req[p].del \cap req[q].del = {}
        /\ req[p].pc \in {"create", "commit"} =>
              DOMAIN req[p].rows \cap DOMAIN table \subseteq req[p].del

\* A token is inserted once and its row never changes: what requests have read
\* agrees with the table and with each other.
RowsImmutable ==
    \A p \in Requests :
        /\ \A t \in DOMAIN req[p].rows \cap DOMAIN table :
              req[p].rows[t] = table[t]
        /\ \A q \in Requests : \A t \in DOMAIN req[p].rows \cap DOMAIN req[q].rows :
              req[p].rows[t] = req[q].rows[t]

\* A token that is not committed yet is in no other place.
PendingIsNew ==
    \A p \in Requests : \A t \in DOMAIN req[p].ins :
        /\ t \notin DOMAIN table
        /\ \A q \in Requests : t \notin DOMAIN req[q].rows
        /\ \A q \in Requests \ {p} : t \notin DOMAIN req[q].ins
        /\ \A o \in DOMAIN req[p].ins : o = t

\* Logins are tokens that have been generated.
LoginsUsed ==
    /\ \A t \in DOMAIN table : table[t].login \in used
    /\ \A p \in Requests :
          /\ \A t \in DOMAIN req[p].rows : req[p].rows[t].login \in used
          /\ \A t \in DOMAIN req[p].ins : req[p].ins[t].login \in used
    /\ ended \subseteq used

\* The login of a token that is not committed yet: the token itself, which
\* nothing else goes back to, or one of a row that its request has read.
PendingLogin ==
    \A p \in Requests : \A t \in DOMAIN req[p].ins :
        /\ req[p].kind = "login" =>
              /\ req[p].ins[t].login = t
              /\ t \notin ended
              /\ \A o \in DOMAIN table : table[o].login # t
              /\ \A q \in Requests : \A o \in DOMAIN req[q].rows :
                    req[q].rows[o].login # t
        /\ req[p].kind = "refresh" =>
              \E o \in DOMAIN req[p].rows :
                  req[p].ins[t].login = req[p].rows[o].login

\* A refresh reads one row.
OneOld ==
    \A p \in Requests : req[p].kind = "refresh" =>
        \A t, o \in DOMAIN req[p].rows : t = o

\* As long as no revoke has found its row gone, a refresh that issues a token
\* holds the one it read.
HoldsOld ==
    ~missed =>
        \A p \in Requests :
            req[p].kind = "refresh" /\ req[p].pc \in {"create", "commit"} =>
                req[p].del = DOMAIN req[p].rows

\* A login that was never raced has one token at most, even where others have
\* several; a refresh of it is alone with it and its row is there; a logout of
\* it has read the only one there is.
Unraced ==
    /\ \A t, o \in DOMAIN table :
          table[t].login = table[o].login /\ t # o => table[t].login \in raced
    /\ \A p \in Requests : \A t \in DOMAIN req[p].rows :
          req[p].rows[t].login \notin raced =>
             /\ req[p].kind = "refresh" =>
                   /\ t \in DOMAIN table
                   /\ \A q \in Requests \ {p} : \A o \in DOMAIN req[q].rows :
                         req[q].rows[o].login # req[p].rows[t].login
             /\ req[p].kind \in Logouts =>
                   \A o \in DOMAIN table :
                      table[o].login = req[p].rows[t].login => o = t

\* A login that has been ended and never raced is gone for good.
EndedIsGone ==
    \A l \in ended \ raced :
        /\ \A t \in DOMAIN table : table[t].login # l
        /\ \A p \in Requests : \A t \in DOMAIN req[p].rows :
              req[p].kind = "refresh" => req[p].rows[t].login # l

AuthInv ==
    /\ TypeOK
    /\ RequestShape
    /\ RequestStage
    /\ RowsLocked
    /\ RowsImmutable
    /\ PendingIsNew
    /\ LoginsUsed
    /\ PendingLogin
    /\ OneOld
    /\ HoldsOld
    /\ OneTokenPerLogin
    /\ Unraced
    /\ EndedIsGone

-----------------------------------------------------------------------------
(* What a step does to the requests.                                       *)

\* Idle, and a request that has begun, field by field.
LEMMA IdleFields ==
    /\ DOMAIN Idle = {"kind", "pc", "user", "rows", "del", "ins"}
    /\ Idle.kind = "login"
    /\ Idle.pc = "idle"
    /\ Idle.user = None
    /\ Idle.rows = EmptyMap
    /\ Idle.del = {}
    /\ Idle.ins = EmptyMap
BY DEF Idle

\* The fields of the record that a request begins with.
LEMMA BusyFields ==
    ASSUME NEW kind, NEW pc, NEW user, NEW rows
    PROVE  /\ DOMAIN Busy(kind, pc, user, rows) = DOMAIN Idle
           /\ Busy(kind, pc, user, rows).kind = kind
           /\ Busy(kind, pc, user, rows).pc = pc
           /\ Busy(kind, pc, user, rows).user = user
           /\ Busy(kind, pc, user, rows).rows = rows
           /\ Busy(kind, pc, user, rows).del = {}
           /\ Busy(kind, pc, user, rows).ins = EmptyMap
BY DEF Idle, Busy

\* The empty map has no keys.
LEMMA EmptyMapEmpty == DOMAIN EmptyMap = {}
BY DEF EmptyMap

\* The empty map is a map from any keys to any values.
LEMMA EmptyMapIsMap == ASSUME NEW K, NEW V PROVE IsMap(EmptyMap, K, V)
BY DEF EmptyMap, IsMap

\* Revoke changes pc and del of its request, Create pc and ins.
LEMMA RevokeEffect ==
    ASSUME RequestShape, NEW p \in Requests, Revoke(p)
    PROVE  /\ RequestShape'
           /\ \A q \in Requests \ {p} : req'[q] = req[q]
           /\ req'[p].kind = req[p].kind
           /\ req'[p].user = req[p].user
           /\ req'[p].rows = req[p].rows
           /\ req'[p].ins = req[p].ins
           /\ req'[p].del = Deleted(p)
           /\ req'[p].pc = IF req[p].kind = "refresh" THEN "create" ELSE "commit"
BY DEF Revoke, RequestShape

\* Create adds one row to what its own request will insert, and goes on to the
\* commit.
LEMMA CreateEffect ==
    ASSUME RequestShape, NEW p \in Requests, NEW t \in Tokens, Create(p, t)
    PROVE  /\ RequestShape'
           /\ \A q \in Requests \ {p} : req'[q] = req[q]
           /\ req'[p].kind = req[p].kind
           /\ req'[p].user = req[p].user
           /\ req'[p].rows = req[p].rows
           /\ req'[p].del = req[p].del
           /\ req'[p].ins = [x \in {t} |-> NewRow(p, x)]
           /\ req'[p].pc = "commit"
BY DEF Create, RequestShape

\* The request is over.
LEMMA EndEffect ==
    ASSUME RequestShape, NEW p \in Requests, req' = [req EXCEPT ![p] = Idle]
    PROVE  /\ RequestShape'
           /\ \A q \in Requests \ {p} : req'[q] = req[q]
           /\ req'[p].kind = "login"
           /\ req'[p].pc = "idle"
           /\ req'[p].user = None
           /\ req'[p].rows = EmptyMap
           /\ req'[p].del = {}
           /\ req'[p].ins = EmptyMap
BY IdleFields, BusyFields DEF RequestShape

\* The request begins.
LEMMA BeginEffect ==
    ASSUME RequestShape, NEW p \in Requests, NEW kind, NEW pc, NEW user, NEW rows,
           req' = [req EXCEPT ![p] = Busy(kind, pc, user, rows)]
    PROVE  /\ RequestShape'
           /\ \A q \in Requests \ {p} : req'[q] = req[q]
           /\ req'[p].kind = kind
           /\ req'[p].pc = pc
           /\ req'[p].user = user
           /\ req'[p].rows = rows
           /\ req'[p].del = {}
           /\ req'[p].ins = EmptyMap
BY IdleFields, BusyFields DEF RequestShape

-----------------------------------------------------------------------------

\* No token has been issued and no request is under way.
LEMMA InitInv == Init => AuthInv
<1> SUFFICES ASSUME Init PROVE AuthInv
  OBVIOUS
<1>1. /\ RequestShape
      /\ \A p \in Requests : /\ req[p].kind = "login"
                             /\ req[p].pc = "idle"
                             /\ req[p].user = None
                             /\ req[p].rows = EmptyMap
                             /\ req[p].del = {}
                             /\ req[p].ins = EmptyMap
  BY IdleFields DEF Init, RequestShape
<1>2. /\ table = EmptyMap
      /\ raced = {} /\ ended = {} /\ used = {} /\ expired = {}
      /\ failures \in 0 .. MaxFailures
  BY FailuresAssumption DEF Init
<1>3. missed \in BOOLEAN
  BY Zenon DEF Init
<1>31. TypeOK
  BY <1>1, <1>2, <1>3, EmptyMapIsMap DEF TypeOK, Kinds
<1>4. /\ RequestStage /\ RowsLocked /\ RowsImmutable /\ PendingIsNew /\ LoginsUsed
      /\ PendingLogin /\ OneOld /\ HoldsOld /\ OneTokenPerLogin
  BY <1>1, <1>2, EmptyMapEmpty
  DEF RequestStage, RowsLocked, RowsImmutable, PendingIsNew, LoginsUsed,
      PendingLogin, OneOld, HoldsOld, OneTokenPerLogin, Logouts
<1>5. Unraced /\ EndedIsGone
  BY <1>1, <1>2, EmptyMapEmpty DEF Unraced, EndedIsGone
<1> QED
  BY <1>1, <1>31, <1>4, <1>5 DEF AuthInv

\* A transaction that fails (unitofwork.py) leaves the others as they are.
LEMMA RollbackInv ==
    ASSUME AuthInv, NEW p \in Requests, Rollback(p)
    PROVE  AuthInv'
<1> USE DEF AuthInv
<1>1. /\ RequestShape'
      /\ \A q \in Requests \ {p} : req'[q] = req[q]
      /\ req'[p].kind = "login"
      /\ req'[p].pc = "idle"
      /\ req'[p].user = None
      /\ req'[p].rows = EmptyMap
      /\ req'[p].del = {}
      /\ req'[p].ins = EmptyMap
  BY EndEffect DEF Rollback
<1>2. /\ table' = table /\ expired' = expired /\ used' = used
      /\ missed' = missed /\ raced' = raced /\ ended' = ended
      /\ failures' \in 0 .. MaxFailures
  BY FailuresAssumption DEF Rollback, TypeOK
<1>3. TypeOK'
  BY <1>1, <1>2, EmptyMapIsMap DEF TypeOK, Kinds
<1>4. RequestStage' /\ RowsLocked' /\ OneOld'
  BY <1>1, <1>2, EmptyMapEmpty
  DEF RequestStage, RowsLocked, OneOld, Logouts
<1>5. RowsImmutable' /\ PendingIsNew' /\ LoginsUsed'
  BY <1>1, <1>2, EmptyMapEmpty DEF RowsImmutable, PendingIsNew, LoginsUsed
<1>6. PendingLogin' /\ HoldsOld' /\ OneTokenPerLogin'
  BY <1>1, <1>2, EmptyMapEmpty DEF PendingLogin, HoldsOld, OneTokenPerLogin
<1>7. Unraced' /\ EndedIsGone'
  BY <1>1, <1>2, EmptyMapEmpty DEF Unraced, EndedIsGone, Logouts
<1> QED
  BY <1>1, <1>3, <1>4, <1>5, <1>6, <1>7

\* Time passes: only expired changes.
LEMMA ExpireInv ==
    ASSUME AuthInv, NEW t \in Tokens, Expire(t)
    PROVE  AuthInv'
<1>1. TypeOK'
  BY DEF AuthInv, Expire, TypeOK, IsMap
<1> QED
  BY <1>1
  DEF Expire, AuthInv, RequestShape, RequestStage, RowsLocked, RowsImmutable,
      PendingIsNew, LoginsUsed, PendingLogin, OneOld, HoldsOld,
      OneTokenPerLogin, Unraced, EndedIsGone

\* The DELETE of a refresh or of a logout (revoke, revoke_all_for_user).
LEMMA RevokeInv ==
    ASSUME AuthInv, NEW p \in Requests, Revoke(p)
    PROVE  AuthInv'
<1> USE DEF AuthInv
<1>1. /\ RequestShape'
      /\ \A q \in Requests \ {p} : req'[q] = req[q]
      /\ req'[p].kind = req[p].kind
      /\ req'[p].user = req[p].user
      /\ req'[p].rows = req[p].rows
      /\ req'[p].ins = req[p].ins
      /\ req'[p].del = DOMAIN req[p].rows \cap DOMAIN table
      /\ req'[p].pc = IF req[p].kind = "refresh" THEN "create" ELSE "commit"
  BY RevokeEffect DEF Deleted
<1>2. /\ table' = table /\ expired' = expired /\ used' = used
      /\ raced' = raced /\ ended' = ended /\ failures' = failures
      /\ req[p].pc = "revoke"
      /\ \A q \in Requests \ {p} : DOMAIN req[p].rows \cap req[q].del = {}
  BY <1>1 DEF Revoke, LockedFor
<1>21. /\ missed' \in BOOLEAN
       /\ ~missed' => ~missed /\ Deleted(p) = DOMAIN req[p].rows
  BY Zenon DEF Revoke
<1>3. TypeOK'
  BY <1>1, <1>2, <1>21 DEF TypeOK
<1>4. RequestStage' /\ OneOld'
  BY <1>1, <1>2 DEF RequestStage, OneOld, Logouts, TypeOK, Kinds
<1>5. RowsLocked'
  BY <1>1, <1>2 DEF RowsLocked
<1>6. RowsImmutable' /\ PendingIsNew' /\ LoginsUsed'
  BY <1>1, <1>2 DEF RowsImmutable, PendingIsNew, LoginsUsed
<1>7. PendingLogin' /\ OneTokenPerLogin'
  BY <1>1, <1>2, <1>21 DEF PendingLogin, OneTokenPerLogin
<1>8. HoldsOld'
  BY <1>1, <1>2, <1>21 DEF HoldsOld, Deleted
<1>9. Unraced' /\ EndedIsGone'
  BY <1>1, <1>2 DEF Unraced, EndedIsGone
<1> QED
  BY <1>1, <1>3, <1>4, <1>5, <1>6, <1>7, <1>8, <1>9

\* The INSERT of a login or of a refresh (create).
LEMMA CreateInv ==
    ASSUME AuthInv, NEW p \in Requests, NEW t \in Tokens, Create(p, t)
    PROVE  AuthInv'
<1> USE DEF AuthInv
<1> DEFINE row == NewRow(p, t)
<1>1. /\ RequestShape'
      /\ \A q \in Requests \ {p} : req'[q] = req[q]
      /\ req'[p].kind = req[p].kind
      /\ req'[p].user = req[p].user
      /\ req'[p].rows = req[p].rows
      /\ req'[p].del = req[p].del
      /\ DOMAIN req'[p].ins = {t}
      /\ req'[p].ins[t] = row
      /\ req'[p].ins = [x \in {t} |-> row]
      /\ req'[p].pc = "commit"
  BY CreateEffect
<1>2. /\ table' = table /\ expired' = expired
      /\ raced' = raced /\ ended' = ended /\ failures' = failures
      /\ missed' = missed
      /\ used' = used \cup {t} /\ t \notin used
      /\ req[p].pc = "create"
      /\ req[p].kind \in {"login", "refresh"}
  BY DEF Create, RequestStage, TypeOK, Kinds, Logouts
<1>3. /\ req[p].kind = "login" => row.login = t
      /\ req[p].kind = "refresh" => \E o \in DOMAIN req[p].rows :
                                       row.login = req[p].rows[o].login
      /\ row.user = req[p].user
      /\ row = [user |-> req[p].user, login |-> row.login]
  <2> DEFINE logins == {req[p].rows[x].login : x \in DOMAIN req[p].rows}
  <2>1. row = [user  |-> req[p].user,
               login |-> IF req[p].kind = "login" THEN t
                         ELSE CHOOSE l \in logins : TRUE]
    BY DEF NewRow
  <2>2. req[p].kind = "refresh" => logins # {}
    BY DEF RequestStage
  <2>3. logins # {} => (CHOOSE l \in logins : TRUE) \in logins
    BY Zenon
  <2> HIDE DEF row
  <2>4. row.user = req[p].user /\ row = [user |-> req[p].user, login |-> row.login]
    BY <2>1
  <2>5. req[p].kind = "login" => row.login = t
    BY <2>1
  <2>6. req[p].kind = "refresh" => row.login \in logins
    BY <2>1, <2>2, <2>3
  <2> QED
    BY <2>4, <2>5, <2>6
<1>4. row.login \in used' /\ used' \subseteq Tokens
  BY <1>2, <1>3 DEF LoginsUsed, TypeOK
<1>5. row \in Row
  BY <1>2, <1>3, <1>4 DEF Row, RequestStage
<1>6. TypeOK'
  <2>1. IsMap(req'[p].ins, used', Row)
    BY <1>1, <1>2, <1>5 DEF IsMap
  <2>2. IsMap(table, used', Row)
    BY <1>2 DEF TypeOK, IsMap
  <2>3. \A q \in Requests : IsMap(req[q].rows, used', Row) /\ IsMap(req[q].ins, used', Row)
    BY <1>2 DEF TypeOK, IsMap
  <2> QED
    BY <1>1, <1>2, <1>4, <2>1, <2>2, <2>3 DEF TypeOK
<1>7. RequestStage' /\ OneOld'
  BY <1>1, <1>2 DEF RequestStage, OneOld, Logouts
<1>8. RowsLocked' /\ RowsImmutable'
  BY <1>1, <1>2 DEF RowsLocked, RowsImmutable
<1>9. PendingIsNew'
  BY <1>1, <1>2 DEF PendingIsNew, TypeOK, IsMap
<1>10. LoginsUsed'
  BY <1>1, <1>2, <1>4 DEF LoginsUsed
<1>11. PendingLogin'
  BY <1>1, <1>2, <1>3 DEF PendingLogin, LoginsUsed
<1>12. HoldsOld' /\ OneTokenPerLogin'
  BY <1>1, <1>2 DEF HoldsOld, OneTokenPerLogin
<1>13. Unraced' /\ EndedIsGone'
  BY <1>1, <1>2 DEF Unraced, EndedIsGone
<1> QED
  BY <1>1, <1>6, <1>7, <1>8, <1>9, <1>10, <1>11, <1>12, <1>13

\* The transaction commits: its rows leave the table, its new one enters it.
LEMMA CommitInv ==
    ASSUME AuthInv, NEW p \in Requests, Commit(p)
    PROVE  AuthInv'
<1> USE DEF AuthInv
<1>1. /\ RequestShape'
      /\ \A q \in Requests \ {p} : req'[q] = req[q]
      /\ req'[p].kind = "login"
      /\ req'[p].pc = "idle"
      /\ req'[p].user = None
      /\ req'[p].rows = EmptyMap
      /\ req'[p].del = {}
      /\ req'[p].ins = EmptyMap
  BY EndEffect DEF Commit
<1>2. /\ expired' = expired /\ failures' = failures /\ used' = used
      /\ missed' = missed /\ raced' = raced
      /\ req[p].pc = "commit"
  BY DEF Commit
<1>3. /\ DOMAIN table' = (DOMAIN table \ req[p].del) \cup DOMAIN req[p].ins
      /\ \A x \in DOMAIN table \ req[p].del : table'[x] = table[x]
      /\ \A x \in DOMAIN req[p].ins : table'[x] = req[p].ins[x]
      /\ table' = [x \in DOMAIN table' |-> table'[x]]
  BY DEF Commit, PendingIsNew
<1>4. \A l \in ended' \ ended :
         /\ req[p].kind \in Logouts
         /\ \E t \in DOMAIN req[p].rows : req[p].rows[t].login = l
  BY DEF Commit
<1>5. ended \subseteq ended' /\ ended' \subseteq used
  BY <1>4 DEF LoginsUsed, Commit
<1>6. TypeOK'
  <2>1. IsMap(table', used', Row)
    BY <1>2, <1>3 DEF IsMap, TypeOK
  <2> QED
    BY <1>1, <1>2, <1>5, <2>1, EmptyMapIsMap DEF TypeOK, Kinds
<1>7. RequestStage' /\ OneOld' /\ HoldsOld'
  BY <1>1, <1>2, EmptyMapEmpty DEF RequestStage, OneOld, Logouts, HoldsOld
<1>8. RowsLocked'
  BY <1>1, <1>3, EmptyMapEmpty DEF RowsLocked, PendingIsNew
<1>9. RowsImmutable'
  BY <1>1, <1>3, EmptyMapEmpty DEF RowsImmutable, PendingIsNew
<1>10. PendingIsNew'
  BY <1>1, <1>3, EmptyMapEmpty DEF PendingIsNew
<1>11. LoginsUsed'
  BY <1>1, <1>2, <1>3, <1>5, EmptyMapEmpty DEF LoginsUsed
<1>12. PendingLogin'
  <2> SUFFICES ASSUME NEW q \in Requests \ {p}, NEW t \in DOMAIN req[q].ins,
                      req[q].kind = "login"
               PROVE  /\ t \notin ended'
                      /\ \A o \in DOMAIN table' : table'[o].login # t
    BY <1>1, EmptyMapEmpty DEF PendingLogin
  <2>1. t \notin ended'
    BY <1>4 DEF PendingLogin
  <2>2. ASSUME NEW o \in DOMAIN req[p].ins
        PROVE  req[p].ins[o].login # t
    BY DEF PendingLogin, PendingIsNew, RequestStage, TypeOK, Kinds, Logouts
  <2> QED
    BY <1>3, <2>1, <2>2 DEF PendingLogin
<1>13. OneTokenPerLogin'
  <2> SUFFICES ASSUME ~missed, NEW t \in DOMAIN req[p].ins,
                      NEW o \in DOMAIN table \ req[p].del,
                      req[p].ins[t].login = table[o].login
               PROVE  FALSE
    BY <1>2, <1>3 DEF OneTokenPerLogin, PendingIsNew
  <2>1. req[p].kind = "refresh"
    BY DEF PendingLogin, RequestStage, TypeOK, Kinds, Logouts
  <2> QED
    BY <1>2, <2>1 DEF PendingLogin, HoldsOld, RowsLocked, RowsImmutable, OneTokenPerLogin
<1>14. ASSUME NEW t \in DOMAIN req[p].ins, req[p].ins[t].login \notin raced
       PROVE  /\ \A o \in DOMAIN table \ req[p].del :
                    req[p].ins[t].login # table[o].login
              /\ \A q \in Requests \ {p} : \A o \in DOMAIN req[q].rows :
                    req[q].rows[o].login # req[p].ins[t].login
              /\ req[p].ins[t].login \notin ended
  <2>1. CASE req[p].kind = "login"
    BY <2>1 DEF PendingLogin
  <2>2. CASE req[p].kind = "refresh"
    <3> PICK o \in DOMAIN req[p].rows : req[p].ins[t].login = req[p].rows[o].login
      BY <2>2 DEF PendingLogin
    <3>1. o \in DOMAIN table /\ o \in req[p].del /\ table[o] = req[p].rows[o]
      BY <1>2, <1>14, <2>2 DEF Unraced, RowsLocked, RowsImmutable
    <3>2. \A q \in Requests \ {p} : \A x \in DOMAIN req[q].rows :
             req[q].rows[x].login # req[p].ins[t].login
      BY <1>14, <2>2 DEF Unraced
    <3>3. req[p].ins[t].login \notin ended
      BY <1>14, <2>2 DEF EndedIsGone
    <3> QED
      BY <1>14, <3>1, <3>2, <3>3 DEF Unraced
  <2> QED
    BY <2>1, <2>2 DEF RequestStage, TypeOK, Kinds, Logouts
<1>15. Unraced'
  <2>1. ASSUME NEW t \in DOMAIN table', NEW o \in DOMAIN table',
               table'[t].login = table'[o].login, t # o
        PROVE  table'[t].login \in raced'
    BY <1>2, <1>3, <1>14, <2>1 DEF Unraced, PendingIsNew
  <2>2. ASSUME NEW q \in Requests \ {p}, NEW t \in DOMAIN req[q].rows,
               req[q].rows[t].login \notin raced, req[q].kind = "refresh"
        PROVE  t \in DOMAIN table'
    <3>1. t \in DOMAIN table
      BY <2>2 DEF Unraced
    <3>2. t \notin DOMAIN req[p].rows
      BY <2>2 DEF Unraced, RowsImmutable
    <3> QED
      BY <1>3, <3>1, <3>2 DEF TypeOK
  <2>3. ASSUME NEW q \in Requests \ {p}, NEW t \in DOMAIN req[q].rows,
               req[q].rows[t].login \notin raced, req[q].kind \in Logouts,
               NEW o \in DOMAIN table', table'[o].login = req[q].rows[t].login
        PROVE  o = t
    BY <1>3, <1>14, <2>3 DEF Unraced
  <2> QED
    BY <1>1, <1>2, <2>1, <2>2, <2>3, EmptyMapEmpty DEF Unraced
<1>16. EndedIsGone'
  <2> SUFFICES ASSUME NEW l \in ended' \ raced
               PROVE  /\ \A t \in DOMAIN table' : table'[t].login # l
                      /\ \A q \in Requests \ {p} : \A t \in DOMAIN req[q].rows :
                            req[q].kind = "refresh" => req[q].rows[t].login # l
    BY <1>1, <1>2, EmptyMapEmpty DEF EndedIsGone
  <2>1. CASE l \in ended
    BY <1>3, <1>14, <2>1 DEF EndedIsGone
  <2>2. CASE l \notin ended
    <3>1. PICK t \in DOMAIN req[p].rows : req[p].rows[t].login = l
      BY <1>4, <2>2
    <3>2. req[p].kind \in Logouts
      BY <1>4, <2>2
    <3>3. \A o \in DOMAIN table : table[o].login = l => o \in req[p].del
      BY <1>2, <3>1, <3>2 DEF Unraced, RowsLocked
    <3>4. DOMAIN req[p].ins = {}
      BY <3>2 DEF RequestStage
    <3> QED
      BY <1>3, <3>1, <3>2, <3>3, <3>4 DEF Unraced
  <2> QED
    BY <2>1, <2>2
<1> QED
  BY <1>1, <1>6, <1>7, <1>8, <1>9, <1>10, <1>11, <1>12, <1>13, <1>15, <1>16

\* The start of a request reads rows of the table and changes nothing else
\* there is; a login that it shares with another request is raced from now on
\* if one of the two is a refresh.
Begins(p, kind, pc, u, rows) ==
    /\ req[p] = Idle
    /\ req' = [req EXCEPT ![p] = Busy(kind, pc, u, rows)]
    /\ BeginFrame
    /\ DOMAIN rows \subseteq DOMAIN table
    /\ rows = [t \in DOMAIN rows |-> table[t]]
    /\ kind \in Kinds
    /\ pc = IF kind = "login" THEN "create" ELSE "revoke"
    /\ kind = "login" => DOMAIN rows = {}
    /\ kind = "refresh" => DOMAIN rows # {} /\ \A t, o \in DOMAIN rows : t = o
    /\ raced \subseteq raced' /\ raced' \subseteq Tokens
    /\ \A t \in DOMAIN rows : \A q \in Requests \ {p} : \A o \in DOMAIN req[q].rows :
          /\ table[t].login = req[q].rows[o].login
          /\ kind = "refresh" \/ req[q].kind = "refresh"
          => table[t].login \in raced'

\* A request begins: it has read its rows and written nothing, so all that is
\* to show is what it will do to them, and that races are noted.
LEMMA BeginInv ==
    ASSUME AuthInv, NEW p \in Requests, NEW kind, NEW pc, NEW u \in Users, NEW rows,
           Begins(p, kind, pc, u, rows)
    PROVE  AuthInv'
<1> USE DEF AuthInv
<1>0. req' = [req EXCEPT ![p] = Busy(kind, pc, u, rows)]
  BY DEF Begins
<1>1. /\ RequestShape'
      /\ \A q \in Requests \ {p} : req'[q] = req[q]
      /\ req'[p].kind = kind
      /\ req'[p].pc = pc
      /\ req'[p].user = u
      /\ req'[p].rows = rows
      /\ req'[p].del = {}
      /\ req'[p].ins = EmptyMap
  BY <1>0, BeginEffect
<1> USE DEF Begins
<1>2. /\ table' = table /\ expired' = expired /\ used' = used /\ missed' = missed
      /\ failures' = failures /\ ended' = ended
  BY DEF BeginFrame
<1>3. \A t \in DOMAIN rows : t \in DOMAIN table /\ rows[t] = table[t]
  OBVIOUS
<1>4. TypeOK'
  <2>1. IsMap(rows, used, Row)
    BY <1>3 DEF TypeOK, IsMap
  <2> QED
    BY <1>1, <1>2, <2>1, EmptyMapIsMap DEF TypeOK
<1>5. RequestStage' /\ OneOld' /\ RowsLocked' /\ HoldsOld'
  BY <1>1, <1>2, EmptyMapEmpty
  DEF RequestStage, OneOld, RowsLocked, HoldsOld, Logouts
<1>6. RowsImmutable' /\ LoginsUsed'
  BY <1>1, <1>2, <1>3, EmptyMapEmpty DEF RowsImmutable, LoginsUsed
<1>7. PendingIsNew' /\ PendingLogin'
  BY <1>1, <1>2, <1>3, EmptyMapEmpty DEF PendingIsNew, PendingLogin
<1>8. OneTokenPerLogin'
  BY <1>2 DEF OneTokenPerLogin
<1>9. Unraced'
  <2>1. \A t, o \in DOMAIN table :
           table[t].login = table[o].login /\ t # o => table[t].login \in raced'
    BY DEF Unraced
  <2>2. ASSUME NEW t \in DOMAIN rows, rows[t].login \notin raced'
        PROVE  /\ kind = "refresh" => \A q \in Requests \ {p} :
                     \A o \in DOMAIN req[q].rows : req[q].rows[o].login # rows[t].login
               /\ \A o \in DOMAIN table : table[o].login = rows[t].login => o = t
    BY <1>3, <2>1, <2>2
  <2>3. ASSUME NEW q \in Requests \ {p}, NEW t \in DOMAIN req[q].rows,
               req[q].rows[t].login \notin raced', req[q].kind = "refresh"
        PROVE  \A o \in DOMAIN rows : rows[o].login # req[q].rows[t].login
    BY <1>3, <2>3
  <2> QED
    BY <1>1, <1>2, <1>3, <2>1, <2>2, <2>3 DEF Unraced
<1>10. EndedIsGone'
  BY <1>1, <1>2, <1>3 DEF EndedIsGone
<1> QED
  BY <1>1, <1>4, <1>5, <1>6, <1>7, <1>8, <1>9, <1>10

\* LoginsOf, for a login that another request has read.
LEMMA SharedLogin ==
    ASSUME TypeOK, NEW kinds \in SUBSET Kinds, NEW q \in Requests,
           req[q].kind \in kinds, NEW o \in DOMAIN req[q].rows
    PROVE  req[q].rows[o].login \in LoginsOf(kinds)
BY DEF LoginsOf

\* Tokens of the table have a user and a login.
LEMMA TableRows ==
    ASSUME TypeOK, NEW t \in DOMAIN table
    PROVE  table[t].user \in Users /\ table[t].login \in Tokens /\ t \in Tokens
BY DEF TypeOK, IsMap, Row

\* A login reads no row.
LEMMA LoginInv ==
    ASSUME AuthInv, NEW p \in Requests, NEW u \in Users, Login(p, u)
    PROVE  AuthInv'
<1>1. /\ req[p] = Idle /\ BeginFrame /\ raced' = raced /\ raced \subseteq Tokens
      /\ req' = [req EXCEPT ![p] = Busy("login", "create", u, EmptyMap)]
  BY DEF Login, AuthInv, TypeOK
<1>2. DOMAIN EmptyMap = {} /\ EmptyMap = [t \in DOMAIN EmptyMap |-> table[t]]
  BY DEF EmptyMap
<1> QED
  BY <1>1, <1>2, BeginInv DEF Begins, Kinds

\* A refresh has read one row; any other request on that login is a race.
LEMMA RefreshInv ==
    ASSUME AuthInv, NEW p \in Requests, NEW t \in Tokens, Refresh(p, t)
    PROVE  AuthInv'
<1> DEFINE rows == OneRow(t)
<1>1. /\ req[p] = Idle /\ BeginFrame /\ t \in DOMAIN table
      /\ req' = [req EXCEPT ![p] = Busy("refresh", "revoke", table[t].user, rows)]
      /\ raced' = raced \cup ({table[t].login} \cap LoginsOf(Kinds))
  BY DEF Refresh
<1>2. DOMAIN rows = {t} /\ rows = [x \in DOMAIN rows |-> table[x]]
  BY DEF OneRow
<1>3. table[t].user \in Users /\ table[t].login \in Tokens
  BY <1>1, TableRows DEF AuthInv
<1>4. \A q \in Requests : \A o \in DOMAIN req[q].rows :
         req[q].rows[o].login \in LoginsOf(Kinds)
  BY SharedLogin DEF AuthInv, TypeOK
<1>5. raced \subseteq raced' /\ raced' \subseteq Tokens
  BY <1>1, <1>3 DEF AuthInv, TypeOK
<1> HIDE DEF rows
<1>6. Begins(p, "refresh", "revoke", table[t].user, rows)
  BY <1>1, <1>2, <1>4, <1>5 DEF Begins, Kinds
<1> QED
  BY <1>3, <1>6, BeginInv

\* A logout has read one row; a refresh of that login is a race.
LEMMA LogoutInv ==
    ASSUME AuthInv, NEW p \in Requests, NEW t \in Tokens, Logout(p, t)
    PROVE  AuthInv'
<1> DEFINE rows == OneRow(t)
<1>1. /\ req[p] = Idle /\ BeginFrame /\ t \in DOMAIN table
      /\ req' = [req EXCEPT ![p] = Busy("logout", "revoke", table[t].user, rows)]
      /\ raced' = raced \cup ({table[t].login} \cap LoginsOf({"refresh"}))
  BY DEF Logout
<1>2. DOMAIN rows = {t} /\ rows = [x \in DOMAIN rows |-> table[x]]
  BY DEF OneRow
<1>3. table[t].user \in Users /\ table[t].login \in Tokens
  BY <1>1, TableRows DEF AuthInv
<1>4. \A q \in Requests : \A o \in DOMAIN req[q].rows :
         req[q].kind = "refresh" => req[q].rows[o].login \in LoginsOf({"refresh"})
  BY SharedLogin DEF AuthInv, Kinds
<1>5. raced \subseteq raced' /\ raced' \subseteq Tokens
  BY <1>1, <1>3 DEF AuthInv, TypeOK
<1> HIDE DEF rows
<1>6. Begins(p, "logout", "revoke", table[t].user, rows)
  BY <1>1, <1>2, <1>4, <1>5 DEF Begins, Kinds
<1> QED
  BY <1>3, <1>6, BeginInv

\* A logout of all has read the user's rows; a refresh of any of them is a race.
LEMMA LogoutAllInv ==
    ASSUME AuthInv, NEW p \in Requests, NEW u \in Users, LogoutAll(p, u)
    PROVE  AuthInv'
<1> DEFINE own  == {t \in DOMAIN table : table[t].user = u}
           rows == [t \in own |-> table[t]]
<1>1. /\ req[p] = Idle /\ BeginFrame
      /\ req' = [req EXCEPT ![p] = Busy("logoutAll", "revoke", u, rows)]
      /\ raced' = raced \cup ({table[t].login : t \in own} \cap LoginsOf({"refresh"}))
  BY DEF LogoutAll
<1>2. DOMAIN rows = own /\ rows = [x \in DOMAIN rows |-> table[x]]
  OBVIOUS
<1>3. \A t \in own : t \in DOMAIN table /\ table[t].login \in Tokens
  BY TableRows DEF AuthInv
<1>4. \A q \in Requests : \A o \in DOMAIN req[q].rows :
         req[q].kind = "refresh" => req[q].rows[o].login \in LoginsOf({"refresh"})
  BY SharedLogin DEF AuthInv, Kinds
<1>5. raced \subseteq raced' /\ raced' \subseteq Tokens
  BY <1>1, <1>3 DEF AuthInv, TypeOK
<1> HIDE DEF own, rows
<1>6. \A t \in own : table[t].login \in LoginsOf({"refresh"}) => table[t].login \in raced'
  BY <1>1
<1>7. Begins(p, "logoutAll", "revoke", u, rows)
  BY <1>1, <1>2, <1>3, <1>4, <1>5, <1>6 DEF Begins, Kinds
<1> QED
  BY <1>7, BeginInv

-----------------------------------------------------------------------------
(* The theorems.                                                           *)

\* Every step of any request keeps the invariant.
LEMMA StepInv == AuthInv /\ [Next]_vars => AuthInv'
<1> SUFFICES ASSUME AuthInv, [Next]_vars PROVE AuthInv'
  OBVIOUS
<1>1. CASE UNCHANGED vars
  BY <1>1
  DEF vars, AuthInv, TypeOK, RequestShape, RequestStage, RowsLocked,
      RowsImmutable, PendingIsNew, LoginsUsed, PendingLogin, OneOld, HoldsOld,
      OneTokenPerLogin, Unraced, EndedIsGone
<1>2. ASSUME NEW p \in Requests, NEW u \in Users, Login(p, u) \/ LogoutAll(p, u)
      PROVE  AuthInv'
  BY <1>2, LoginInv, LogoutAllInv
<1>3. ASSUME NEW p \in Requests, NEW t \in Tokens,
             Refresh(p, t) \/ Logout(p, t) \/ Create(p, t)
      PROVE  AuthInv'
  BY <1>3, RefreshInv, LogoutInv, CreateInv
<1>4. ASSUME NEW p \in Requests, Revoke(p) \/ Commit(p) \/ Rollback(p)
      PROVE  AuthInv'
  BY <1>4, RevokeInv, CommitInv, RollbackInv
<1>5. ASSUME NEW t \in Tokens, Expire(t)
      PROVE  AuthInv'
  BY <1>5, ExpireInv
<1> QED
  BY <1>1, <1>2, <1>3, <1>4, <1>5 DEF Next

\* The inductive invariant holds of the refresh tokens in every state.
THEOREM AuthInvariant == Spec => []AuthInv
BY InitInv, StepInv, PTL DEF Spec

\* Tables, requests and histories keep their types (auth_service.py), for any
\* users, tokens and requests.
THEOREM AuthTyped == Spec => []TypeOK
<1>1. AuthInv => TypeOK
  BY DEF AuthInv
<1> QED
  BY <1>1, AuthInvariant, PTL

\* A chain of refreshes leaves one token of its login in the table, whatever
\* interleaves and is rolled back, until a revoke has missed its row.
THEOREM OneTokenPerLoginHolds == Spec => []OneTokenPerLogin
<1>1. AuthInv => OneTokenPerLogin
  BY DEF AuthInv
<1> QED
  BY <1>1, AuthInvariant, PTL

\* After the answer to a logout no token of the login is in the table, unless
\* a refresh of it overlapped another request.
THEOREM LoggedOutStaysOutHolds == Spec => []LoggedOutStaysOut
<1>1. AuthInv => LoggedOutStaysOut
  BY DEF AuthInv, EndedIsGone, LoggedOutStaysOut
<1> QED
  BY <1>1, AuthInvariant, PTL
=============================================================================
