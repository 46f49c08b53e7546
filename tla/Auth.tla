-------------------------------- MODULE Auth --------------------------------
(***************************************************************************)
(* The refresh tokens of the Auth service (auth_service.py and             *)
(* refresh_token_repo.py): login issues one, refresh exchanges it for a    *)
(* new one, logout and logout_all revoke.                                  *)
(*                                                                         *)
(* Every request is one transaction (unitofwork.py) of several statements, *)
(* and requests interleave between them.  The database (PostgreSQL, READ   *)
(* COMMITTED) is external: a statement sees what is committed when it      *)
(* starts; a DELETE waits for another transaction that is deleting the     *)
(* same row, and then finds the row gone, or still there after a rollback. *)
(* SQLAlchemy only warns when a DELETE matches no row.                     *)
(*                                                                         *)
(* Access tokens are not stored and cannot be revoked; register, me and    *)
(* update_me do not touch tokens, and metrics are left out.                *)
(***************************************************************************)
EXTENDS Integers, GoMap

CONSTANTS
    Users,       \* registered users
    Tokens,      \* refresh tokens, each generated once (uuid4)
    Requests,    \* requests that may be handled at the same time
    MaxFailures, \* bound: transactions that fail
    None

ASSUME FailuresAssumption == MaxFailures \in Nat
ASSUME NoneAssumption == None \notin Tokens

VARIABLES
    table,     \* refresh_tokens, committed: token -> [user, login]
    expired,   \* tokens whose expires_at has passed
    req,       \* request -> what it is doing
    failures,  \* transactions that have failed
    used,      \* history: tokens generated so far
    missed,    \* history: a revoke has found its row gone
    raced,     \* history: logins refreshed while another request used them
    ended      \* history: logins that a logout has answered for with 204

vars == <<table, expired, req, failures, used, missed, raced, ended>>

-----------------------------------------------------------------------------
\* A row; login is the token the login issued, passed on by every refresh.
Row == [user : Users, login : Tokens]

Kinds   == {"login", "refresh", "logout", "logoutAll"}
Logouts == {"logout", "logoutAll"}

\* A request: rows are those it is about, as it read them; del and ins what it
\* has deleted and inserted but not committed.
Idle == [kind |-> "login", pc |-> "idle", user |-> None, rows |-> EmptyMap,
         del |-> {}, ins |-> EmptyMap]

Busy(kind, pc, user, rows) ==
    [Idle EXCEPT !.kind = kind, !.pc = pc, !.user = user, !.rows = rows]

\* Logins that requests of one of these kinds are dealing with.
LoginsOf(kinds) ==
    UNION {{req[p].rows[t].login : t \in DOMAIN req[p].rows} :
              p \in {p \in Requests : req[p].kind \in kinds}}

\* Rows locked by a DELETE of another transaction.
LockedFor(p) == UNION {req[r].del : r \in Requests \ {p}}

Init ==
    /\ table = EmptyMap
    /\ expired = {}
    /\ req = [p \in Requests |-> Idle]
    /\ failures = 0
    /\ used = {}
    /\ missed = FALSE
    /\ raced = {}
    /\ ended = {}

-----------------------------------------------------------------------------
(* How the handlers begin.                                                 *)

BeginFrame == UNCHANGED <<table, expired, failures, used, missed, ended>>

\* login, with credentials that are right; others are refused.
Login(p, u) ==
    /\ req[p] = Idle
    /\ req' = [req EXCEPT ![p] = Busy("login", "create", u, EmptyMap)]
    /\ UNCHANGED raced
    /\ BeginFrame

OneRow(t) == [x \in {t} |-> table[x]]

\* refresh: a token that is unknown or has expired is refused.
Refresh(p, t) ==
    /\ req[p] = Idle
    /\ t \in DOMAIN table \ expired
    /\ req' = [req EXCEPT ![p] = Busy("refresh", "revoke", table[t].user, OneRow(t))]
    /\ raced' = raced \cup ({table[t].login} \cap LoginsOf(Kinds))
    /\ BeginFrame

\* logout: nothing to do for an unknown token.
Logout(p, t) ==
    /\ req[p] = Idle
    /\ t \in DOMAIN table
    /\ req' = [req EXCEPT ![p] = Busy("logout", "revoke", table[t].user, OneRow(t))]
    /\ raced' = raced \cup ({table[t].login} \cap LoginsOf({"refresh"}))
    /\ BeginFrame

\* logout_all: one DELETE, of the rows that are committed when it starts.
LogoutAll(p, u) ==
    LET own == {t \in DOMAIN table : table[t].user = u}
    IN  /\ req[p] = Idle
        /\ req' = [req EXCEPT ![p] = Busy("logoutAll", "revoke", u,
                                          [t \in own |-> table[t]])]
        /\ raced' = raced \cup
                    ({table[t].login : t \in own} \cap LoginsOf({"refresh"}))
        /\ BeginFrame

-----------------------------------------------------------------------------
(* The statements.                                                         *)

\* What the DELETE of p takes: its rows that are still there.
Deleted(p) == DOMAIN req[p].rows \cap DOMAIN table

\* A mutant: refresh leaves the old token as it is.
Revoke_KeepsOld(p) ==
    /\ req[p].pc = "revoke"
    /\ req' = [req EXCEPT ![p].pc = IF req[p].kind = "refresh" THEN "create"
                                    ELSE "commit"]
    /\ UNCHANGED <<table, expired, failures, used, missed, raced, ended>>

\* revoke, or revoke_all_for_user: whether the rows are still there or not.
Revoke(p) ==
    /\ req[p].pc = "revoke"
    /\ DOMAIN req[p].rows \cap LockedFor(p) = {}
    /\ req' = [req EXCEPT ![p].pc = IF req[p].kind = "refresh" THEN "create"
                                    ELSE "commit",
                          ![p].del = Deleted(p)]
    /\ missed' = (missed \/ Deleted(p) # DOMAIN req[p].rows)
    /\ UNCHANGED <<table, expired, failures, used, raced, ended>>

\* The row of a new token: of the login it goes back to.
NewRow(p, t) ==
    [user  |-> req[p].user,
     login |-> IF req[p].kind = "login" THEN t
               ELSE CHOOSE l \in {req[p].rows[x].login : x \in DOMAIN req[p].rows} : TRUE]

\* A mutant: the new token belongs to nobody.
Create_NoOwner(p, t) ==
    /\ req[p].pc = "create"
    /\ t \notin used
    /\ used' = used \cup {t}
    /\ req' = [req EXCEPT ![p].pc = "commit",
                          ![p].ins = [x \in {t} |-> [user |-> None, login |-> t]]]
    /\ UNCHANGED <<table, expired, failures, missed, raced, ended>>

\* create: a new token.
Create(p, t) ==
    /\ req[p].pc = "create"
    /\ t \notin used
    /\ used' = used \cup {t}
    /\ req' = [req EXCEPT ![p].pc = "commit",
                          ![p].ins = [x \in {t} |-> NewRow(p, x)]]
    /\ UNCHANGED <<table, expired, failures, missed, raced, ended>>

\* A mutant: logouts run in readonly() and are not committed.
Commit_ReadOnly(p) ==
    /\ req[p].pc = "commit"
    /\ table' = [t \in DOMAIN table \cup DOMAIN req[p].ins |->
                    IF t \in DOMAIN table THEN table[t] ELSE req[p].ins[t]]
    /\ ended' = IF req[p].kind \notin Logouts THEN ended
                ELSE ended \cup {req[p].rows[t].login : t \in DOMAIN req[p].rows}
    /\ req' = [req EXCEPT ![p] = Idle]
    /\ UNCHANGED <<expired, failures, used, missed, raced>>

\* The transaction commits, and the answer is sent.
Commit(p) ==
    /\ req[p].pc = "commit"
    /\ table' = [t \in (DOMAIN table \ req[p].del) \cup DOMAIN req[p].ins |->
                    IF t \in DOMAIN table THEN table[t] ELSE req[p].ins[t]]
    /\ ended' = IF req[p].kind \notin Logouts THEN ended
                ELSE ended \cup {req[p].rows[t].login : t \in DOMAIN req[p].rows}
    /\ req' = [req EXCEPT ![p] = Idle]
    /\ UNCHANGED <<expired, failures, used, missed, raced>>

\* A statement or the commit fails: nothing of it remains.
Rollback(p) ==
    /\ req[p] # Idle
    /\ failures < MaxFailures
    /\ failures' = failures + 1
    /\ req' = [req EXCEPT ![p] = Idle]
    /\ UNCHANGED <<table, expired, used, missed, raced, ended>>

\* REFRESH_TOKEN_EXPIRE_DAYS pass; the row stays.
Expire(t) ==
    /\ t \in DOMAIN table \ expired
    /\ expired' = expired \cup {t}
    /\ UNCHANGED <<table, req, failures, used, missed, raced, ended>>

Next ==
    \/ \E p \in Requests, u \in Users : Login(p, u) \/ LogoutAll(p, u)
    \/ \E p \in Requests, t \in Tokens :
          Refresh(p, t) \/ Logout(p, t) \/ Create(p, t)
    \/ \E p \in Requests : Revoke(p) \/ Commit(p) \/ Rollback(p)
    \/ \E t \in Tokens : Expire(t)

Spec == Init /\ [][Next]_vars

-----------------------------------------------------------------------------
(* Properties.                                                             *)

\* The types of the table, of the requests and of the histories.
TypeOK ==
    /\ IsMap(table, used, Row)
    /\ expired \subseteq used
    /\ \A p \in Requests :
          /\ req[p].kind \in Kinds
          /\ req[p].pc \in {"idle", "revoke", "create", "commit"}
          /\ req[p].user \in Users \cup {None}
          /\ IsMap(req[p].rows, used, Row)
          /\ req[p].del \subseteq DOMAIN req[p].rows
          /\ IsMap(req[p].ins, used, Row)
    /\ failures \in 0 .. MaxFailures
    /\ used \subseteq Tokens
    /\ missed \in BOOLEAN
    /\ raced \subseteq Tokens
    /\ ended \subseteq Tokens

\* Every login has at most one token in the table, through any number of
\* refreshes and whatever is rolled back, as long as no revoke has found its
\* row gone.
\* Two refreshes with one token at the same time break this: the second
\* DELETE matches nothing and both get a new token.
OneTokenPerLogin ==
    ~missed => \A t, o \in DOMAIN table : table[t].login = table[o].login => t = o

\* A login that logout or logout_all has ended has no token in the table any
\* more, unless it was refreshed at the same time as something else: a refresh
\* that has read the old token issues a new one after the logout has answered.
LoggedOutStaysOut ==
    \A t \in DOMAIN table : table[t].login \in ended => table[t].login \in raced
=============================================================================
