--------------------------- MODULE SessionService ---------------------------
(***************************************************************************)
(* The Session Service (SessionService/Game, Handlers, Storage/Redis,      *)
(* Rabbit): codes under which games can be joined, kept in Redis, and the  *)
(* events that tell the Real-Time service what to do.                      *)
(*                                                                         *)
(* One action per command to Redis, to the broker or to the Quiz service:  *)
(* between any two of them other requests run, a command may fail, or the  *)
(* process may end.  A command that fails may have been executed all the   *)
(* same.  One that the client sends again does what it does once: HSET,    *)
(* DEL and SADD of the same values; no other command on the key is assumed *)
(* to come between.  Every handler first refuses other methods and bodies  *)
(* it cannot decode, which changes nothing.  Signing a token cannot fail   *)
(* for these claims; tokens carry the code and nothing else of a session.  *)
(***************************************************************************)
EXTENDS Integers, GoMap

CONSTANTS
    Codes,        \* session codes GenerateSessionCode may return
    MaxRequests,  \* bound: HTTP requests that arrive
    Kinds,        \* the kinds of requests that arrive
    RedisFaults,  \* TRUE: a command to Redis may fail
    MaxOutages,   \* bound: closed channels and crashes
    NoCode

ASSUME KindsAssumption ==
    Kinds \subseteq {"create", "join", "validate", "start",
                     "next", "end", "health"}
ASSUME FaultsAssumption == RedisFaults \in BOOLEAN /\ MaxOutages \in Nat
ASSUME CodesAssumption == NoCode \notin Codes
ASSUME MaxRequestsAssumption == MaxRequests \in Nat

VARIABLES
    sessions,     \* Redis "session:<code>" -> the id in the hash
    players,      \* codes with a key "session:<code>:players" in Redis
    published,    \* events published so far
    channelOpen,  \* the AMQP connection and channel made at start-up
    running,      \* the process is up
    outages,      \* closed channels and crashes so far
    req,          \* the requests that have arrived
    deleted       \* history: <<code, id>> removed by an end

redisVars == <<sessions, players>>
processVars == <<channelOpen, running, outages>>
vars == <<redisVars, published, processVars, req, deleted>>

-----------------------------------------------------------------------------
\* Requests by order of arrival; a create's number is also its session's uuid.
Requests == 1 .. MaxRequests

Request ==
    [kind   : Kinds,
     pc     : {"pick", "save", "fetch", "publish", "validate", "add", "delete",
               "health", "done"},
     code   : Codes \cup {NoCode},
     tries  : 0 .. 2,                           \* codes found taken
     status : {"none", "ok", "refused", "error", "lost"},
     luck   : {"free", "exhausted", "blind"},   \* history: why it stopped
     met    : SUBSET Requests,                  \* history: requests that had
                                                \* picked its code as well
     found  : SUBSET Requests]                  \* history: the session that
                                                \* was open when it arrived

FirstPc == [create |-> "pick", join |-> "validate",
            validate |-> "validate", start |-> "fetch", next |-> "publish",
            end |-> "delete", health |-> "health"]

\* The event a request publishes.
EventOf(r) ==
    [kind |-> CASE req[r].kind = "next" -> "question.start"
                [] req[r].kind = "end"  -> "session.end"
                [] OTHER                -> "session.start",
     code |-> req[r].code, by |-> r]

Init ==
    /\ sessions = EmptyMap
    /\ players = {}
    /\ published = {}
    /\ channelOpen = TRUE
    /\ running = TRUE
    /\ outages = 0
    /\ req = EmptyMap
    /\ deleted = {}

\* A request reaches its handler, which decodes it.
Arrive(r, kind, code) ==
    /\ running
    /\ r \notin DOMAIN req /\ \A q \in 1 .. (r - 1) : q \in DOMAIN req
    /\ (kind \in {"create", "health"}) <=> (code = NoCode)
    /\ req' = Put(req, r, [kind |-> kind, pc |-> FirstPc[kind], code |-> code,
                           tries |-> 0, status |-> "none", luck |-> "free",
                           met |-> {},
                           found |-> IF code \in DOMAIN sessions /\ kind = "end"
                                     THEN {sessions[code]} ELSE {}])
    /\ UNCHANGED <<redisVars, published, processVars, deleted>>

GoTo(r, pc) == req' = [req EXCEPT ![r].pc = pc]

Reply(r, status) == req' = [req EXCEPT ![r].pc = "done", ![r].status = status]

-----------------------------------------------------------------------------
(* Storage/Redis.                                                          *)

\* CodeExist: an error counts as "does not exist".
CodeExist(code) ==
    {code \in DOMAIN sessions} \cup (IF RedisFaults THEN {FALSE} ELSE {})

-----------------------------------------------------------------------------
(* CreateSessionHandler, and its copy for a built-in quiz.                 *)

\* The requests that are between choosing this code and saving it.
Savers(code) == {r \in DOMAIN req : req[r].pc = "save" /\ req[r].code = code}

\* The request has settled for a code.
Settle(r, code, luck) ==
    req' = [q \in DOMAIN req |->
              IF q = r
              THEN [req[r] EXCEPT !.pc = "save", !.code = code, !.tries = 0,
                                  !.luck = luck, !.met = Savers(code)]
              ELSE IF q \in Savers(code)
              THEN [req[q] EXCEPT !.met = @ \cup {r}]
              ELSE req[q]]

\* A mutant: the code is not looked up.
PickCode_Unchecked(r) ==
    /\ req[r].pc = "pick"
    /\ \E code \in Codes : Settle(r, code, "free")
    /\ UNCHANGED <<redisVars, published, processVars, deleted>>

\* NewSession: three attempts to find a code that is free; the third code is
\* used whether it is or not.
PickCode(r) ==
    /\ req[r].pc = "pick"
    /\ \E code \in Codes : \E taken \in CodeExist(code) :
          IF taken /\ req[r].tries < 2
          THEN req' = [req EXCEPT ![r].tries = @ + 1]
          ELSE Settle(r, code, IF taken THEN "exhausted"
                               ELSE IF code \in DOMAIN sessions THEN "blind"
                               ELSE "free")
    /\ UNCHANGED <<redisVars, published, processVars, deleted>>

\* The built-in quiz need not be fetched.
AfterSave == {"fetch", "publish"}

\* A mutant: the error of HSET is dropped.
SaveFails_Ignored(r) ==
    /\ req[r].pc = "save"
    /\ RedisFaults
    /\ \E pc \in AfterSave : GoTo(r, pc)
    /\ UNCHANGED <<redisVars, published, processVars, deleted>>

\* SaveSession: HSET, over whatever the key holds; it has no TTL.
SaveSession(r) ==
    /\ req[r].pc = "save"
    /\ sessions' = Put(sessions, req[r].code, r)
    /\ \E pc \in AfterSave : GoTo(r, pc)
    /\ UNCHANGED <<players, published, processVars, deleted>>

\* HSET failed or its answer was lost: the session may be there all the same.
SaveFails(r) ==
    /\ req[r].pc = "save"
    /\ RedisFaults
    /\ sessions' \in {sessions, Put(sessions, req[r].code, r)}
    /\ Reply(r, "error")
    /\ UNCHANGED <<players, published, processVars, deleted>>

-----------------------------------------------------------------------------
(* SessionStart, of a create or of StartSessionHandler, which asks nobody  *)
(* whether the code exists.                                                *)

\* The Quiz service answers with a quiz, in its own time: http.Get has no
\* timeout.
FetchQuiz(r) ==
    /\ req[r].pc = "fetch"
    /\ GoTo(r, "publish")
    /\ UNCHANGED <<redisVars, published, processVars, deleted>>

\* No connection, another status, or no quiz in the body.
FetchFails(r) ==
    /\ req[r].pc = "fetch"
    /\ Reply(r, "error")
    /\ UNCHANGED <<redisVars, published, processVars, deleted>>

\* PublishSessionStart, PublishQuestionStart or PublishSessionEnd, the last
\* command of its request.  There are no publisher confirms: published means
\* handed to the client library on a channel it believes open.
Publish(r) ==
    /\ req[r].pc = "publish"
    /\ channelOpen
    /\ published' = published \cup {EventOf(r)}
    /\ Reply(r, "ok")
    /\ UNCHANGED <<redisVars, processVars, deleted>>

\* A mutant: the error is logged and the request goes on.
PublishFails_Ignored(r) ==
    /\ req[r].pc = "publish"
    /\ ~channelOpen
    /\ Reply(r, "ok")
    /\ UNCHANGED <<redisVars, published, processVars, deleted>>

\* A mutant: the handler waits for the channel to come back.
PublishFails_Waits(r) ==
    /\ req[r].pc = "publish"
    /\ ~channelOpen
    /\ UNCHANGED vars

\* The channel is closed and nobody opens another.
PublishFails(r) ==
    /\ req[r].pc = "publish"
    /\ ~channelOpen
    /\ Reply(r, "error")
    /\ UNCHANGED <<redisVars, published, processVars, deleted>>

-----------------------------------------------------------------------------
(* ValidateCodeHandler ("join") and ValidateSessionCodeHandler.            *)

ValidateCode(r) ==
    /\ req[r].pc = "validate"
    /\ req[r].kind = "join"
    /\ \E exists \in CodeExist(req[r].code) :
          IF exists THEN GoTo(r, "add") ELSE Reply(r, "refused")
    /\ UNCHANGED <<redisVars, published, processVars, deleted>>

ValidateSessionCode(r) ==
    /\ req[r].pc = "validate"
    /\ req[r].kind = "validate"
    /\ \E exists \in CodeExist(req[r].code) :
          Reply(r, IF exists THEN "ok" ELSE "refused")
    /\ UNCHANGED <<redisVars, published, processVars, deleted>>

\* AddPlayerToSession (SADD and EXPIRE), whether the session still exists or not; the reply has
\* been written and does not depend on it.
AddPlayer(r) ==
    /\ req[r].pc = "add"
    /\ players' = players \cup {req[r].code}
    /\ Reply(r, "ok")
    /\ UNCHANGED <<sessions, published, processVars, deleted>>

\* A SADD that failed and was executed is AddPlayer.
AddPlayerFails(r) ==
    /\ req[r].pc = "add"
    /\ RedisFaults
    /\ Reply(r, "ok")
    /\ UNCHANGED <<redisVars, published, processVars, deleted>>

\* The set lives for an hour after the last player was added.
PlayersExpire(c) ==
    /\ players' = players \ {c}
    /\ UNCHANGED <<sessions, published, processVars, req, deleted>>

-----------------------------------------------------------------------------
(* SessionEndHandler: the code first, then the event.                      *)

\* A mutant: the event first, and the code later if at all.
DeleteSession_Late(r) ==
    /\ req[r].pc = "delete"
    /\ GoTo(r, "publish")
    /\ UNCHANGED <<redisVars, published, processVars, deleted>>

\* A mutant: the hash is emptied, and its key stays.
DeleteSession_Empties(r) ==
    /\ req[r].pc = "delete"
    /\ sessions' = Put(sessions, req[r].code, NoCode)
    /\ GoTo(r, "publish")
    /\ UNCHANGED <<players, published, processVars, deleted>>

\* DEL, which does not mind an absent key.  The players stay.
Del(c) ==
    /\ sessions' = Delete(sessions, c)
    /\ deleted' = deleted \cup ({c} \X {sessions[d] : d \in {c} \cap DOMAIN sessions})

DeleteSession(r) ==
    /\ req[r].pc = "delete"
    /\ Del(req[r].code)
    /\ GoTo(r, "publish")
    /\ UNCHANGED <<players, published, processVars>>

\* DEL failed or its answer was lost: the session may be gone all the same,
\* and nothing is published.
DeleteFails(r) ==
    /\ req[r].pc = "delete"
    /\ RedisFaults
    /\ Del(req[r].code) \/ UNCHANGED <<sessions, deleted>>
    /\ Reply(r, "error")
    /\ UNCHANGED <<players, published, processVars>>

-----------------------------------------------------------------------------
\* HealthHandler, CheckService: Redis first, then a channel.
CheckService(r) ==
    /\ req[r].pc = "health"
    /\ \/ channelOpen /\ Reply(r, "ok")
       \/ (~channelOpen \/ RedisFaults) /\ Reply(r, "error")
    /\ UNCHANGED <<redisVars, published, processVars, deleted>>

(* The process and its connection.                                         *)

\* The broker or the network closes the connection.
ChannelCloses ==
    /\ running
    /\ channelOpen
    /\ outages < MaxOutages
    /\ channelOpen' = FALSE
    /\ outages' = outages + 1
    /\ UNCHANGED <<redisVars, published, running, req, deleted>>

\* The process ends; its requests are never answered.
Crash ==
    /\ running
    /\ outages < MaxOutages
    /\ running' = FALSE
    /\ channelOpen' = FALSE
    /\ outages' = outages + 1
    /\ req' = [r \in DOMAIN req |->
                 IF req[r].pc = "done" THEN req[r]
                 ELSE [req[r] EXCEPT !.pc = "done", !.status = "lost"]]
    /\ UNCHANGED <<redisVars, published, deleted>>

\* CreateSessionManager connects to RabbitMQ and Redis, or the process ends
\* again.
Boot ==
    /\ ~running
    /\ running' = TRUE
    /\ channelOpen' = TRUE
    /\ UNCHANGED <<redisVars, published, outages, req, deleted>>

-----------------------------------------------------------------------------
\* What a handler does by itself; the Quiz service's answer is not.
HandlerStep(r) ==
    /\ r \in DOMAIN req
    /\ \/ PickCode(r) \/ SaveSession(r) \/ SaveFails(r)
       \/ Publish(r) \/ PublishFails(r)
       \/ ValidateCode(r) \/ ValidateSessionCode(r)
       \/ AddPlayer(r) \/ AddPlayerFails(r)
       \/ DeleteSession(r) \/ DeleteFails(r) \/ CheckService(r)

Next ==
    \/ \E r \in Requests, kind \in Kinds, code \in Codes \cup {NoCode} :
          Arrive(r, kind, code)
    \/ \E r \in Requests : HandlerStep(r)
    \/ \E r \in DOMAIN req : FetchQuiz(r) \/ FetchFails(r)
    \/ \E c \in players : PlayersExpire(c)
    \/ ChannelCloses
    \/ Crash
    \/ Boot

\* The server runs its handlers and Redis answers or fails.  Nothing is
\* assumed of the Quiz service.
Fairness == \A r \in Requests : WF_vars(HandlerStep(r))

Spec == Init /\ [][Next]_vars /\ Fairness

-----------------------------------------------------------------------------
(* Properties.                                                             *)

Event == [kind : {"session.start", "question.start", "session.end"},
          code : Codes, by : Requests]

\* The types of the keys in Redis, of the events and of the requests.
TypeOK ==
    /\ IsMap(sessions, Codes, Requests)
    /\ players \subseteq Codes
    /\ published \subseteq Event
    /\ channelOpen \in BOOLEAN
    /\ running \in BOOLEAN
    /\ outages \in 0 .. MaxOutages
    /\ IsMap(req, Requests, Request)
    /\ deleted \subseteq Codes \X Requests

\* The games a host was told about and that nobody has ended since.
Games == {r \in DOMAIN req : /\ req[r].kind = "create"
                             /\ req[r].status = "ok"
                             /\ <<req[r].code, r>> \notin deleted}

\* A game its host was told about can be joined with its code until somebody
\* ends the session of that code, whatever fails or crashes in between.
GameCanBeJoined ==
    \A r \in Games : \/ req[r].code \in DOMAIN sessions
                     \/ \E d \in deleted : d[1] = req[r].code

\* Two games share a code only if one of them ran out of attempts, could not
\* see that the code was taken because Redis failed, or had chosen it while
\* the other was about to save it: creates that do not overlap, with Redis
\* working and a code found, never do.  Or a session of that code has been
\* ended, which freed the code for the other one.
OneGamePerCode ==
    \A r, q \in Games :
        r # q /\ req[r].code = req[q].code =>
            \/ "free" # req[r].luck
            \/ "free" # req[q].luck
            \/ q \in req[r].met
            \/ \E d \in deleted : d[1] = req[r].code

\* A code that lets people in belongs to a game that has been announced, or
\* to a create that is under way or of which the host was told that it failed:
\* what such a create has saved stays behind, as nothing removes it.
OpenIsAnnounced ==
    \A c \in DOMAIN sessions :
        LET r == sessions[c]
        IN  \/ req[r].pc # "done"
            \/ [kind |-> "session.start", code |-> c, by |-> r] \in published
            \/ req[r].status \in {"error", "lost"}

\* Once the end of a session has been announced, its code does not let anyone
\* into that session any more; only a new one may be open under it.
EndClosesFirst ==
    \A r \in DOMAIN req :
        req[r].kind = "end" /\ EventOf(r) \in published =>
            \A c \in DOMAIN sessions : sessions[c] \notin req[r].found

\* A request that is never answered waits for the Quiz service.
HangsOnQuizService ==
    \A r \in Requests :
        <>[](r \in DOMAIN req /\ req[r].pc # "done") =>
            <>[](r \in DOMAIN req /\ req[r].pc = "fetch")
=============================================================================
