----------------------- MODULE SessionService_proofs -----------------------
(***************************************************************************)
(* Proofs about SessionService: its invariants hold for any codes and any  *)
(* number of requests, with or without faults of Redis, and whenever the   *)
(* channel closes or the process ends.                                     *)
(***************************************************************************)
EXTENDS SessionService, TLAPS

-----------------------------------------------------------------------------
(* The inductive invariant.                                                *)

\* Which request is where, and what it knows by then.
RequestStage ==
    \A r \in DOMAIN req :
        /\ req[r].kind \notin {"create", "health"} => req[r].code \in Codes
        /\ req[r].pc \in {"save", "fetch", "publish"} => req[r].code \in Codes
        /\ req[r].pc \in {"pick", "save"} => req[r].kind = "create"
        /\ req[r].pc \in {"validate", "add", "delete"} =>
              req[r].kind \in {"join", "validate", "end"}
        /\ req[r].kind = "create" =>
              req[r].pc \in {"pick", "save", "fetch", "publish", "done"}
        /\ req[r].kind = "end" => req[r].pc \in {"delete", "publish", "done"}
        /\ req[r].pc # "done" => req[r].status = "none"
        /\ req[r].kind # "end" => req[r].found = {}

\* What was published was published by the request it names.
EventsHaveSender == \A e \in published : e.by \in DOMAIN req

\* A create that has got past HSET, and one that is about to reach it.
HasSaved(r) ==
    /\ req[r].kind = "create"
    /\ req[r].pc \in {"fetch", "publish"} \/ req[r].status = "ok"

Saves(r) == req[r].kind = "create" /\ req[r].pc = "save"

\* An id is a create that has saved it, once and under its own code.
Saved(id, c) ==
    /\ id \in DOMAIN req
    /\ req[id].kind = "create"
    /\ req[id].pc \notin {"pick", "save"}
    /\ req[id].code = c

IdsAreSaved ==
    /\ \A c \in DOMAIN sessions : Saved(sessions[c], c)
    /\ \A r \in DOMAIN req : \A id \in req[r].found : Saved(id, req[r].code)

\* Somebody has ended a session of this code.
WasEnded(c) == \E d \in deleted : d[1] = c

\* GameCanBeJoined from the moment of the HSET on.
SavedCanBeJoined ==
    \A r \in DOMAIN req : HasSaved(r) =>
        req[r].code \in DOMAIN sessions \/ WasEnded(req[r].code)

\* Two creates that found the same code free met on the way to saving it.
SharersMet ==
    \A r, q \in DOMAIN req :
        /\ r # q
        /\ HasSaved(r) \/ Saves(r)
        /\ HasSaved(q) \/ Saves(q)
        /\ req[r].code = req[q].code
        /\ req[r].luck = "free" /\ req[q].luck = "free"
        /\ ~WasEnded(req[r].code)
        => q \in req[r].met

\* EndClosesFirst from the moment of the DEL on.
DeletedIsClosed ==
    \A r \in DOMAIN req :
        /\ req[r].kind = "end"
        /\ req[r].pc = "publish" \/ EventOf(r) \in published
        => \A c \in DOMAIN sessions : sessions[c] \notin req[r].found

SessionInv ==
    /\ TypeOK
    /\ RequestStage
    /\ EventsHaveSender
    /\ IdsAreSaved
    /\ SavedCanBeJoined
    /\ SharersMet
    /\ OpenIsAnnounced
    /\ DeletedIsClosed

-----------------------------------------------------------------------------
(* Requests and events.                                                    *)

\* An event names its request and its code; the kind follows the request's.
LEMMA EventFields ==
    ASSUME NEW r
    PROVE  /\ EventOf(r).by = r
           /\ EventOf(r).code = req[r].code
           /\ EventOf(r).kind \in {"session.start", "question.start", "session.end"}
           /\ req[r].kind = "create" => EventOf(r).kind = "session.start"
           /\ EventOf(r) = [kind |-> EventOf(r).kind, code |-> req[r].code, by |-> r]
BY DEF EventOf

\* It stays the same as long as the request's kind and code do.
LEMMA SameEvent ==
    ASSUME NEW r, req'[r].kind = req[r].kind, req'[r].code = req[r].code
    PROVE  EventOf(r)' = EventOf(r)
BY DEF EventOf

\* A step of one request that changes its pc and its status only.
Moves(r, pc, status) ==
    /\ req' = [q \in DOMAIN req |-> req'[q]]
    /\ \A q \in DOMAIN req \ {r} : req'[q] = req[q]
    /\ req'[r] \in Request
    /\ req'[r].pc = pc
    /\ req'[r].status = status
    /\ req'[r].kind = req[r].kind
    /\ req'[r].code = req[r].code
    /\ req'[r].luck = req[r].luck
    /\ req'[r].met = req[r].met
    /\ req'[r].found = req[r].found

Pcs == {"pick", "save", "fetch", "publish", "validate", "add", "delete",
        "health", "done"}

Statuses == {"none", "ok", "refused", "error", "lost"}

\* GoTo is such a step.
LEMMA GoToMoves ==
    ASSUME TypeOK, NEW r \in DOMAIN req, NEW pc \in Pcs, GoTo(r, pc)
    PROVE  Moves(r, pc, req[r].status)
<1>1. req[r] \in Request
  BY DEF TypeOK, IsMap
<1> QED
  BY <1>1 DEF GoTo, Moves, Request, Pcs

\* Reply is such a step, the last one of its request.
LEMMA ReplyMoves ==
    ASSUME TypeOK, NEW r \in DOMAIN req, NEW status \in Statuses, Reply(r, status)
    PROVE  Moves(r, "done", status)
<1>1. req[r] \in Request
  BY DEF TypeOK, IsMap
<1> QED
  BY <1>1 DEF Reply, Moves, Request, Statuses

\* The requests keep their types.
LEMMA MovesType ==
    ASSUME TypeOK, NEW r \in DOMAIN req, NEW pc, NEW status, Moves(r, pc, status)
    PROVE  IsMap(req', Requests, Request) /\ DOMAIN req' = DOMAIN req
<1>1. \A q \in DOMAIN req : req'[q] \in Request
  BY DEF Moves, TypeOK, IsMap
<1> QED
  BY <1>1 DEF TypeOK, IsMap, Moves

\* The two updates when a create settles for a code: its own, and that of
\* those it meets.
SettlesFor(x, y, code, luck, met) ==
    y = [x EXCEPT !.pc = "save", !.code = code, !.tries = 0,
                  !.luck = luck, !.met = met]

Met(x, y, r) == y = [x EXCEPT !.met = @ \cup {r}]

\* A create that has settled for a code, field by field.
LEMMA SettledFields ==
    ASSUME NEW x \in Request, NEW y, NEW code \in Codes,
           NEW luck \in {"free", "exhausted", "blind"}, NEW met \in SUBSET Requests,
           SettlesFor(x, y, code, luck, met)
    PROVE  /\ y \in Request
           /\ y.kind = x.kind /\ y.status = x.status /\ y.found = x.found
           /\ y.pc = "save" /\ y.code = code /\ y.luck = luck /\ y.met = met
<1> DEFINE x1 == [x EXCEPT !.pc = "save", !.code = code]
           x2 == [x1 EXCEPT !.tries = 0]
           x3 == [x2 EXCEPT !.luck = luck]
<1>1. /\ x1 \in Request
      /\ x1.kind = x.kind /\ x1.status = x.status /\ x1.found = x.found
      /\ x1.pc = "save" /\ x1.code = code
  BY DEF Request
<1>2. y = [x3 EXCEPT !.met = met]
  BY DEF SettlesFor
<1> HIDE DEF x1
<1>3. /\ x2 \in Request
      /\ x2.kind = x.kind /\ x2.status = x.status /\ x2.found = x.found
      /\ x2.pc = "save" /\ x2.code = code
  BY <1>1 DEF Request
<1> HIDE DEF x2
<1>4. /\ x3 \in Request
      /\ x3.kind = x.kind /\ x3.status = x.status /\ x3.found = x.found
      /\ x3.pc = "save" /\ x3.code = code /\ x3.luck = luck
  BY <1>3 DEF Request
<1> HIDE DEF x3
<1> QED
  BY <1>2, <1>4 DEF Request

\* A create that has met another on its code, field by field.
LEMMA MetFields ==
    ASSUME NEW x \in Request, NEW y, NEW r \in Requests, Met(x, y, r)
    PROVE  /\ y \in Request
           /\ y.kind = x.kind /\ y.status = x.status /\ y.found = x.found
           /\ y.pc = x.pc /\ y.code = x.code /\ y.luck = x.luck
           /\ y.met = x.met \cup {r}
BY DEF Request, Met

-----------------------------------------------------------------------------

\* Redis is empty and no request has been made.
LEMMA InitInv == Init => SessionInv
<1> SUFFICES ASSUME Init PROVE SessionInv
  OBVIOUS
<1>1. /\ DOMAIN sessions = {} /\ DOMAIN req = {} /\ published = {} /\ deleted = {}
      /\ players = {} /\ outages \in 0 .. MaxOutages
      /\ IsMap(sessions, Codes, Requests) /\ IsMap(req, Requests, Request)
  BY FaultsAssumption DEF Init, EmptyMap, IsMap
<1>2. channelOpen \in BOOLEAN /\ running \in BOOLEAN
  BY Zenon DEF Init
<1> QED
  BY <1>1, <1>2
  DEF SessionInv, TypeOK, RequestStage, EventsHaveSender, IdsAreSaved,
      SavedCanBeJoined, SharersMet, OpenIsAnnounced, DeletedIsClosed

\* What only the process and its connection or the players' keys notice.
LEMMA UnrelatedInv ==
    ASSUME SessionInv, UNCHANGED <<sessions, published, req, deleted>>, TypeOK'
    PROVE  SessionInv'
BY DEF SessionInv, RequestStage, EventsHaveSender, IdsAreSaved, SavedCanBeJoined,
       SharersMet, OpenIsAnnounced, DeletedIsClosed, Saved, HasSaved, Saves,
       WasEnded, EventOf

\* A step that changes no session and publishes nothing: the handler goes on,
\* or answers.  A create goes on after the quiz was fetched, and answers only
\* with an error; an end answers only with an error.
LEMMA QuietInv ==
    ASSUME SessionInv, NEW r \in DOMAIN req, NEW pc, NEW status,
           Moves(r, pc, status),
           UNCHANGED <<sessions, published, processVars, deleted>>,
           players' \subseteq Codes,
           pc \in {"publish", "add", "done"},
           pc = "publish" => req[r].pc = "fetch",
           pc = "add" => req[r].kind = "join",
           pc # "done" => status = "none",
           req[r].pc # "done",
           req[r].kind = "create" /\ pc = "done" => status = "error",
           req[r].kind = "end" => pc = "done"
    PROVE  SessionInv'
<1> USE DEF SessionInv
<1>1. /\ sessions' = sessions /\ published' = published /\ deleted' = deleted
      /\ DOMAIN req' = DOMAIN req
      /\ \A q \in DOMAIN req : EventOf(q)' = EventOf(q)
  BY SameEvent DEF Moves
<1>2. TypeOK'
  BY MovesType DEF TypeOK, processVars
<1>3. RequestStage'
  BY <1>1 DEF RequestStage, Moves
<1>4. EventsHaveSender'
  BY <1>1 DEF EventsHaveSender
<1>5. \A id, c : Saved(id, c) => Saved(id, c)'
  BY <1>1 DEF Saved, Moves
<1>6. IdsAreSaved'
  BY <1>1, <1>5 DEF IdsAreSaved, Moves
<1>7. /\ \A q \in DOMAIN req : HasSaved(q)' => HasSaved(q)
      /\ \A q \in DOMAIN req : Saves(q)' => Saves(q)
      /\ \A q \in DOMAIN req : /\ req'[q].code = req[q].code
                               /\ req'[q].luck = req[q].luck
                               /\ req'[q].met = req[q].met
                               /\ req'[q].found = req[q].found
                               /\ req'[q].kind = req[q].kind
  BY <1>1 DEF HasSaved, Saves, Moves, RequestStage
<1>8. SavedCanBeJoined' /\ SharersMet'
  BY <1>1, <1>7 DEF SavedCanBeJoined, SharersMet, WasEnded
<1>9. OpenIsAnnounced'
  BY <1>1 DEF OpenIsAnnounced, Moves, IdsAreSaved, Saved
<1>10. DeletedIsClosed'
  BY <1>1, <1>7 DEF DeletedIsClosed, Moves
<1> QED
  BY <1>2, <1>3, <1>4, <1>6, <1>8, <1>9, <1>10

\* The steps of that kind: Redis executes nothing or the broker refuses, the Quiz
\* service answers or does not, a code is looked up, a player is added, health.
LEMMA QuietSteps ==
    ASSUME SessionInv, NEW r \in DOMAIN req,
           \/ SaveFails(r) \/ FetchQuiz(r) \/ FetchFails(r) \/ PublishFails(r)
           \/ ValidateCode(r) \/ ValidateSessionCode(r)
           \/ AddPlayer(r) \/ AddPlayerFails(r) \/ DeleteFails(r) \/ CheckService(r),
           UNCHANGED <<sessions, deleted>>
    PROVE  SessionInv'
<1> USE DEF SessionInv
<1> DEFINE R == req[r]
<1>1. /\ R.kind = "create" => R.pc \in {"pick", "save", "fetch", "publish", "done"}
      /\ R.kind = "end" => R.pc \in {"delete", "publish", "done"}
      /\ R.kind \notin {"create", "health"} => R.code \in Codes
      /\ R.pc = "add" => R.code \in Codes
      /\ R.pc # "done" => R.status = "none"
      /\ players \subseteq Codes
  BY DEF RequestStage, TypeOK
<1>2. UNCHANGED <<sessions, published, processVars, deleted>>
  BY DEF SaveFails, FetchQuiz, FetchFails, PublishFails, ValidateCode,
         ValidateSessionCode, AddPlayer, AddPlayerFails, DeleteFails,
         CheckService, redisVars
<1>3. players' \subseteq Codes
  BY <1>1 DEF SaveFails, FetchQuiz, FetchFails, PublishFails, ValidateCode,
         ValidateSessionCode, AddPlayer, AddPlayerFails, DeleteFails,
         CheckService, redisVars
<1>4. CASE FetchQuiz(r)
  <2>1. R.pc = "fetch" /\ Moves(r, "publish", "none")
    BY <1>1, <1>4, GoToMoves DEF FetchQuiz, Pcs
  <2> QED
    BY <1>1, <1>2, <1>3, <2>1, QuietInv
<1>5. CASE ValidateCode(r) /\ GoTo(r, "add")
  <2>1. R.pc = "validate" /\ R.kind = "join" /\ Moves(r, "add", "none")
    BY <1>1, <1>5, GoToMoves DEF ValidateCode, Pcs
  <2> QED
    BY <1>1, <1>2, <1>3, <2>1, QuietInv
<1>6. CASE ~FetchQuiz(r) /\ ~(ValidateCode(r) /\ GoTo(r, "add"))
  <2>1. PICK status \in Statuses :
           /\ Moves(r, "done", status)
           /\ R.pc \in {"save", "fetch", "publish", "delete"} => status = "error"
           /\ R.pc # "done"
    <3>1. PICK status \in Statuses :
             /\ Reply(r, status)
             /\ R.pc \in {"save", "fetch", "publish", "delete"} => status = "error"
             /\ R.pc # "done"
      BY <1>6 DEF SaveFails, FetchFails, PublishFails, ValidateCode,
         ValidateSessionCode, AddPlayer, AddPlayerFails, DeleteFails,
         CheckService, Statuses
    <3> QED
      BY <3>1, ReplyMoves
  <2>2. R.kind = "create" => R.pc # "pick"
    BY <1>6 DEF SaveFails, FetchFails, PublishFails, ValidateCode,
         ValidateSessionCode, AddPlayer, AddPlayerFails, DeleteFails, CheckService
  <2> QED
    BY <1>1, <1>2, <1>3, <2>1, <2>2, QuietInv
<1> QED
  BY <1>4, <1>5, <1>6

\* HSET was executed (SaveSession, Storage/Redis/redis.go), whatever the handler
\* is told: the id is that of a create that has not saved it before, so that no
\* end can have found it.
LEMMA SavedInv ==
    ASSUME SessionInv, NEW r \in DOMAIN req, req[r].pc = "save",
           NEW pc, NEW status, Moves(r, pc, status),
           \/ pc \in AfterSave /\ status = "none"
           \/ pc = "done" /\ status = "error",
           sessions' = Put(sessions, req[r].code, r),
           UNCHANGED <<players, published, processVars, deleted>>
    PROVE  SessionInv'
<1> USE DEF SessionInv, AfterSave
<1> DEFINE c == req[r].code
<1>1. Moves(r, pc, status) /\ pc \in {"fetch", "publish", "done"}
  OBVIOUS
<1>2. /\ req[r].pc = "save" /\ req[r].kind = "create" /\ c \in Codes
      /\ r \in Requests
  BY DEF RequestStage, TypeOK, IsMap
<1>3. /\ DOMAIN sessions' = DOMAIN sessions \cup {c}
      /\ sessions'[c] = r
      /\ \A d \in DOMAIN sessions \ {c} : sessions'[d] = sessions[d]
      /\ IsMap(sessions', Codes, Requests)
  BY <1>2 DEF Put, TypeOK, IsMap
<1>4. /\ published' = published /\ deleted' = deleted
      /\ players' = players /\ processVars' = processVars
      /\ DOMAIN req' = DOMAIN req
      /\ \A q \in DOMAIN req : EventOf(q)' = EventOf(q)
  BY <1>1, SameEvent DEF Moves
<1>5. TypeOK'
  BY <1>1, <1>3, <1>4, MovesType DEF TypeOK, processVars
<1>6. RequestStage' /\ EventsHaveSender'
  BY <1>1, <1>2, <1>4 DEF RequestStage, EventsHaveSender, Moves
<1>7. \A id, d : Saved(id, d) => Saved(id, d)' /\ id # r
  BY <1>1, <1>2, <1>4 DEF Saved, Moves
<1>8. Saved(r, c)'
  BY <1>1, <1>2, <1>4 DEF Saved, Moves
<1>9. IdsAreSaved'
  BY <1>1, <1>3, <1>4, <1>7, <1>8 DEF IdsAreSaved, Moves
<1>10. /\ \A q \in DOMAIN req : HasSaved(q)' => HasSaved(q) \/ q = r
       /\ \A q \in DOMAIN req : Saves(q)' => Saves(q)
       /\ Saves(r)
       /\ \A q \in DOMAIN req : /\ req'[q].code = req[q].code
                                /\ req'[q].luck = req[q].luck
                                /\ req'[q].met = req[q].met
                                /\ req'[q].found = req[q].found
                                /\ req'[q].kind = req[q].kind
  BY <1>1, <1>2, <1>4 DEF HasSaved, Saves, Moves
<1>11. SavedCanBeJoined'
  BY <1>3, <1>4, <1>10 DEF SavedCanBeJoined, WasEnded
<1>12. SharersMet'
  BY <1>4, <1>10 DEF SharersMet, WasEnded
<1>13. OpenIsAnnounced'
  BY <1>1, <1>3, <1>4, <1>7 DEF OpenIsAnnounced, Moves, IdsAreSaved, Saved
<1>14. DeletedIsClosed'
  BY <1>1, <1>2, <1>3, <1>4, <1>7, <1>10 DEF DeletedIsClosed, Moves, IdsAreSaved
<1> QED
  BY <1>5, <1>6, <1>9, <1>11, <1>12, <1>13, <1>14

\* PublishSessionStart, PublishQuestionStart and PublishSessionEnd.
LEMMA PublishInv ==
    ASSUME SessionInv, NEW r \in DOMAIN req, Publish(r)
    PROVE  SessionInv'
<1> USE DEF SessionInv
<1>1. Moves(r, "done", "ok")
  BY ReplyMoves DEF Publish, Statuses
<1>2. /\ req[r].pc = "publish" /\ req[r].code \in Codes /\ r \in Requests
  BY DEF Publish, RequestStage, TypeOK, IsMap
<1>3. /\ published' = published \cup {EventOf(r)} /\ deleted' = deleted
      /\ players' = players /\ sessions' = sessions /\ processVars' = processVars
      /\ DOMAIN req' = DOMAIN req
      /\ \A q \in DOMAIN req : EventOf(q)' = EventOf(q)
  BY <1>1, SameEvent DEF Moves, Publish, redisVars
<1>4. TypeOK'
  <2>1. EventOf(r) \in Event
    BY <1>2, EventFields DEF Event
  <2> QED
    BY <1>1, <1>3, <2>1, MovesType DEF TypeOK, processVars
<1>5. RequestStage'
  BY <1>1, <1>2, <1>3 DEF RequestStage, Moves
<1>6. EventsHaveSender'
  BY <1>3, EventFields DEF EventsHaveSender
<1>7. \A id, d : Saved(id, d) => Saved(id, d)'
  BY <1>1, <1>3 DEF Saved, Moves
<1>8. IdsAreSaved'
  BY <1>1, <1>3, <1>7 DEF IdsAreSaved, Moves
<1>9. /\ \A q \in DOMAIN req : HasSaved(q)' => HasSaved(q)
      /\ \A q \in DOMAIN req : Saves(q)' => Saves(q)
      /\ \A q \in DOMAIN req : /\ req'[q].code = req[q].code
                               /\ req'[q].luck = req[q].luck
                               /\ req'[q].met = req[q].met
                               /\ req'[q].found = req[q].found
                               /\ req'[q].kind = req[q].kind
  BY <1>1, <1>2, <1>3 DEF HasSaved, Saves, Moves
<1>10. SavedCanBeJoined' /\ SharersMet'
  BY <1>3, <1>9 DEF SavedCanBeJoined, SharersMet, WasEnded
<1>11. OpenIsAnnounced'
  BY <1>1, <1>3, EventFields DEF OpenIsAnnounced, Moves, IdsAreSaved, Saved
<1>12. DeletedIsClosed'
  BY <1>1, <1>2, <1>3, <1>9, EventFields DEF DeletedIsClosed, Moves
<1> QED
  BY <1>4, <1>5, <1>6, <1>8, <1>10, <1>11, <1>12

\* DEL was executed (DeleteSession, Storage/Redis/redis.go), whatever the handler
\* is told: the session that was open under the code is gone, and the end
\* remembers that one.
LEMMA DeletedInv ==
    ASSUME SessionInv, NEW r \in DOMAIN req, req[r].pc = "delete",
           NEW pc, NEW status, Moves(r, pc, status),
           \/ pc = "publish" /\ status = "none"
           \/ pc = "done" /\ status = "error",
           Del(req[r].code),
           UNCHANGED <<players, published, processVars>>
    PROVE  SessionInv'
<1> USE DEF SessionInv
<1> DEFINE c == req[r].code
<1>1. Moves(r, pc, status) /\ pc \in {"publish", "done"}
  OBVIOUS
<1>2. /\ req[r].pc = "delete"
      /\ req[r].kind # "create"
      /\ c \in Codes
  BY DEF RequestStage
<1>3. /\ DOMAIN sessions' = DOMAIN sessions \ {c}
      /\ \A d \in DOMAIN sessions' : sessions'[d] = sessions[d]
      /\ IsMap(sessions', Codes, Requests)
  BY DEF Del, Delete, TypeOK, IsMap
<1>4. /\ deleted \subseteq deleted'
      /\ c \in DOMAIN sessions => <<c, sessions[c]>> \in deleted'
      /\ deleted' \subseteq Codes \X Requests
  <2>1. deleted' = deleted \cup ({c} \X {sessions[d] : d \in {c} \cap DOMAIN sessions})
    BY DEF Del
  <2>2. {sessions[d] : d \in {c} \cap DOMAIN sessions} \subseteq Requests
    BY DEF TypeOK, IsMap
  <2>3. deleted \subseteq Codes \X Requests
    BY DEF TypeOK
  <2>4. c \in DOMAIN sessions =>
           sessions[c] \in {sessions[d] : d \in {c} \cap DOMAIN sessions}
    OBVIOUS
  <2> QED
    BY <1>2, <2>1, <2>2, <2>3, <2>4
<1>5. /\ published' = published
      /\ players' = players /\ processVars' = processVars
      /\ DOMAIN req' = DOMAIN req
      /\ \A q \in DOMAIN req : EventOf(q)' = EventOf(q)
  BY <1>1, SameEvent DEF Moves
<1>6. TypeOK'
  BY <1>1, <1>3, <1>4, <1>5, MovesType DEF TypeOK, processVars
<1>7. RequestStage' /\ EventsHaveSender'
  BY <1>1, <1>2, <1>5 DEF RequestStage, EventsHaveSender, Moves
<1>8. \A id, d : Saved(id, d) => Saved(id, d)' /\ id # r
  BY <1>1, <1>2, <1>5 DEF Saved, Moves
<1>9. IdsAreSaved'
  BY <1>1, <1>3, <1>5, <1>8 DEF IdsAreSaved, Moves
<1>10. /\ \A q \in DOMAIN req : HasSaved(q)' => HasSaved(q)
       /\ \A q \in DOMAIN req : Saves(q)' => Saves(q)
       /\ \A q \in DOMAIN req : /\ req'[q].code = req[q].code
                                /\ req'[q].luck = req[q].luck
                                /\ req'[q].met = req[q].met
                                /\ req'[q].found = req[q].found
                                /\ req'[q].kind = req[q].kind
  BY <1>1, <1>2, <1>5 DEF HasSaved, Saves, Moves
<1>11. \A d : WasEnded(d) => WasEnded(d)'
  BY <1>4 DEF WasEnded
<1>12. c \in DOMAIN sessions => WasEnded(c)'
  BY <1>1, <1>4 DEF WasEnded, Moves
<1>13. SavedCanBeJoined'
  BY <1>3, <1>5, <1>10, <1>11, <1>12 DEF SavedCanBeJoined
<1>14. SharersMet'
  BY <1>5, <1>10, <1>11 DEF SharersMet
<1>15. OpenIsAnnounced'
  BY <1>1, <1>3, <1>5, <1>8 DEF OpenIsAnnounced, Moves, IdsAreSaved, Saved
<1>16. DeletedIsClosed'
  <2>1. \A d \in DOMAIN sessions' : sessions'[d] \notin req[r].found
    BY <1>3 DEF IdsAreSaved, Saved
  <2> QED
    BY <1>1, <1>3, <1>5, <1>10, <2>1 DEF DeletedIsClosed, Moves
<1> QED
  BY <1>6, <1>7, <1>9, <1>13, <1>14, <1>15, <1>16

\* SaveSession, and an HSET that failed.
LEMMA SaveStepInv ==
    ASSUME SessionInv, NEW r \in DOMAIN req, SaveSession(r) \/ SaveFails(r)
    PROVE  SessionInv'
<1> USE DEF SessionInv
<1>1. req[r].pc = "save" /\ req[r].status = "none"
  BY DEF SaveSession, SaveFails, RequestStage
<1>2. UNCHANGED <<players, published, processVars, deleted>>
  BY DEF SaveSession, SaveFails
<1>3. CASE SaveSession(r)
  <2>1. PICK pc \in AfterSave : Moves(r, pc, "none")
    BY <1>1, <1>3, GoToMoves DEF SaveSession, AfterSave, Pcs
  <2>2. sessions' = Put(sessions, req[r].code, r)
    BY <1>3 DEF SaveSession
  <2> QED
    BY <1>1, <1>2, <2>1, <2>2, SavedInv
<1>4. CASE SaveFails(r) /\ sessions' = Put(sessions, req[r].code, r)
  <2>1. Moves(r, "done", "error")
    BY <1>4, ReplyMoves DEF SaveFails, Statuses
  <2> QED
    BY <1>1, <1>2, <1>4, <2>1, SavedInv
<1>5. CASE SaveFails(r) /\ sessions' = sessions
  BY <1>2, <1>5, QuietSteps
<1> QED
  BY <1>3, <1>4, <1>5 DEF SaveFails

\* DeleteSession, and a DEL that failed.
LEMMA DeleteStepInv ==
    ASSUME SessionInv, NEW r \in DOMAIN req, DeleteSession(r) \/ DeleteFails(r)
    PROVE  SessionInv'
<1> USE DEF SessionInv
<1>1. req[r].pc = "delete" /\ req[r].status = "none"
  BY DEF DeleteSession, DeleteFails, RequestStage
<1>2. UNCHANGED <<players, published, processVars>>
  BY DEF DeleteSession, DeleteFails
<1>3. CASE DeleteSession(r)
  <2>1. Moves(r, "publish", "none")
    BY <1>1, <1>3, GoToMoves DEF DeleteSession, Pcs
  <2>2. Del(req[r].code)
    BY <1>3 DEF DeleteSession
  <2> QED
    BY <1>1, <1>2, <2>1, <2>2, DeletedInv
<1>4. CASE DeleteFails(r) /\ Del(req[r].code)
  <2>1. Moves(r, "done", "error")
    BY <1>4, ReplyMoves DEF DeleteFails, Statuses
  <2> QED
    BY <1>1, <1>2, <1>4, <2>1, DeletedInv
<1>5. CASE DeleteFails(r) /\ UNCHANGED <<sessions, deleted>>
  BY <1>5, QuietSteps
<1> QED
  BY <1>3, <1>4, <1>5 DEF DeleteFails

\* NewSession (Game.go): a code is looked up, and tried again or settled for.
\* A create that finds it free meets every other one that has not saved it yet;
\* one that has saved it would have been seen.
LEMMA PickCodeInv ==
    ASSUME SessionInv, NEW r \in DOMAIN req, PickCode(r)
    PROVE  SessionInv'
<1> USE DEF SessionInv
<1>1. /\ req[r].pc = "pick" /\ req[r].kind = "create" /\ req[r].status = "none"
      /\ r \in Requests
      /\ \A q \in DOMAIN req : req[q] \in Request
  BY DEF PickCode, RequestStage, TypeOK, IsMap
<1>2. /\ sessions' = sessions /\ published' = published /\ deleted' = deleted
      /\ players' = players /\ processVars' = processVars
  BY DEF PickCode, redisVars
<1>3. CASE req' = [req EXCEPT ![r].tries = @ + 1] /\ req[r].tries < 2
  <2>1. Moves(r, "pick", "none")
    <3>1. req'[r] = [req[r] EXCEPT !.tries = @ + 1]
      BY <1>3
    <3>2. req[r].tries + 1 \in 0 .. 2
      BY <1>1, <1>3 DEF Request
    <3>3. req'[r] \in Request
      BY <1>1, <3>1, <3>2 DEF Request
    <3> QED
      BY <1>1, <1>3, <3>1, <3>3 DEF Moves, Request
  <2>2. /\ DOMAIN req' = DOMAIN req
        /\ \A q \in DOMAIN req : EventOf(q)' = EventOf(q)
        /\ \A q \in DOMAIN req : HasSaved(q)' => HasSaved(q)
        /\ \A q \in DOMAIN req : Saves(q)' => Saves(q)
        /\ \A q \in DOMAIN req : /\ req'[q].code = req[q].code
                                 /\ req'[q].luck = req[q].luck
                                 /\ req'[q].met = req[q].met
                                 /\ req'[q].found = req[q].found
                                 /\ req'[q].kind = req[q].kind
    BY <1>1, <2>1, SameEvent DEF Moves, HasSaved, Saves
  <2>3. TypeOK'
    BY <1>2, <2>1, MovesType DEF TypeOK, processVars
  <2>4. \A id, d : Saved(id, d) => Saved(id, d)'
    BY <1>1, <2>1, <2>2 DEF Saved, Moves
  <2>5. RequestStage' /\ EventsHaveSender' /\ IdsAreSaved'
    BY <1>1, <1>2, <2>1, <2>2, <2>4
    DEF RequestStage, EventsHaveSender, IdsAreSaved, Moves
  <2>6. SavedCanBeJoined' /\ SharersMet'
    BY <1>2, <2>2 DEF SavedCanBeJoined, SharersMet, WasEnded
  <2>7. OpenIsAnnounced' /\ DeletedIsClosed'
    BY <1>1, <1>2, <2>1, <2>2 DEF OpenIsAnnounced, DeletedIsClosed, Moves,
                                  IdsAreSaved, Saved
  <2> QED
    BY <2>3, <2>5, <2>6, <2>7
<1>4. ASSUME NEW code \in Codes, NEW luck \in {"free", "exhausted", "blind"},
             Settle(r, code, luck), luck = "free" => code \notin DOMAIN sessions
      PROVE  SessionInv'
  <2>1. /\ req' = [q \in DOMAIN req |-> req'[q]]
        /\ \A q \in DOMAIN req :
              /\ req'[q] \in Request
              /\ req'[q].kind = req[q].kind
              /\ req'[q].status = req[q].status
              /\ req'[q].found = req[q].found
              /\ q # r => req'[q].pc = req[q].pc
              /\ q # r => req'[q].code = req[q].code
              /\ q # r => req'[q].luck = req[q].luck
              /\ q # r => req[q].met \subseteq req'[q].met
              /\ q \in Savers(code) => r \in req'[q].met
        /\ req'[r].pc = "save"
        /\ req'[r].code = code
        /\ req'[r].luck = luck
        /\ req'[r].met = Savers(code)
    <3>1. Savers(code) \subseteq Requests /\ r \notin Savers(code)
      BY <1>1 DEF Savers, TypeOK, IsMap
    <3>2. /\ req' = [q \in DOMAIN req |-> req'[q]]
          /\ SettlesFor(req[r], req'[r], code, luck, Savers(code))
          /\ \A q \in Savers(code) : Met(req[q], req'[q], r)
          /\ \A q \in DOMAIN req \ Savers(code) : q # r => req'[q] = req[q]
      BY <1>4, <3>1 DEF Settle, Savers, SettlesFor, Met
    <3>3. /\ req'[r] \in Request /\ req'[r].kind = req[r].kind
          /\ req'[r].status = req[r].status /\ req'[r].found = req[r].found
          /\ req'[r].pc = "save" /\ req'[r].code = code /\ req'[r].luck = luck
          /\ req'[r].met = Savers(code)
      BY <1>1, <3>1, <3>2, SettledFields
    <3>4. ASSUME NEW q \in Savers(code)
          PROVE  /\ req'[q] \in Request /\ req'[q].kind = req[q].kind
                 /\ req'[q].status = req[q].status /\ req'[q].found = req[q].found
                 /\ req'[q].pc = req[q].pc /\ req'[q].code = req[q].code
                 /\ req'[q].luck = req[q].luck /\ req'[q].met = req[q].met \cup {r}
      <4>1. req[q] \in Request /\ q \in DOMAIN req
        BY <1>1 DEF Savers
      <4> QED
        BY <1>1, <3>2, <4>1, MetFields
    <3>5. ASSUME NEW q \in DOMAIN req, q # r, q \notin Savers(code)
          PROVE  req'[q] = req[q] /\ req'[q] \in Request
      BY <1>1, <3>2, <3>5
    <3> HIDE DEF Savers
    <3> QED
      BY <3>1, <3>2, <3>3, <3>4, <3>5
  <2>2. DOMAIN req' = DOMAIN req /\ IsMap(req', Requests, Request)
    BY <2>1 DEF TypeOK, IsMap
  <2>3. \A q \in DOMAIN req : q # r => EventOf(q)' = EventOf(q)
    BY <2>1, SameEvent
  <2>4. TypeOK'
    BY <1>2, <2>2 DEF TypeOK, processVars
  <2>5. \A id, d : Saved(id, d) => Saved(id, d)' /\ id # r
    BY <1>1, <2>1, <2>2 DEF Saved
  <2>6. RequestStage' /\ EventsHaveSender'
    BY <1>1, <1>2, <2>1, <2>2 DEF RequestStage, EventsHaveSender
  <2>7. req[r].found = {}
    BY <1>1 DEF RequestStage
  <2>8. IdsAreSaved'
    BY <1>2, <2>1, <2>2, <2>5, <2>7 DEF IdsAreSaved
  <2>9. /\ \A q \in DOMAIN req : HasSaved(q)' => HasSaved(q) /\ q # r
        /\ \A q \in DOMAIN req : q # r => (Saves(q)' => Saves(q))
    BY <1>1, <2>1 DEF HasSaved, Saves
  <2>10. SavedCanBeJoined'
    BY <1>2, <2>1, <2>2, <2>9 DEF SavedCanBeJoined, WasEnded
  <2>11. SharersMet'
    <3> SUFFICES ASSUME NEW q \in DOMAIN req, q # r, HasSaved(q) \/ Saves(q),
                        req[q].code = code, luck = "free", ~WasEnded(code)
                 PROVE  q \in Savers(code)
      BY <1>2, <2>1, <2>2, <2>9 DEF SharersMet, WasEnded
    <3>1. ~HasSaved(q)
      BY <1>4 DEF SavedCanBeJoined
    <3> QED
      BY <3>1 DEF Saves, Savers
  <2>12. OpenIsAnnounced'
    BY <1>2, <2>1, <2>2, <2>5 DEF OpenIsAnnounced, IdsAreSaved, Saved
  <2>13. DeletedIsClosed'
    BY <1>1, <1>2, <2>1, <2>2, <2>3 DEF DeletedIsClosed
  <2> QED
    BY <2>4, <2>6, <2>8, <2>10, <2>11, <2>12, <2>13
<1> QED
  BY <1>3, <1>4 DEF PickCode, CodeExist

\* A request arrives at its handler (Handlers) and is told apart by its
\* number.
LEMMA ArriveInv ==
    ASSUME SessionInv, NEW r \in Requests, NEW kind \in Kinds,
           NEW code \in Codes \cup {NoCode}, Arrive(r, kind, code)
    PROVE  SessionInv'
<1> USE DEF SessionInv
<1> DEFINE found == IF code \in DOMAIN sessions /\ kind = "end"
                    THEN {sessions[code]} ELSE {}
           new == [kind |-> kind, pc |-> FirstPc[kind], code |-> code,
                   tries |-> 0, status |-> "none", luck |-> "free",
                   met |-> {}, found |-> found]
<1>1. /\ r \notin DOMAIN req
      /\ req' = Put(req, r, new)
      /\ (kind \in {"create", "health"}) <=> (code = NoCode)
  BY DEF Arrive
<1>2. /\ sessions' = sessions /\ published' = published /\ deleted' = deleted
      /\ players' = players /\ processVars' = processVars
  BY DEF Arrive, redisVars
<1>3. /\ FirstPc[kind] \in {"pick", "validate", "fetch", "publish", "delete", "health"}
      /\ FirstPc[kind] = "pick" => kind = "create"
      /\ kind = "create" => FirstPc[kind] = "pick"
      /\ kind = "end" => FirstPc[kind] = "delete"
      /\ FirstPc[kind] = "validate" => kind \in {"join", "validate"}
      /\ FirstPc[kind] = "delete" => kind = "end"
      /\ FirstPc[kind] \in {"fetch", "publish"} => kind \in {"start", "next"}
  BY KindsAssumption DEF FirstPc
<1>4. found \subseteq Requests /\ \A id \in found : Saved(id, code)
  BY DEF TypeOK, IsMap, IdsAreSaved
<1> HIDE DEF found
<1>5. new \in Request
  <2>1. 0 \in 0 .. 2 /\ {} \in SUBSET Requests /\ found \in SUBSET Requests
    BY <1>4
  <2> QED
    BY <1>3, <2>1 DEF Request
<1>6. /\ new.kind = kind /\ new.pc = FirstPc[kind] /\ new.code = code
      /\ new.status = "none" /\ new.found = found
  OBVIOUS
<1> HIDE DEF new
<1>7. /\ DOMAIN req' = DOMAIN req \cup {r}
      /\ req'[r] = new
      /\ \A q \in DOMAIN req : q # r /\ req'[q] = req[q]
      /\ req' = [q \in DOMAIN req' |-> req'[q]]
  BY <1>1 DEF Put
<1>8. IsMap(req', Requests, Request)
  BY <1>5, <1>7 DEF TypeOK, IsMap
<1>9. TypeOK'
  BY <1>2, <1>8 DEF TypeOK, processVars
<1>10. \A q \in DOMAIN req : EventOf(q)' = EventOf(q)
  BY <1>7, SameEvent
<1>11. RequestStage'
  <2>1. code = NoCode \/ code \in Codes
    OBVIOUS
  <2>2. kind # "end" => found = {}
    BY DEF found
  <2> QED
    BY <1>1, <1>3, <1>6, <1>7, <2>1, <2>2 DEF RequestStage
<1>12. EventsHaveSender'
  BY <1>2, <1>7 DEF EventsHaveSender
<1>13. \A id, d : Saved(id, d) => Saved(id, d)'
  BY <1>7 DEF Saved
<1>14. IdsAreSaved'
  BY <1>2, <1>4, <1>6, <1>7, <1>13 DEF IdsAreSaved
<1>15. /\ ~HasSaved(r)' /\ ~Saves(r)'
       /\ \A q \in DOMAIN req : HasSaved(q)' = HasSaved(q)
       /\ \A q \in DOMAIN req : Saves(q)' = Saves(q)
  BY <1>3, <1>6, <1>7 DEF HasSaved, Saves
<1>16. SavedCanBeJoined' /\ SharersMet'
  BY <1>2, <1>7, <1>15 DEF SavedCanBeJoined, SharersMet, WasEnded
<1>17. OpenIsAnnounced'
  BY <1>2, <1>7 DEF OpenIsAnnounced, IdsAreSaved, Saved
<1>18. DeletedIsClosed'
  <2>1. EventOf(r)'.by = r
    BY DEF EventOf
  <2>2. EventOf(r)' \notin published
    BY <1>1, <2>1 DEF EventsHaveSender
  <2> QED
    BY <1>2, <1>3, <1>6, <1>7, <1>10, <2>2 DEF DeletedIsClosed
<1> QED
  BY <1>9, <1>11, <1>12, <1>14, <1>16, <1>17, <1>18

\* The process ends between any two commands.
LEMMA CrashInv ==
    ASSUME SessionInv, Crash
    PROVE  SessionInv'
<1> USE DEF SessionInv
<1>1. /\ sessions' = sessions /\ published' = published /\ deleted' = deleted
      /\ players' = players
  BY DEF Crash, redisVars
<1>2. /\ req' = [q \in DOMAIN req |-> req'[q]]
      /\ \A q \in DOMAIN req : req[q].pc = "done" => req'[q] = req[q]
      /\ \A q \in DOMAIN req : req[q].pc # "done" =>
            req'[q] = [req[q] EXCEPT !.pc = "done", !.status = "lost"]
  BY DEF Crash
<1>3. ASSUME NEW q \in DOMAIN req
      PROVE  /\ req'[q] \in Request
             /\ req'[q].pc = "done"
             /\ req'[q].status = req[q].status \/ req'[q].status = "lost"
             /\ req[q].pc # "done" => req'[q].status = "lost"
             /\ req[q].pc = "done" => req'[q].status = req[q].status
             /\ req'[q].kind = req[q].kind
             /\ req'[q].code = req[q].code
             /\ req'[q].luck = req[q].luck
             /\ req'[q].met = req[q].met
             /\ req'[q].found = req[q].found
  <2>1. req[q] \in Request
    BY DEF TypeOK, IsMap
  <2> QED
    BY <1>2, <2>1, ZenonT(40) DEF Request
<1>4. DOMAIN req' = DOMAIN req /\ IsMap(req', Requests, Request)
  BY <1>2, <1>3 DEF TypeOK, IsMap
<1>5. TypeOK'
  <2>1. outages' \in 0 .. MaxOutages
    <3>1. outages \in 0 .. MaxOutages /\ outages < MaxOutages /\ outages' = outages + 1
      BY DEF Crash, TypeOK
    <3> QED
      BY <3>1, FaultsAssumption
  <2>2. channelOpen' \in BOOLEAN /\ running' \in BOOLEAN
    BY Zenon DEF Crash
  <2> QED
    BY <1>1, <1>4, <2>1, <2>2 DEF TypeOK
<1>6. \A q \in DOMAIN req : EventOf(q)' = EventOf(q)
  BY <1>3, SameEvent
<1>7. RequestStage' /\ EventsHaveSender'
  BY <1>1, <1>3, <1>4 DEF RequestStage, EventsHaveSender
<1>8. \A id, d : Saved(id, d) => Saved(id, d)'
  BY <1>3, <1>4 DEF Saved
<1>9. IdsAreSaved'
  BY <1>1, <1>3, <1>4, <1>8 DEF IdsAreSaved
<1>10. \A q \in DOMAIN req : /\ HasSaved(q)' => HasSaved(q)
                             /\ ~Saves(q)'
  BY <1>3 DEF HasSaved, Saves, RequestStage
<1>11. SavedCanBeJoined' /\ SharersMet'
  BY <1>1, <1>3, <1>4, <1>10 DEF SavedCanBeJoined, SharersMet, WasEnded
<1>12. OpenIsAnnounced'
  BY <1>1, <1>3 DEF OpenIsAnnounced, IdsAreSaved, Saved
<1>13. DeletedIsClosed'
  BY <1>1, <1>3, <1>4, <1>6 DEF DeletedIsClosed
<1> QED
  BY <1>5, <1>7, <1>9, <1>11, <1>12, <1>13

-----------------------------------------------------------------------------
(* The theorems.                                                           *)

\* Every step of any request, of the process and of Redis keeps the invariant.
LEMMA StepInv == SessionInv /\ [Next]_vars => SessionInv'
<1> SUFFICES ASSUME SessionInv, [Next]_vars PROVE SessionInv'
  OBVIOUS
<1>1. CASE UNCHANGED vars
  <2>1. UNCHANGED <<sessions, published, req, deleted>>
    BY <1>1 DEF vars, redisVars
  <2>2. TypeOK'
    BY <1>1 DEF vars, redisVars, processVars, SessionInv, TypeOK
  <2> QED
    BY <2>1, <2>2, UnrelatedInv
<1>2. ASSUME NEW r \in Requests, NEW kind \in Kinds, NEW code \in Codes \cup {NoCode},
             Arrive(r, kind, code)
      PROVE  SessionInv'
  BY <1>2, ArriveInv
<1>3. ASSUME NEW r \in Requests, HandlerStep(r)
      PROVE  SessionInv'
  <2>1. r \in DOMAIN req
    BY <1>3 DEF HandlerStep
  <2>2. CASE PickCode(r) \/ Publish(r)
    BY <2>1, <2>2, PickCodeInv, PublishInv
  <2>3. CASE SaveSession(r) \/ SaveFails(r) \/ DeleteSession(r) \/ DeleteFails(r)
    BY <2>1, <2>3, SaveStepInv, DeleteStepInv
  <2>4. CASE \/ PublishFails(r) \/ ValidateCode(r) \/ ValidateSessionCode(r)
             \/ AddPlayer(r) \/ AddPlayerFails(r) \/ CheckService(r)
    <3>1. UNCHANGED <<sessions, deleted>>
      BY <2>4 DEF PublishFails, ValidateCode, ValidateSessionCode, AddPlayer,
                  AddPlayerFails, CheckService, redisVars
    <3> QED
      BY <2>1, <2>4, <3>1, QuietSteps
  <2> QED
    BY <1>3, <2>2, <2>3, <2>4 DEF HandlerStep
<1>4. ASSUME NEW r \in DOMAIN req, FetchQuiz(r) \/ FetchFails(r)
      PROVE  SessionInv'
  <2>1. UNCHANGED <<sessions, deleted>>
    BY <1>4 DEF FetchQuiz, FetchFails, redisVars
  <2> QED
    BY <1>4, <2>1, QuietSteps
<1>5. ASSUME NEW c \in players, PlayersExpire(c)
      PROVE  SessionInv'
  <2>1. TypeOK'
    BY <1>5 DEF PlayersExpire, processVars, SessionInv, TypeOK
  <2> QED
    BY <1>5, <2>1, UnrelatedInv DEF PlayersExpire
<1>6. CASE ChannelCloses \/ Boot
  <2>1. UNCHANGED <<sessions, players, published, req, deleted>>
    BY <1>6 DEF ChannelCloses, Boot, redisVars
  <2>2. outages' \in 0 .. MaxOutages
    <3>1. outages \in 0 .. MaxOutages
      BY DEF SessionInv, TypeOK
    <3>2. outages' = outages \/ (outages < MaxOutages /\ outages' = outages + 1)
      BY <1>6 DEF ChannelCloses, Boot
    <3> QED
      BY <3>1, <3>2, FaultsAssumption
  <2>3. channelOpen' \in BOOLEAN /\ running' \in BOOLEAN
    BY <1>6, Zenon DEF ChannelCloses, Boot, SessionInv, TypeOK
  <2>4. TypeOK'
    BY <2>1, <2>2, <2>3 DEF SessionInv, TypeOK
  <2> QED
    BY <2>1, <2>4, UnrelatedInv
<1>7. CASE Crash
  BY <1>7, CrashInv
<1> QED
  BY <1>1, <1>2, <1>3, <1>4, <1>5, <1>6, <1>7 DEF Next

\* The inductive invariant holds in every state of the service.
THEOREM SessionInvariant == Spec => []SessionInv
BY InitInv, StepInv, PTL DEF Spec

\* The keys in Redis, the events and the requests keep their types.
THEOREM SessionTyped == Spec => []TypeOK
<1>1. SessionInv => TypeOK
  BY DEF SessionInv
<1> QED
  BY <1>1, SessionInvariant, PTL

\* A game whose host was told of it (CreateSessionHandler) can be joined until
\* its code is ended, whatever fails or crashes.
THEOREM GameCanBeJoinedHolds == Spec => []GameCanBeJoined
<1>1. SessionInv => GameCanBeJoined
  BY DEF SessionInv, SavedCanBeJoined, HasSaved, WasEnded, GameCanBeJoined, Games
<1> QED
  BY <1>1, SessionInvariant, PTL

\* Two games share a code (NewSession) only by exhaustion, blindness, overlap
\* or after an end.
THEOREM OneGamePerCodeHolds == Spec => []OneGamePerCode
<1>1. SessionInv => OneGamePerCode
  BY DEF SessionInv, SharersMet, HasSaved, WasEnded, OneGamePerCode, Games
<1> QED
  BY <1>1, SessionInvariant, PTL

\* A code that lets people in was announced to the Real-Time service, unless
\* its create is under way or failed.
THEOREM OpenIsAnnouncedHolds == Spec => []OpenIsAnnounced
<1>1. SessionInv => OpenIsAnnounced
  BY DEF SessionInv
<1> QED
  BY <1>1, SessionInvariant, PTL

\* SessionEndHandler closes the session it found before it announces the end,
\* and nothing opens that session again.
THEOREM EndClosesFirstHolds == Spec => []EndClosesFirst
<1>1. SessionInv => EndClosesFirst
  BY DEF SessionInv, DeletedIsClosed, EndClosesFirst
<1> QED
  BY <1>1, SessionInvariant, PTL
=============================================================================
