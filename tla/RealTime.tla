------------------------------ MODULE RealTime ------------------------------
(***************************************************************************)
(* The Real-Time service: the goroutines of one process around the         *)
(* QuizTracker, and the broker that feeds them.                            *)
(*                                                                         *)
(*  - the session.start and session.end consumers (rabbit/session.go);     *)
(*  - one ConsumeQuestionStart loop per started session                    *)
(*    (rabbit/question.go), which opens the next question, has the         *)
(*    Leader Board service score the previous one and reports to clients;  *)
(*  - a WebSocket handler per participant (ws/handler.go) and a goroutine  *)
(*    per answer received (processAnswer, ws/message.go);                  *)
(*  - the process itself, which may crash at any step and is started       *)
(*    again by the container runtime, with what Redis kept.                *)
(*                                                                         *)
(* A step is what happens between two points where another goroutine can   *)
(* observe or change shared state: a locked section, a step of             *)
(* IncQuestionIdx or RecordAnswer, a broker call, a request to the Leader  *)
(* Board service, a send to a client.  What is sent is not state here, but *)
(* a send may never return; Registry is about why.                         *)
(***************************************************************************)
EXTENDS QuizTracker

CONSTANTS
    Jobs,         \* ids of processAnswer goroutines
    MaxStarts,    \* bound: session.start messages published
    MaxEnds,      \* bound: session.end messages published
    MaxTriggers,  \* bound: question.<s>.start messages published
    MaxCrashes,   \* bound: crashes that are not the model's own panics
    NoMsg         \* no message in hand

ASSUME BoundsAssumption == /\ MaxStarts \in Nat
                           /\ MaxEnds \in Nat
                           /\ MaxTriggers \in Nat
                           /\ MaxCrashes \in Nat

VARIABLES
    running,      \* the process is up
    channelOpen,  \* its AMQP connection and channel are open
    published,    \* how many messages of each kind were published
    created,      \* sessions the Session Service has announced
    startQ,       \* messages in the session_started queue
    starting,     \* the start message between RegisterSession and NewSession
    endQ,         \* messages in the session_ended queue
    ending,       \* the session between cancel and UnregisterSession
    registered,   \* keys of ConnectionRegistry.connections
    tags,         \* keys of QuestionStartedQsTags
    loops,        \* ConsumeQuestionStart goroutines
    ws,           \* the handler of each participant's connection
    job,          \* processAnswer goroutines
    crashes,      \* crashes so far
    posted,       \* history: per session, the requests with answers made to
                  \* the Leader Board service
    scored        \* history: per session, the requests it has added to the
                  \* scores (positions in posted), in order

brokerVars == <<channelOpen, published, created, startQ, endQ>>
lbVars == <<posted, scored>>
handlerVars == <<starting, ending, registered, tags>>
vars == <<trackerVars, running, brokerVars, handlerVars, loops, ws, job,
          crashes, lbVars>>

-----------------------------------------------------------------------------
StartMsg == [session : Sessions, quiz : Quizzes]

\* A ConsumeQuestionStart goroutine: "starting" until its queue is bound and
\* consumed, "bound" until its tag is stored, then the steps of its loop;
\* "hung" in a send that never returns.
Loop == [session    : Sessions,
         pc         : {"starting", "bound", "idle", "incrementing", "advanced",
                       "board", "posting", "stat", "payload", "hung"},
         subscribed : BOOLEAN,  \* the broker delivers to it
         pending    : Nat,      \* delivered triggers not yet handled
         qid        : Int,      \* its local qid
         boardQ     : Int,      \* the question it asked to be scored
         board      : UNION {[U -> Answer] : U \in SUBSET Users},
         options    : Nat,      \* the options_amount it sent along
         request    : Nat,      \* the position of its request in posted
         alone      : BOOLEAN]  \* history: no other loop of its session
                                \* has run during its life

\* A request to the Leader Board service, and whether the loop gave it up.
Request == [question : Int, lost : BOOLEAN]

LoopsOf(s) == {l \in DOMAIN loops : loops[l].session = s}

NewLoop(s) ==
    [session |-> s, pc |-> "starting", subscribed |-> FALSE, pending |-> 0,
     qid |-> -1, boardQ |-> -1, board |-> EmptyMap, options |-> 0,
     request |-> 0,
     alone |-> LoopsOf(s) = {}]

\* A processAnswer goroutine: before and after the answer is judged, and while
\* it holds the tracker's mutex to store it.
Job == [pc : {"received", "judged", "storing"}, session : Sessions, user : Users,
        option : Options, qid : Int, correct : BOOLEAN]

Init ==
    /\ TrackerInit
    /\ running = TRUE
    /\ channelOpen = TRUE
    /\ published = [start |-> 0, end |-> 0, trigger |-> 0]
    /\ created = {}
    /\ startQ = <<>>
    /\ starting = NoMsg
    /\ endQ = <<>>
    /\ ending = NoMsg
    /\ registered = {}
    /\ tags = {}
    /\ loops = EmptyMap
    /\ ws = [c \in Sessions \X Users |-> "none"]
    /\ job = EmptyMap
    /\ crashes = 0
    /\ posted = [s \in Sessions |-> <<>>]
    /\ scored = [s \in Sessions |-> <<>>]

-----------------------------------------------------------------------------
(* The Session Service publishes.  The queues belong to the process's      *)
(* connection: without it the exchange has nowhere to route a message and, *)
(* as nothing is published as mandatory, drops it.                         *)

PublishSessionStart(s, quiz) ==
    /\ published.start < MaxStarts
    /\ published' = [published EXCEPT !.start = @ + 1]
    /\ created' = created \cup {s}
    /\ startQ' = IF channelOpen
                 THEN Append(startQ, [session |-> s, quiz |-> quiz])
                 ELSE startQ
    /\ UNCHANGED <<trackerVars, running, channelOpen, endQ, handlerVars,
                   loops, ws, job, crashes, lbVars>>

PublishSessionEnd(s) ==
    /\ s \in created
    /\ published.end < MaxEnds
    /\ published' = [published EXCEPT !.end = @ + 1]
    /\ endQ' = IF channelOpen THEN Append(endQ, s) ELSE endQ
    /\ UNCHANGED <<trackerVars, running, channelOpen, created, startQ,
                   handlerVars, loops, ws, job, crashes, lbVars>>

\* A trigger reaches the loop whose queue is bound, and is lost otherwise.
PublishQuestionStart(s) ==
    /\ s \in created
    /\ published.trigger < MaxTriggers
    /\ published' = [published EXCEPT !.trigger = @ + 1]
    /\ loops' = [l \in DOMAIN loops |->
                   IF loops[l].session = s /\ loops[l].subscribed
                   THEN [loops[l] EXCEPT !.pending = @ + 1]
                   ELSE loops[l]]
    /\ UNCHANGED <<trackerVars, running, channelOpen, created, startQ, endQ,
                   handlerVars, ws, job, crashes, lbVars>>

-----------------------------------------------------------------------------
(* The process ends and starts.                                            *)

\* Everything the process held is gone, its exclusive queues included.
Die ==
    /\ running' = FALSE
    /\ channelOpen' = FALSE
    /\ startQ' = <<>>
    /\ starting' = NoMsg
    /\ endQ' = <<>>
    /\ ending' = NoMsg
    /\ registered' = {}
    /\ tags' = {}
    /\ loops' = EmptyMap
    /\ ws' = [c \in Sessions \X Users |-> "none"]
    /\ job' = EmptyMap
    /\ UNCHANGED <<trackerVars, published, created, lbVars>>

\* A crash at any moment: a kill, or the runtime's fatal error for a map that
\* is read and written at the same time.
Crash ==
    /\ running
    /\ crashes < MaxCrashes
    /\ crashes' = crashes + 1
    /\ Die

\* main: queues are declared, then the tracker is restored from Redis.
Boot ==
    /\ ~running
    /\ running' = TRUE
    /\ channelOpen' = TRUE
    /\ Restore
    /\ UNCHANGED <<published, created, startQ, endQ, handlerVars, loops, ws,
                   job, crashes, lbVars>>

-----------------------------------------------------------------------------
(* ConsumeSessionStart and ConsumeSessionEnd.                              *)

\* registry.RegisterSession: the message is dropped when it returns false.
ReceiveSessionStart ==
    /\ starting = NoMsg
    /\ startQ # <<>>
    /\ startQ' = Tail(startQ)
    /\ IF Head(startQ).session \in registered
       THEN UNCHANGED <<registered, starting>>
       ELSE /\ registered' = registered \cup {Head(startQ).session}
            /\ starting' = Head(startQ)
    /\ UNCHANGED <<trackerVars, running, channelOpen, published, created,
                   endQ, ending, tags, loops, ws, job, crashes, lbVars>>

\* A mutant: the loop is started for a session that was not tracked yet.
TrackSession_LoopOnly(l) ==
    /\ starting # NoMsg
    /\ l \notin DOMAIN loops
    /\ loops' = Put(loops, l, NewLoop(starting.session))
    /\ starting' = NoMsg
    /\ UNCHANGED <<trackerVars, running, brokerVars, ending, registered, tags,
                   ws, job, crashes, lbVars>>

\* tracker.NewSession, then go ConsumeQuestionStart.
TrackSession(l) ==
    /\ starting # NoMsg
    /\ l \notin DOMAIN loops
    /\ NewSession(starting.session, starting.quiz)
    /\ loops' = [m \in (DOMAIN loops) \cup {l} |->
                   IF m = l THEN NewLoop(starting.session)
                   ELSE IF loops[m].session = starting.session
                        THEN [loops[m] EXCEPT !.alone = FALSE]
                        ELSE loops[m]]
    /\ starting' = NoMsg
    /\ UNCHANGED <<running, brokerVars, ending, registered, tags, ws, job,
                   crashes, lbVars>>

\* tracker.NewSession writes to a nil map in a goroutine nobody recovers.
TrackSessionPanics ==
    /\ starting # NoMsg
    /\ NewSessionPanics(starting.session)
    /\ Die
    /\ UNCHANGED crashes

\* CleanupQuestionConsumer: no effect without a tag; Cancel fails on a closed
\* channel.  Triggers already delivered are still handled.
ReceiveSessionEnd ==
    /\ ending = NoMsg
    /\ endQ # <<>>
    /\ endQ' = Tail(endQ)
    /\ ending' = Head(endQ)
    /\ IF Head(endQ) \in tags /\ channelOpen
       THEN /\ tags' = tags \ {Head(endQ)}
            /\ loops' = [l \in DOMAIN loops |->
                           IF loops[l].session = Head(endQ)
                           THEN [loops[l] EXCEPT !.subscribed = FALSE]
                           ELSE loops[l]]
       ELSE UNCHANGED <<tags, loops>>
    /\ UNCHANGED <<trackerVars, running, channelOpen, published, created,
                   startQ, starting, registered, ws, job, crashes, lbVars>>

\* BroadcastToSession, then UnregisterSession; the tracker keeps the session.
UnregisterSession ==
    /\ ending # NoMsg
    /\ registered' = registered \ {ending}
    /\ ending' = NoMsg
    /\ UNCHANGED <<trackerVars, running, brokerVars, starting, tags, loops,
                   ws, job, crashes, lbVars>>

-----------------------------------------------------------------------------
(* ConsumeQuestionStart.                                                   *)

\* What the steps inside a loop leave alone.
LoopFrame == UNCHANGED <<running, brokerVars, handlerVars, ws, job, crashes>>

\* Another goroutine consumes with the tag of l's session.
TagInUse(l) == \E m \in LoopsOf(loops[l].session) \ {l} : loops[m].subscribed

\* Declare, bind and consume the queue.
BindQueue(l) ==
    /\ loops[l].pc = "starting"
    /\ channelOpen
    /\ ~TagInUse(l)
    /\ loops' = [loops EXCEPT ![l].pc = "bound", ![l].subscribed = TRUE]
    /\ UNCHANGED <<trackerVars, lbVars>>
    /\ LoopFrame

\* Consuming with a tag in use is an error for which the broker closes the
\* whole connection.  l, and later any other loop, gets no channel to read:
\* it stores its tag and blocks for ever.  The client library drops what it
\* has not handed to the other loops yet, all of it or the rest.
BindFails(l) ==
    /\ loops[l].pc = "starting"
    /\ TagInUse(l) \/ ~channelOpen
    /\ channelOpen' = FALSE
    /\ tags' = tags \cup {loops[l].session}
    /\ \E left \in [(DOMAIN loops) \ {l} -> 0 .. MaxTriggers] :
          /\ \A m \in DOMAIN left : left[m] <= loops[m].pending
          /\ loops' = [m \in DOMAIN left |->
                         [loops[m] EXCEPT !.subscribed = FALSE,
                                          !.pending = left[m]]]
    /\ UNCHANGED <<trackerVars, running, published, created, startQ, starting,
                   endQ, ending, registered, ws, job, crashes, lbVars>>

\* r.QuestionStartedQsTags[sid] = consumerTag.
StoreTag(l) ==
    /\ loops[l].pc = "bound"
    /\ loops' = [loops EXCEPT ![l].pc = "idle"]
    /\ tags' = tags \cup {loops[l].session}
    /\ UNCHANGED <<trackerVars, running, brokerVars, starting, ending,
                   registered, ws, job, crashes, lbVars>>

\* A mutant: the loop does not wait for a delivery.
NextTrigger_NoDelivery(l) ==
    /\ loops[l].pc = "idle"
    /\ CanAdvance(loops[l].session)
    /\ IncReads(l, loops[l].session)
    /\ loops' = [loops EXCEPT ![l].pc = "incrementing", ![l].pending = @ - 1]
    /\ UNCHANGED lbVars
    /\ LoopFrame

\* A delivery: tracker.IncQuestionIdx, which refuses to leave the last question.
NextTrigger(l) ==
    /\ loops[l].pc = "idle"
    /\ loops[l].pending > 0
    /\ \/ /\ IncReads(l, loops[l].session)
          /\ loops' = [loops EXCEPT ![l].pc = "incrementing",
                                    ![l].pending = @ - 1]
       \/ /\ ~CanAdvance(loops[l].session)
          /\ loops' = [loops EXCEPT ![l].pc = "advanced", ![l].pending = @ - 1]
          /\ UNCHANGED trackerVars
    /\ UNCHANGED lbVars
    /\ LoopFrame

\* The rest of IncQuestionIdx.
Increment(l) ==
    /\ loops[l].pc = "incrementing"
    /\ IncContinues(l)
    /\ loops' = IF l \in DOMAIN inc' THEN loops
                                     ELSE [loops EXCEPT ![l].pc = "advanced"]
    /\ UNCHANGED lbVars
    /\ LoopFrame

\* A mutant: GetCurrentQuestion reads without the lock, as IncQuestionIdx does.
ReadQuestion_NoLock(l) ==
    LET s == loops[l].session
        q == CurrentIdx(s)
    IN  /\ loops[l].pc = "advanced"
        /\ loops' = [loops EXCEPT
              ![l].qid = q,
              ![l].pc = IF q # Len(Tracked(s).quiz) /\ q > 0 THEN "board"
                                                            ELSE "payload"]
        /\ UNCHANGED <<trackerVars, lbVars>>
        /\ LoopFrame

\* GetCurrentQuestion and GetQuizLen, in one step as the length of a quiz never
\* changes: an index equal to it is the end of the game, of which the clients
\* are told; from the second question on the Leader Board comes first;
\* otherwise the payload is sent.
ReadQuestion(l) ==
    LET s == loops[l].session
        q == CurrentIdx(s)
    IN  /\ loops[l].pc = "advanced"
        /\ Unlocked
        /\ loops' = [loops EXCEPT
              ![l].qid = q,
              ![l].pc = IF q # Len(Tracked(s).quiz) /\ q > 0 THEN "board"
                                                            ELSE "payload"]
        /\ UNCHANGED <<trackerVars, lbVars>>
        /\ LoopFrame

\* A mutant: the board is counted for the question that is open.
BoardQuestion_Current(s) == CurrentIdx(s)

\* GetLeaderboard reads the index again: the question before the current one.
BoardQuestion(s) == IF CurrentIdx(s) > 0 THEN CurrentIdx(s) - 1
                                         ELSE CurrentIdx(s)

\* GetLeaderboard collects every user's answer to that question, counts the
\* options of the current one, and posts both.  It reads the answers after it
\* has unlocked; an answer recorded in between is for the open question, or
\* for one another loop of the session has just closed.
GetLeaderboard(l) ==
    LET s     == loops[l].session
        q     == BoardQuestion(s)
        board == IF s \in DOMAIN answers
                 THEN [u \in DOMAIN answers[s] |-> answers[s][u][q]]
                 ELSE EmptyMap
    IN  /\ loops[l].pc = "board"
        /\ Unlocked
        /\ loops' = [loops EXCEPT
              ![l].pc = "posting",
              ![l].boardQ = q,
              ![l].board = board,
              ![l].options = Len(GetQuestion(Tracked(s).quiz, CurrentIdx(s))),
              ![l].request = IF DOMAIN board = {} THEN 0
                                                  ELSE Len(posted[s]) + 1]
        /\ posted' = IF DOMAIN board = {} THEN posted
                     ELSE [posted EXCEPT ![s] =
                             Append(@, [question |-> q, lost |-> FALSE])]
        /\ UNCHANGED <<trackerVars, scored>>
        /\ LoopFrame

\* The service has added the points of the n-th request.
Scored(s, n) == \E i \in DOMAIN scored[s] : scored[s][i] = n

\* The Leader Board service adds the points of a request, whether or not the
\* client still waits: its handler has no deadline.  It cannot score an empty
\* list of answers.
AddScores(s, n) ==
    /\ ~Scored(s, n)
    /\ scored' = [scored EXCEPT ![s] = Append(@, n)]
    /\ UNCHANGED <<trackerVars, running, brokerVars, handlerVars, loops, ws,
                   job, crashes, posted>>

\* lb.GetResults answers: the scores are in, and the loop goes on to send the
\* board and the statistics.
BoardReceived(l) ==
    /\ loops[l].pc = "posting"
    /\ Scored(loops[l].session, loops[l].request)
    /\ loops' = [loops EXCEPT ![l].pc = "stat"]
    /\ UNCHANGED <<trackerVars, lbVars>>
    /\ LoopFrame

\* A mutant: no timeout, and no reply to a request that cannot be scored.
BoardFails_NoTimeout(l) ==
    /\ loops[l].pc = "posting"
    /\ loops[l].request # 0
    /\ loops' = [loops EXCEPT ![l].pc = "payload", ![l].board = EmptyMap,
                              ![l].boardQ = -1, ![l].request = 0]
    /\ UNCHANGED <<trackerVars, lbVars>>
    /\ LoopFrame

\* A mutant: a request that timed out is sent again.
BoardFails_Retries(l) ==
    LET s == loops[l].session
    IN  /\ loops[l].pc = "posting"
        /\ loops[l].request # 0
        /\ posted' = [posted EXCEPT ![s] =
                        Append(@, [question |-> loops[l].boardQ,
                                   lost |-> FALSE])]
        /\ loops' = [loops EXCEPT ![l].request = Len(posted[s]) + 1]
        /\ UNCHANGED <<trackerVars, scored>>
        /\ LoopFrame

\* lb.GetResults fails: refused, or timed out, with the scores added, or not,
\* or not yet.  SendError and the payload of the next question follow.
BoardFails(l) ==
    LET s == loops[l].session
        n == loops[l].request
    IN  /\ loops[l].pc = "posting"
        /\ posted' = IF n = 0 THEN posted
                     ELSE [posted EXCEPT ![s][n].lost = TRUE]
        /\ loops' = [loops EXCEPT ![l].pc = "payload", ![l].board = EmptyMap,
                                  ![l].boardQ = -1, ![l].request = 0]
        /\ UNCHANGED <<trackerVars, scored>>
        /\ LoopFrame

\* The flag SendQuestionStat reports to u, read again from the tracker.
StatFor(l, u) == answers[loops[l].session][u][loops[l].qid - 1]

\* SendLeaderboard, GetAnswers and SendQuestionStat.
SendStat(l) ==
    /\ loops[l].pc = "stat"
    /\ Unlocked
    /\ loops' = [loops EXCEPT ![l].pc = "payload", ![l].board = EmptyMap,
                              ![l].boardQ = -1, ![l].request = 0]
    /\ UNCHANGED <<trackerVars, lbVars>>
    /\ LoopFrame

\* SendGameEnd, or SendQuestionPayload (and SendError before it): the loop is
\* done with this trigger.
SendPayload(l) ==
    /\ loops[l].pc = "payload"
    /\ loops' = [loops EXCEPT ![l].pc = "idle"]
    /\ UNCHANGED <<trackerVars, lbVars>>
    /\ LoopFrame

\* A send never returns: it waits for a client that has stopped reading, as no
\* write has a deadline, or for a lock of the registry (Registry's HangsForAReason).
SendHangs(l) ==
    /\ loops[l].pc \in {"stat", "payload"}
    /\ loops' = [loops EXCEPT ![l].pc = "hung"]
    /\ UNCHANGED <<trackerVars, lbVars>>
    /\ LoopFrame

\* The delivery channel is closed and drained: the goroutine returns.
LoopEnds(l) ==
    /\ loops[l].pc = "idle"
    /\ ~loops[l].subscribed
    /\ loops[l].pending = 0
    /\ loops' = Delete(loops, l)
    /\ UNCHANGED <<trackerVars, lbVars>>
    /\ LoopFrame

LoopStep(l) ==
    \/ BindQueue(l) \/ BindFails(l) \/ StoreTag(l)
    \/ NextTrigger(l) \/ Increment(l) \/ ReadQuestion(l)
    \/ GetLeaderboard(l) \/ BoardReceived(l) \/ BoardFails(l)
    \/ SendStat(l) \/ SendPayload(l) \/ SendHangs(l) \/ LoopEnds(l)

-----------------------------------------------------------------------------
(* Connections (ws/handler.go).  A token is valid for its lifetime, before *)
(* the start message is handled and after the session has ended.           *)

WsFrame == UNCHANGED <<running, brokerVars, starting, ending, tags, loops,
                       job, crashes, lbVars>>

\* The handler makes sure the session is registered.
OpenConnection(s, u) ==
    /\ running
    /\ s \in created
    /\ ws[<<s, u>>] \in {"none", "stuck"}
    /\ ws' = [ws EXCEPT ![<<s, u>>] = "opening"]
    /\ registered' = registered \cup {s}
    /\ UNCHANGED trackerVars
    /\ WsFrame

\* The admin's handler registers the session too and never calls the tracker.
AdminConnects(s) ==
    /\ running
    /\ s \in created
    /\ registered' = registered \cup {s}
    /\ UNCHANGED <<trackerVars, ws>>
    /\ WsFrame

\* RegisterConnection: the connection is closed when the session has been
\* unregistered in between.
RegisterConnection(s, u) ==
    /\ ws[<<s, u>>] = "opening"
    /\ ws' = [ws EXCEPT ![<<s, u>>] =
                 IF s \in registered THEN "joining" ELSE "none"]
    /\ UNCHANGED <<trackerVars, registered>>
    /\ WsFrame

\* A mutant: messages are read before the participant is added.
Join_ReadsFirst(s, u) ==
    /\ ws[<<s, u>>] = "joining"
    /\ ws' = [ws EXCEPT ![<<s, u>>] = "reading"]
    /\ UNCHANGED <<trackerVars, registered>>
    /\ WsFrame

\* AddParticipant, then go handleRead.
Join(s, u) ==
    /\ ws[<<s, u>>] = "joining"
    /\ AddParticipant(s, u)
    /\ ws' = [ws EXCEPT ![<<s, u>>] = "reading"]
    /\ UNCHANGED registered
    /\ WsFrame

\* AddParticipant panics; the HTTP server recovers and leaves a connection
\* that is registered and never read.
JoinPanics(s, u) ==
    /\ ws[<<s, u>>] = "joining"
    /\ AddParticipantPanics(s)
    /\ ws' = [ws EXCEPT ![<<s, u>>] = "stuck"]
    /\ UNCHANGED <<trackerVars, registered>>
    /\ WsFrame

\* handleRead returns.
Disconnect(s, u) ==
    /\ ws[<<s, u>>] = "reading"
    /\ ws' = [ws EXCEPT ![<<s, u>>] = "none"]
    /\ UNCHANGED <<trackerVars, registered>>
    /\ WsFrame

-----------------------------------------------------------------------------
(* Answers (ws/message.go).                                                *)

JobFrame == UNCHANGED <<running, brokerVars, handlerVars, loops, ws, crashes,
                        lbVars>>

\* handleRead: go processAnswer.
ReceiveAnswer(g, s, u, o) ==
    /\ ws[<<s, u>>] = "reading"
    /\ g \notin DOMAIN job
    /\ job' = Put(job, g, [pc |-> "received", session |-> s, user |-> u,
                           option |-> o, qid |-> -1, correct |-> FALSE])
    /\ UNCHANGED trackerVars
    /\ JobFrame

\* GetCurrentQuestion and GetCorrectOption: two locked reads in one step, as
\* the second depends on the quiz only, which never changes.  The answer is
\* dropped when the tracker does not know the session.
JudgeAnswer(g) ==
    LET q == CurrentIdx(job[g].session)
    IN  /\ job[g].pc = "received"
        /\ Unlocked
        /\ job' = IF job[g].session \notin DOMAIN tracker THEN Delete(job, g)
                  ELSE [job EXCEPT
                          ![g].pc = "judged",
                          ![g].qid = q,
                          ![g].correct = (job[g].option =
                                          CorrectOption(job[g].session, q))]
        /\ UNCHANGED trackerVars
        /\ JobFrame

\* tracker.RecordAnswer, up to its write.
RecordAnswer(g) ==
    /\ job[g].pc = "judged"
    /\ RecordAnswerReads(job[g].session, job[g].user,
                         GivenAnswer(job[g].option, job[g].correct))
    /\ job' = [job EXCEPT ![g].pc = "storing"]
    /\ JobFrame

\* Its write; telling the admin changes nothing here.
StoreAnswer(g) ==
    /\ job[g].pc = "storing"
    /\ RecordAnswerWrites
    /\ job' = Delete(job, g)
    /\ JobFrame

\* A mutant: the panic leaves the lock held and the goroutine hanging.
StoreAnswerPanics_Hangs(g) ==
    /\ job[g].pc = "judged"
    /\ RecordAnswerPanics(job[g].session, job[g].user)
    /\ UNCHANGED vars

\* RecordAnswer panics in a goroutine nobody recovers.
StoreAnswerPanics(g) ==
    /\ job[g].pc = "judged"
    /\ RecordAnswerPanics(job[g].session, job[g].user)
    /\ Die
    /\ UNCHANGED crashes

JobStep(g) == \/ JudgeAnswer(g) \/ RecordAnswer(g) \/ StoreAnswer(g)
              \/ StoreAnswerPanics(g)

-----------------------------------------------------------------------------
\* Redis drops a key; nothing else happens.
KeyExpires(s) ==
    /\ Expire(s)
    /\ UNCHANGED <<running, brokerVars, handlerVars, loops, ws, job, crashes,
                   lbVars>>

StartStep == \/ ReceiveSessionStart
             \/ \E l \in Loops : TrackSession(l)
             \/ TrackSessionPanics

EndStep == ReceiveSessionEnd \/ UnregisterSession

WsStep(s, u) == \/ OpenConnection(s, u) \/ RegisterConnection(s, u)
                \/ Join(s, u) \/ JoinPanics(s, u) \/ Disconnect(s, u)

Next ==
    \/ \E s \in Sessions : \/ \E quiz \in Quizzes : PublishSessionStart(s, quiz)
                           \/ PublishSessionEnd(s)
                           \/ PublishQuestionStart(s)
                           \/ AdminConnects(s)
                           \/ \E n \in DOMAIN posted[s] : AddScores(s, n)
                           \/ KeyExpires(s)
    \/ Crash
    \/ Boot
    \/ StartStep
    \/ EndStep
    \/ \E l \in DOMAIN loops : LoopStep(l)
    \/ \E s \in Sessions, u \in Users : WsStep(s, u)
    \/ \E g \in Jobs, s \in Sessions, u \in Users, o \in Options :
          ReceiveAnswer(g, s, u, o)
    \/ \E g \in DOMAIN job : JobStep(g)

\* A goroutine that can run, or that finds the tracker's mutex free again and
\* again, does run: a sync.Mutex is handed to the one that has waited longest.
\* Redis and the Leader Board client answer or time out, and the container
\* runtime restarts a dead process.  Nothing is assumed of the Session Service,
\* of participants, of sends to clients (SendHangs is a step like another), of
\* the session consumers, which take the locks of the registry, or of crashes.
Fairness ==
    /\ WF_vars(Boot)
    /\ \A l \in Loops : SF_vars(l \in DOMAIN loops /\ LoopStep(l))
    /\ \A g \in Jobs : SF_vars(g \in DOMAIN job /\ JobStep(g))

Spec == Init /\ [][Next]_vars /\ Fairness

-----------------------------------------------------------------------------
(* Properties.                                                             *)

\* The types of the service's shared variables.
TypeOK ==
    /\ running \in BOOLEAN
    /\ channelOpen \in BOOLEAN
    /\ published \in [start : 0 .. MaxStarts, end : 0 .. MaxEnds,
                      trigger : 0 .. MaxTriggers]
    /\ created \subseteq Sessions
    /\ startQ \in Seq(StartMsg)
    /\ starting \in StartMsg \cup {NoMsg}
    /\ endQ \in Seq(Sessions)
    /\ ending \in Sessions \cup {NoMsg}
    /\ registered \subseteq Sessions
    /\ tags \subseteq Sessions
    /\ IsMap(loops, Loops, Loop)
    /\ ws \in [Sessions \X Users ->
                 {"none", "opening", "joining", "reading", "stuck"}]
    /\ IsMap(job, Jobs, Job)
    /\ crashes \in 0 .. MaxCrashes
    /\ posted \in [Sessions -> Seq(Request)]
    /\ scored \in [Sessions -> Seq(Nat)]

\* A loop only runs for a session the tracker knows, so the question that
\* ConsumeQuestionStart dereferences is never nil, whatever the order in which
\* start and end messages, restarts and expiries came.
LoopSessionTracked ==
    \A l \in DOMAIN loops : loops[l].session \in DOMAIN tracker

\* A participant whose messages are read, or whose answer is in flight, has
\* an array of answers in a session the tracker knows: processAnswer finds a
\* question and RecordAnswer can only panic before the first question.
AnsweringHasArray ==
    /\ \A s \in Sessions, u \in Users : ws[<<s, u>>] = "reading" =>
          s \in DOMAIN answers /\ u \in DOMAIN answers[s]
    /\ \A g \in DOMAIN job :
          /\ job[g].session \in DOMAIN answers
          /\ job[g].user \in DOMAIN answers[job[g].session]

\* What a participant is told about a question is what was scored: when the
\* statistics go out, long after GetLeaderboard read the answers and with new
\* answers arriving all the time, the answers are still the ones that were
\* sent to the Leader Board service, and of the same question.  It takes a
\* loop that is alone with its session: a code used again while the old loop
\* still works off its triggers has two loops advancing one index.
StatAgreesWithBoard ==
    \A l \in DOMAIN loops : loops[l].pc = "stat" /\ loops[l].alone =>
        /\ loops[l].boardQ = loops[l].qid - 1
        /\ \A u \in DOMAIN loops[l].board :
              StatFor(l, u) = loops[l].board[u]

\* As long as a game has one loop and one process, its questions are scored in
\* order and none is handed in twice, whatever timeouts hide from the loop that
\* the scores are in: except that every trigger after the last question scores
\* the last but one again, as IncQuestionIdx stays where it is, and that the
\* points of a request the loop has given up may come in after later ones.
\* (How often the service adds the points of one request is LeaderBoard's
\* subject.)
ScoredInOrder ==
    \A s \in DOMAIN tracker :
        crashes = 0 /\ published.start <= 1 =>
            \A i, j \in DOMAIN scored[s] : i < j =>
                LET first == posted[s][scored[s][i]]
                    then  == posted[s][scored[s][j]]
                IN  \/ first.question < then.question
                    \/ /\ first.question = then.question
                       /\ first.question = Len(tracker[s].quiz) - 2
                    \/ scored[s][i] > scored[s][j] /\ then.lost

\* Once a loop has told the players of a new question, no answer to an earlier
\* one changes for as long as the process lives: RecordAnswer may have read the
\* index before IncQuestionIdx moved it, without the lock, but it holds the
\* lock ConsumeQuestionStart must take before it goes on.  While a loop of the
\* session is between the two, an answer to the question just closed may come.
ClosedQuestionsFrozen ==
    [][\A s \in (DOMAIN answers) \cap (DOMAIN answers') :
          (\A l \in LoopsOf(s) : loops[l].pc \notin {"incrementing", "advanced"})
            => \A u \in DOMAIN answers[s] :
                  /\ u \in DOMAIN answers'[s]
                  /\ \A q \in DOMAIN answers[s][u] :
                        q < CurrentIdx(s) =>
                            answers'[s][u][q] = answers[s][u][q]]_vars

\* Every trigger a loop has received is handled, however the Leader Board
\* service behaves, unless the process dies, the connection to the broker is
\* closed and the trigger dropped, or a send to a client before it never
\* returns.
TriggersHandled ==
    \A l \in Loops :
        (l \in DOMAIN loops /\ loops[l].pending > 0) ~>
            (\/ l \notin DOMAIN loops
             \/ loops[l].pending = 0
             \/ loops[l].pc = "hung")

\* Every answer read from a connection is stored or dies with the process.
AnswersHandled ==
    \A g \in Jobs : g \in DOMAIN job ~> g \notin DOMAIN job

-----------------------------------------------------------------------------
(* What comments and documentation say of the service and the code does    *)
(* not do.  TLC finds a counterexample to each.                            *)

\* "RecordAnswer stores whether a user's answer was correct"
\* (ws/quiz_tracker.go:102): the flag stored for a question says whether the
\* option is the correct one of that question.
JudgedForStoredQuestion ==
    \A s \in DOMAIN answers : \A u \in DOMAIN answers[s] :
        \A q \in DOMAIN answers[s][u] :
            LET a == answers[s][u][q]
            IN  a.answered => a.correct = (a.option = CorrectOption(s, q))

\* Clients connect "As soon as the user (admin or participant) has a valid JWT
\* from the Session Service" (docs/README.md:9): a start message is dropped
\* only for a session that has been started before.
StartNotLost ==
    [][startQ # <<>> /\ startQ' = Tail(startQ) /\ running' =>
          \/ starting' = Head(startQ)
          \/ Head(startQ).session \in DOMAIN tracker]_vars
=============================================================================
