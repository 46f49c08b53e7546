--------------------------- MODULE RealTime_proofs ---------------------------
(***************************************************************************)
(* Proofs about RealTime: its invariants hold for any sessions, users,     *)
(* quizzes and numbers of goroutines, whatever fails, expires and crashes. *)
(***************************************************************************)
EXTENDS RealTime, QuizTracker_proofs

-----------------------------------------------------------------------------
(* The inductive invariant.                                                *)

\* A process that is down has no goroutines, no queues and no connections.
DownIsEmpty ==
    ~running => /\ ~channelOpen
                /\ startQ = <<>> /\ starting = NoMsg
                /\ endQ = <<>> /\ ending = NoMsg
                /\ loops = EmptyMap
                /\ job = EmptyMap
                /\ \A c \in Sessions \X Users : ws[c] = "none"

\* The calls of IncQuestionIdx in progress are those of the loops that are
\* incrementing, each for its loop's session.
IncrementingLoops ==
    running =>
        /\ DOMAIN inc = {l \in DOMAIN loops : loops[l].pc = "incrementing"}
        /\ \A l \in DOMAIN inc : inc[l].session = loops[l].session

\* A loop of the session is moving its index, or has not taken the lock since.
Opening(s) ==
    \E l \in DOMAIN loops : /\ loops[l].session = s
                            /\ loops[l].pc \in {"incrementing", "advanced"}

\* An answer that is being recorded is for the current question or a later one,
\* unless a loop has just moved the index.
RecordingStands ==
    running => \A r \in recording : \/ r.qid >= CurrentIdx(r.session)
                                    \/ Opening(r.session)

\* A loop that is dealing with the Leader Board has seen the second question
\* or a later one, and its session is at a question of its quiz.
ScoringIndex ==
    \A l \in DOMAIN loops : loops[l].pc \in {"board", "posting", "stat"} =>
        /\ loops[l].qid > 0
        /\ CurrentIdx(loops[l].session) >= 0
        /\ Len(Tracked(loops[l].session).quiz) > 0

\* The loop's question is the current one of its session s, and what it sent
\* to be scored is what the tracker holds for the question before.
BoardStands(l, s) ==
    /\ loops[l].pc \in {"board", "posting", "stat"} =>
          loops[l].qid = CurrentIdx(s)
    /\ loops[l].pc \in {"posting", "stat"} =>
          /\ loops[l].boardQ = loops[l].qid - 1
          /\ \A u \in DOMAIN loops[l].board :
                /\ s \in DOMAIN answers
                /\ u \in DOMAIN answers[s]
                /\ loops[l].board[u] = answers[s][u][loops[l].boardQ]

\* A loop that is alone is the only one of its session; nobody else moves the
\* index, and what it sent to be scored stays as it was.
AloneLoops ==
    \A l \in DOMAIN loops : loops[l].alone =>
        /\ \A m \in DOMAIN loops : loops[m].session = loops[l].session => m = l
        /\ BoardStands(l, loops[l].session)

\* Everything the process knows of a session goes back to a start message.
StartsKnown ==
    /\ DOMAIN tracker \cup DOMAIN quizState \subseteq created
    /\ starting # NoMsg => starting.session \in created
    /\ \A i \in DOMAIN startQ : startQ[i].session \in created
    /\ \A s \in Sessions : posted[s] # <<>> => s \in created

NothingPosted == \A s \in Sessions : posted[s] = <<>>

\* One start message is in one place at most: the queue, the consumer's hands,
\* or the loop that it has started.
OneStart ==
    published.start <= 1 =>
        /\ published.start = 0 => created = {}
        /\ \A s, t \in created : s = t
        /\ Len(startQ) <= 1
        /\ startQ # <<>> =>
              starting = NoMsg /\ DOMAIN loops = {} /\ NothingPosted
        /\ starting # NoMsg => DOMAIN loops = {} /\ NothingPosted
        /\ \A l, m \in DOMAIN loops : l = m
        /\ \A l \in DOMAIN loops : loops[l].alone
        /\ raced = {}

\* Only requests that were made are scored, each once.
ScoredOnce ==
    \A s \in Sessions :
        /\ \A i \in DOMAIN scored[s] : scored[s][i] \in DOMAIN posted[s]
        /\ \A i, j \in DOMAIN scored[s] : i < j => scored[s][i] # scored[s][j]

\* The loop has moved past all that was posted but has not posted since.
Moved(l) == \/ loops[l].pc \in {"advanced", "board"}
            \/ loops[l].pc = "incrementing" /\ inc[l].pc # "write"

\* The request r of s is the one its loop waits for.
Awaited(s, r) ==
    \E l \in DOMAIN loops : /\ loops[l].session = s
                            /\ loops[l].pc = "posting"
                            /\ loops[l].request = r

\* A game with one loop and one process posts its questions in order, the last
\* but one of the quiz perhaps again, and one request at a time: the one before
\* is scored or given up.
PostedInOrder ==
    crashes = 0 /\ published.start <= 1 =>
        \A s \in Sessions : posted[s] # <<>> =>
            /\ running
            /\ CurrentIdx(s) >= 1
            /\ \A i \in DOMAIN posted[s] :
                  /\ posted[s][i].question < CurrentIdx(s)
                  /\ Scored(s, i) \/ posted[s][i].lost \/ Awaited(s, i)
            /\ \A i, j \in DOMAIN posted[s] : i < j =>
                  \/ posted[s][i].question < posted[s][j].question
                  \/ /\ posted[s][i].question = posted[s][j].question
                     /\ posted[s][i].question = Len(tracker[s].quiz) - 2
            /\ \A l \in DOMAIN loops :
                  /\ loops[l].pc = "posting" =>
                        loops[l].request \in {0, Len(posted[s])}
                  /\ Moved(l) => \A i \in DOMAIN posted[s] :
                        \/ posted[s][i].question < CurrentIdx(s) - 1
                        \/ CurrentIdx(s) = Len(tracker[s].quiz) - 1

\* A request scored after a later one was given up.
LateAreLost ==
    crashes = 0 /\ published.start <= 1 =>
        \A s \in Sessions : \A i, j \in DOMAIN scored[s] :
            i < j /\ scored[s][i] > scored[s][j] => posted[s][scored[s][j]].lost

RealTimeInv ==
    /\ TypeOK
    /\ TrackerInv
    /\ DownIsEmpty
    /\ IncrementingLoops
    /\ RecordingStands
    /\ LoopSessionTracked
    /\ AnsweringHasArray
    /\ ScoringIndex
    /\ AloneLoops
    /\ StartsKnown
    /\ OneStart
    /\ ScoredOnce
    /\ PostedInOrder
    /\ LateAreLost

-----------------------------------------------------------------------------
(* Types.                                                                  *)

\* What the type invariant says of one loop.
LEMMA LoopTypes ==
    ASSUME TypeOK, NEW l \in DOMAIN loops
    PROVE  /\ l \in Loops
           /\ loops[l] \in Loop
           /\ loops[l].session \in Sessions
           /\ loops[l].pending \in Nat
           /\ loops[l].qid \in Int
           /\ loops[l].boardQ \in Int
           /\ loops[l].request \in Nat
BY DEF TypeOK, IsMap, Loop

\* What the type invariant says of one answer in flight.
LEMMA JobTypes ==
    ASSUME TypeOK, NEW g \in DOMAIN job
    PROVE  /\ g \in Jobs
           /\ job[g] \in Job
           /\ job[g].session \in Sessions
           /\ job[g].user \in Users
           /\ job[g].option \in Options
           /\ job[g].correct \in BOOLEAN
BY DEF TypeOK, IsMap, Job

\* A start message in hand names a session and a quiz.
LEMMA StartTypes ==
    ASSUME TypeOK, starting # NoMsg
    PROVE  starting.session \in Sessions /\ starting.quiz \in Quizzes
BY DEF TypeOK, StartMsg

\* The requests of a session, and the positions of those that are scored.
LEMMA RequestTypes ==
    ASSUME TypeOK, NEW s \in Sessions
    PROVE  /\ posted[s] \in Seq(Request)
           /\ Len(posted[s]) \in Nat
           /\ DOMAIN posted[s] = 1 .. Len(posted[s])
           /\ \A i \in DOMAIN posted[s] : /\ posted[s][i].question \in Int
                                          /\ posted[s][i].lost \in BOOLEAN
           /\ scored[s] \in Seq(Nat)
           /\ Len(scored[s]) \in Nat
           /\ DOMAIN scored[s] = 1 .. Len(scored[s])
           /\ \A i \in DOMAIN scored[s] : scored[s][i] \in Nat
<1>1. posted[s] \in Seq(Request) /\ scored[s] \in Seq(Nat)
  BY DEF TypeOK
<1>2. /\ Len(posted[s]) \in Nat /\ DOMAIN posted[s] = 1 .. Len(posted[s])
      /\ \A i \in DOMAIN posted[s] : posted[s][i] \in Request
  BY <1>1
<1>3. /\ Len(scored[s]) \in Nat /\ DOMAIN scored[s] = 1 .. Len(scored[s])
      /\ \A i \in DOMAIN scored[s] : scored[s][i] \in Nat
  BY <1>1
<1>4. \A i \in DOMAIN posted[s] : /\ posted[s][i].question \in Int
                                  /\ posted[s][i].lost \in BOOLEAN
  BY <1>2 DEF Request
<1> QED BY <1>1, <1>2, <1>3, <1>4

\* Where there is a loop, the process is up.
LEMMA RunningLoop ==
    ASSUME DownIsEmpty, NEW l \in DOMAIN loops
    PROVE  running
BY DEF DownIsEmpty, EmptyMap

-----------------------------------------------------------------------------
(* RealTime uses the tracker as TrackerSpec allows.                        *)

\* Every step of the service is a step of a method of the tracker, a restart,
\* an expiry, or leaves the tracker and Redis alone.
LEMMA TrackerStep ==
    ASSUME TypeOK, DownIsEmpty, IncrementingLoops, [Next]_vars
    PROVE  [TrackerNext]_trackerVars
<1>1. CASE UNCHANGED vars
  BY <1>1 DEF vars
<1>2. ASSUME NEW s \in Sessions,
             \/ \E quiz \in Quizzes : PublishSessionStart(s, quiz)
             \/ PublishSessionEnd(s) \/ PublishQuestionStart(s)
             \/ AdminConnects(s)
             \/ \E n \in DOMAIN posted[s] : AddScores(s, n)
      PROVE  UNCHANGED trackerVars
  BY <1>2 DEF PublishSessionStart, PublishSessionEnd, PublishQuestionStart,
              AdminConnects, AddScores
<1>3. ASSUME NEW s \in Sessions, KeyExpires(s)
      PROVE  TrackerNext
  BY <1>3 DEF KeyExpires, TrackerNext
<1>4. CASE Crash
  BY <1>4 DEF Crash, Die
<1>5. CASE Boot
  BY <1>5 DEF Boot, TrackerNext
<1>6. CASE StartStep
  <2>1. CASE ReceiveSessionStart
    BY <2>1 DEF ReceiveSessionStart
  <2>2. ASSUME NEW l \in Loops, TrackSession(l)
        PROVE  TrackerNext
    BY <2>2, StartTypes DEF TrackSession, TrackerNext
  <2>3. CASE TrackSessionPanics
    BY <2>3 DEF TrackSessionPanics, Die
  <2> QED BY <1>6, <2>1, <2>2, <2>3 DEF StartStep
<1>7. CASE EndStep
  BY <1>7 DEF EndStep, ReceiveSessionEnd, UnregisterSession
<1>8. ASSUME NEW l \in DOMAIN loops, LoopStep(l)
      PROVE  [TrackerNext]_trackerVars
  <2>1. CASE NextTrigger(l)
    BY <2>1, LoopTypes DEF NextTrigger, TrackerNext
  <2>2. CASE Increment(l)
    BY <2>2, RunningLoop DEF Increment, IncrementingLoops, TrackerNext
  <2>3. CASE ~NextTrigger(l) /\ ~Increment(l)
    BY <1>8, <2>3 DEF LoopStep, BindQueue, BindFails, StoreTag, ReadQuestion,
                      GetLeaderboard, BoardReceived, BoardFails, SendStat,
                      SendPayload, SendHangs, LoopEnds
  <2> QED BY <2>1, <2>2, <2>3
<1>9. ASSUME NEW s \in Sessions, NEW u \in Users, WsStep(s, u)
      PROVE  [TrackerNext]_trackerVars
  <2>1. CASE Join(s, u)
    BY <2>1 DEF Join, TrackerNext
  <2>2. CASE ~Join(s, u)
    BY <1>9, <2>2 DEF WsStep, OpenConnection, RegisterConnection, JoinPanics,
                      Disconnect
  <2> QED BY <2>1, <2>2
<1>10. ASSUME NEW g \in Jobs, NEW s \in Sessions, NEW u \in Users,
              NEW o \in Options, ReceiveAnswer(g, s, u, o)
       PROVE  UNCHANGED trackerVars
  BY <1>10 DEF ReceiveAnswer
<1>11. ASSUME NEW g \in DOMAIN job, JobStep(g)
       PROVE  [TrackerNext]_trackerVars
  <2>1. CASE RecordAnswer(g)
    BY <2>1, JobTypes DEF RecordAnswer, TrackerNext
  <2>2. CASE StoreAnswer(g)
    BY <2>2 DEF StoreAnswer, TrackerNext
  <2>3. CASE ~RecordAnswer(g) /\ ~StoreAnswer(g)
    BY <1>11, <2>3 DEF JobStep, JudgeAnswer, StoreAnswerPanics, Die
  <2> QED BY <2>1, <2>2, <2>3
<1> QED BY <1>1, <1>2, <1>3, <1>4, <1>5, <1>6, <1>7, <1>8, <1>9, <1>10, <1>11
        DEF Next

-----------------------------------------------------------------------------
(* What a live process does to the tracker.                                *)

\* No session and no array is lost, a quiz stays, a game that has begun does
\* not go back to its start, and what was answered before the current question
\* stays unless a loop is moving the index.
Grows ==
    /\ DOMAIN tracker \subseteq DOMAIN tracker'
    /\ \A s \in DOMAIN tracker :
          /\ tracker'[s].quiz = tracker[s].quiz
          /\ tracker[s].idx >= 0 => tracker'[s].idx >= 0
    /\ DOMAIN answers \subseteq DOMAIN answers'
    /\ \A s \in DOMAIN answers : \A u \in DOMAIN answers[s] :
          /\ u \in DOMAIN answers'[s]
          /\ ~Opening(s) => \A q \in DOMAIN answers[s][u] :
                q < CurrentIdx(s) => answers'[s][u][q] = answers[s][u][q]

\* Every session stays at its question.
IndexKept == \A s \in DOMAIN tracker : tracker'[s].idx = tracker[s].idx

\* No session appears in the tracker, and no key of another one in Redis.
NothingNew == /\ DOMAIN tracker' \subseteq DOMAIN tracker
              /\ DOMAIN quizState' \subseteq DOMAIN quizState \cup DOMAIN tracker

\* What goes on in the tracker between two steps stays as it is.
SameCalls == UNCHANGED <<inc, recording, raced>>

\* Games and answers stay as they are.
LEMMA SameGames ==
    ASSUME TrackerInv, UNCHANGED <<tracker, answers>>,
           DOMAIN quizState' \subseteq DOMAIN quizState \cup DOMAIN tracker
    PROVE  Grows /\ IndexKept /\ NothingNew
BY DEF Grows, IndexKept, NothingNew

\* Nothing happens to the tracker.
LEMMA SameTracker ==
    ASSUME TrackerInv, UNCHANGED trackerVars
    PROVE  Grows /\ IndexKept /\ NothingNew /\ SameCalls
BY SameGames DEF trackerVars, SameCalls

\* A key of Redis expires: the tracker is not touched.
LEMMA ExpireGrows ==
    ASSUME TrackerInv, NEW s \in Sessions, Expire(s)
    PROVE  Grows /\ IndexKept /\ NothingNew /\ SameCalls
BY SameGames DEF Expire, Delete, SameCalls

\* NewSession adds its session, if it is not there, and nothing else.
LEMMA NewSessionGrows ==
    ASSUME TrackerInv, NEW s \in Sessions, NEW quiz \in Quizzes,
           NewSession(s, quiz)
    PROVE  /\ Grows /\ IndexKept /\ SameCalls
           /\ s \in DOMAIN tracker'
           /\ DOMAIN tracker' \subseteq DOMAIN tracker \cup {s}
           /\ DOMAIN quizState' \subseteq DOMAIN quizState \cup DOMAIN tracker
                                              \cup {s}
<1>1. CASE UNCHANGED trackerVars
  <2>1. s \in DOMAIN tracker
    BY <1>1 DEF NewSession, trackerVars, Put
  <2> QED BY <1>1, <2>1, SameTracker DEF trackerVars
<1>2. CASE ~UNCHANGED trackerVars
  <2>1. /\ s \notin DOMAIN tracker
        /\ tracker' = Put(tracker, s, [idx |-> -1, quiz |-> quiz])
        /\ answers' = Put(answers, s, EmptyMap)
        /\ SetSessionQuiz(s, tracker'[s])
        /\ SameCalls
    BY <1>2 DEF NewSession, SameCalls
  <2>2. s \notin DOMAIN answers
    BY <2>1 DEF TrackerInv, AnswersSized
  <2> QED BY <2>1, <2>2, Entries
          DEF TrackerInv, Put, SetSessionQuiz, Grows, IndexKept
<1> QED BY <1>1, <1>2

\* AddParticipant gives the user an array.
LEMMA AddParticipantGrows ==
    ASSUME TrackerInv, NEW s \in Sessions, NEW u \in Users,
           AddParticipant(s, u)
    PROVE  /\ Grows /\ IndexKept /\ NothingNew /\ SameCalls
           /\ s \in DOMAIN answers' /\ u \in DOMAIN answers'[s]
BY DEF AddParticipant, Put, Grows, IndexKept, NothingNew, SameCalls

\* RecordAnswer may make an array before it locates the slot.
LEMMA RecordAnswerReadsGrows ==
    ASSUME TrackerInv, NEW s \in Sessions, NEW u \in Users, NEW a,
           RecordAnswerReads(s, u, a)
    PROVE  /\ Grows /\ IndexKept /\ NothingNew
           /\ UNCHANGED <<tracker, inc, raced>>
           /\ \A r \in recording' : r.qid = CurrentIdx(r.session)
<1>1. /\ s \in DOMAIN answers
      /\ answers' = Put(answers, s, Put(answers[s], u, ArrayOf(s, u)))
      /\ UNCHANGED <<tracker, quizState, inc, raced>>
      /\ \A r \in recording' : r.qid = CurrentIdx(r.session)
  BY DEF RecordAnswerReads
<1>2. u \in DOMAIN answers[s] => ArrayOf(s, u) = answers[s][u]
  BY DEF ArrayOf
<1>3. /\ DOMAIN answers' = DOMAIN answers
      /\ \A t \in DOMAIN answers : \A v \in DOMAIN answers[t] :
            v \in DOMAIN answers'[t] /\ answers'[t][v] = answers[t][v]
  BY <1>1, <1>2 DEF Put
<1> QED BY <1>1, <1>3 DEF Grows, IndexKept, NothingNew

\* RecordAnswer changes one slot of one array: that of the current question or
\* a later one, unless a loop is moving the index.
LEMMA RecordAnswerWritesGrows ==
    ASSUME TrackerInv, RecordingStands, running, RecordAnswerWrites
    PROVE  /\ Grows /\ IndexKept /\ NothingNew
           /\ recording' = {} /\ UNCHANGED <<tracker, inc, raced>>
<1>1. PICK r \in recording :
         /\ answers' = [answers EXCEPT ![r.session][r.user][r.qid] = r.answer]
         /\ recording' = {}
         /\ UNCHANGED <<tracker, quizState, inc, raced>>
  BY DEF RecordAnswerWrites
<1>2. /\ r.qid \in Int /\ r.session \in DOMAIN answers
      /\ r.user \in DOMAIN answers[r.session]
      /\ r.session \in DOMAIN tracker
      /\ CurrentIdx(r.session) \in Int
  BY Entries DEF TrackerInv, TrackerTypeOK, Recording, RecordingFits, AnswersSized,
                 CurrentIdx
<1>3. Opening(r.session) \/ ~(r.qid < CurrentIdx(r.session))
  BY <1>2 DEF RecordingStands
<1>4. /\ DOMAIN answers' = DOMAIN answers
      /\ \A t \in DOMAIN answers :
            /\ DOMAIN answers'[t] = DOMAIN answers[t]
            /\ \A v \in DOMAIN answers[t] :
                  \/ answers'[t][v] = answers[t][v]
                  \/ /\ t = r.session
                     /\ answers'[t][v] = [answers[t][v] EXCEPT ![r.qid] = r.answer]
  BY <1>1
<1>5. ASSUME NEW t \in DOMAIN answers, NEW v \in DOMAIN answers[t], ~Opening(t),
             NEW q \in DOMAIN answers[t][v], q < CurrentIdx(t)
      PROVE  answers'[t][v][q] = answers[t][v][q]
  <2>1. CASE answers'[t][v] = answers[t][v]
    BY <2>1
  <2>2. CASE /\ t = r.session
             /\ answers'[t][v] = [answers[t][v] EXCEPT ![r.qid] = r.answer]
    <3>1. q # r.qid
      BY <1>3, <1>5, <2>2
    <3> QED BY <2>2, <3>1
  <2> QED BY <1>4, <2>1, <2>2
<1> QED BY <1>1, <1>4, <1>5 DEF Grows, IndexKept, NothingNew

\* IncQuestionIdx begins: no game moves.
LEMMA IncReadsGrows ==
    ASSUME TrackerInv, NEW l \in Loops, NEW s \in Sessions, IncReads(l, s)
    PROVE  /\ Grows /\ IndexKept /\ NothingNew
           /\ UNCHANGED <<tracker, answers, quizState, recording>>
           /\ DOMAIN inc' = DOMAIN inc \cup {l}
           /\ inc'[l].session = s /\ inc'[l].pc = "write"
           /\ \A m \in DOMAIN inc : inc'[m] = inc[m]
           /\ CallsOf(s) = {} => raced' = raced
BY SameGames DEF IncReads, Put

\* It writes the index: one game moves, to the question its call has found, by
\* one if no two callers have incremented it at once.
LEMMA IncWritesGrows ==
    ASSUME TrackerInv, NEW l \in DOMAIN inc, IncWrites(l), NEW s,
           s = inc[l].session
    PROVE  /\ Grows /\ NothingNew /\ s \in DOMAIN tracker
           /\ \A t \in DOMAIN tracker : t # s => tracker'[t].idx = tracker[t].idx
           /\ s \notin raced => tracker'[s].idx = tracker[s].idx + 1
           /\ UNCHANGED <<answers, quizState, recording, raced>>
           /\ DOMAIN inc' = DOMAIN inc
           /\ \A m \in DOMAIN inc : inc'[m].session = inc[m].session
           /\ inc[l].pc = "write"
           /\ \A m \in DOMAIN inc : m # l => inc'[m] = inc[m]
<1> DEFINE i == inc[l].idx
           oq == [idx |-> i, quiz |-> inc[l].quiz]
<1>1. /\ inc[l].pc = "write"
      /\ tracker' = Put(tracker, s, oq)
      /\ inc' = [inc EXCEPT ![l].pc = "get"]
      /\ UNCHANGED <<answers, quizState, recording, raced>>
  BY DEF IncWrites
<1>2. /\ s \in DOMAIN tracker /\ inc[l].quiz = tracker[s].quiz
      /\ i \in 0 .. (Len(tracker[s].quiz) - 1)
      /\ Len(tracker[s].quiz) \in Nat
      /\ inc[l] \in Call
      /\ \A m \in DOMAIN inc : inc[m] \in Call
  BY Entries DEF TrackerInv, CallsInRange
<1>3. s \notin raced => i = tracker[s].idx + 1
  BY <1>1, <1>2 DEF TrackerInv, OneByOne, CallsOf
<1>4. /\ DOMAIN inc' = DOMAIN inc
      /\ \A m \in DOMAIN inc : m # l => inc'[m] = inc[m]
      /\ inc'[l].session = inc[l].session
  BY <1>1, <1>2 DEF Call
<1>5. /\ i >= 0 /\ oq.idx = i /\ oq.quiz = tracker[s].quiz
  BY <1>2
<1> HIDE DEF oq, i
<1>6. /\ DOMAIN tracker' = DOMAIN tracker
      /\ tracker'[s] = oq
      /\ \A t \in DOMAIN tracker : t # s => tracker'[t] = tracker[t]
  BY <1>1, <1>2 DEF Put
<1>7. Grows /\ NothingNew
  BY <1>1, <1>5, <1>6 DEF Grows, NothingNew
<1> QED BY <1>1, <1>2, <1>3, <1>4, <1>5, <1>6, <1>7

\* It has the cache GET and SET: no game moves.
LEMMA IncSavesGrows ==
    ASSUME TrackerInv, NEW l \in DOMAIN inc, IncGets(l) \/ IncSets(l)
    PROVE  /\ Grows /\ IndexKept /\ NothingNew
           /\ UNCHANGED <<tracker, answers, recording, raced>>
           /\ DOMAIN inc' \subseteq DOMAIN inc
           /\ DOMAIN inc \subseteq DOMAIN inc' \cup {l}
           /\ \A m \in DOMAIN inc' : inc'[m].session = inc[m].session
           /\ \A m \in DOMAIN inc : m # l => inc'[m] = inc[m]
           /\ inc[l].pc # "write"
<1>1. CASE IncGets(l)
  <2>1. \A m \in DOMAIN inc : inc[m] \in Call
    BY Entries DEF TrackerInv
  <2>2. UNCHANGED <<tracker, answers, quizState, recording, raced>>
        /\ inc[l].pc = "get"
    BY <1>1 DEF IncGets
  <2>3. \/ inc' = Delete(inc, l)
        \/ \E quiz : inc' = [inc EXCEPT ![l].pc = "set", ![l].quiz = quiz]
    BY <1>1 DEF IncGets
  <2>4. /\ DOMAIN inc' \subseteq DOMAIN inc
        /\ DOMAIN inc \subseteq DOMAIN inc' \cup {l}
        /\ \A m \in DOMAIN inc' : inc'[m].session = inc[m].session
        /\ \A m \in DOMAIN inc : m # l => inc'[m] = inc[m]
    <3>1. CASE inc' = Delete(inc, l)
      BY <3>1 DEF Delete
    <3>2. ASSUME NEW quiz, inc' = [inc EXCEPT ![l].pc = "set", ![l].quiz = quiz]
          PROVE  /\ DOMAIN inc' = DOMAIN inc
                 /\ inc'[l].session = inc[l].session
                 /\ \A m \in DOMAIN inc : m # l => inc'[m] = inc[m]
      BY <2>1, <3>2 DEF Call
    <3> QED BY <2>3, <3>1, <3>2
  <2> QED BY <2>2, <2>4, SameGames
<1>2. CASE IncSets(l)
  <2>1. /\ UNCHANGED <<tracker, answers, recording, raced>>
        /\ inc[l].pc = "set" /\ inc' = Delete(inc, l)
        /\ DOMAIN quizState' \subseteq DOMAIN quizState \cup {inc[l].session}
    BY <1>2 DEF IncSets, SetSessionQuiz, Put
  <2>2. inc[l].session \in DOMAIN tracker
    BY DEF TrackerInv, CallsInRange
  <2> QED BY <2>1, <2>2, SameGames DEF Delete
<1> QED BY <1>1, <1>2

\* An index above 0 is that of a question of the session's quiz.
LEMMA OpenIndex ==
    ASSUME TrackerInv, NEW s, CurrentIdx(s) > 0
    PROVE  /\ s \in DOMAIN tracker
           /\ CurrentIdx(s) = tracker[s].idx
           /\ tracker[s].idx \in 1 .. (Len(tracker[s].quiz) - 1)
           /\ Len(tracker[s].quiz) \in Nat
BY Entries, ZeroValues DEF TrackerInv, IndexInRange, CurrentIdx

-----------------------------------------------------------------------------
(* Steps that leave the course of the games alone.                         *)

Scoring == {"board", "posting", "stat"}
Openers == {"incrementing", "advanced"}

\* No loop is new or takes another session.
SameLoops ==
    \A l \in DOMAIN loops' :
        /\ l \in DOMAIN loops
        /\ loops'[l].session = loops[l].session
        /\ loops'[l].alone = loops[l].alone

\* If l is scoring it was scoring, and has the question and the answers it had.
SameScoringOf(l) ==
    loops'[l].pc \in Scoring =>
        /\ loops[l].pc \in Scoring
        /\ loops'[l].pc # "board" => loops[l].pc # "board"
        /\ loops'[l].qid = loops[l].qid
        /\ loops'[l].boardQ = loops[l].boardQ
        /\ loops'[l].board = loops[l].board

SameScoring == \A l \in DOMAIN loops' : SameScoringOf(l)

\* The same loops are incrementing.
SameIncrementing ==
    {l \in DOMAIN loops' : loops'[l].pc = "incrementing"} =
        {l \in DOMAIN loops : loops[l].pc = "incrementing"}

\* A loop that is moving the index is at it still.
OpenersStay ==
    \A l \in DOMAIN loops : loops[l].pc \in Openers =>
        l \in DOMAIN loops' /\ loops'[l].pc \in Openers

\* The same loops wait for the same requests.
SameRequests ==
    /\ \A l \in DOMAIN loops : loops[l].pc = "posting" =>
          l \in DOMAIN loops' /\ loops'[l].pc = "posting"
    /\ \A l \in DOMAIN loops' : loops'[l].pc = "posting" =>
          /\ loops[l].pc = "posting"
          /\ loops'[l].request = loops[l].request

\* No loop moves past what is posted.
NoneMoves == \A l \in DOMAIN loops' : Moved(l)' => Moved(l)

QuietLoops == /\ SameLoops /\ SameScoring /\ SameIncrementing /\ OpenersStay
              /\ SameRequests /\ NoneMoves

\* What a loop sent to be scored stands for as long as its session stays at
\* its question: no loop is moving the index, so that answers are only stored
\* for the current one.
LEMMA BoardKept ==
    ASSUME TrackerInv, ScoringIndex, Grows, NEW l \in DOMAIN loops, NEW s,
           s = loops[l].session, s \in DOMAIN tracker,
           \A m \in DOMAIN loops : loops[m].session = s => m = l,
           loops'[l].pc \in Scoring => tracker'[s].idx = tracker[s].idx,
           BoardStands(l, s), SameScoringOf(l)
    PROVE  BoardStands(l, s)'
<1> SUFFICES ASSUME loops'[l].pc \in Scoring
             PROVE  BoardStands(l, s)'
  BY DEF BoardStands, Scoring
<1>1. CurrentIdx(s)' = CurrentIdx(s)
  BY DEF Grows, CurrentIdx
<1>2. loops'[l].pc \in {"board", "posting", "stat"} =>
         loops'[l].qid = CurrentIdx(s)
  BY DEF BoardStands, SameScoringOf, Scoring
<1>3. ASSUME loops'[l].pc \in {"posting", "stat"}
      PROVE  /\ loops'[l].boardQ = loops'[l].qid - 1
             /\ \A u \in DOMAIN loops'[l].board :
                   /\ s \in DOMAIN answers'
                   /\ u \in DOMAIN answers'[s]
                   /\ loops'[l].board[u] = answers'[s][u][loops'[l].boardQ]
  <2>1. /\ loops[l].pc \in {"posting", "stat"}
        /\ loops'[l].qid = loops[l].qid
        /\ loops'[l].boardQ = loops[l].boardQ
        /\ loops'[l].board = loops[l].board
    BY <1>3 DEF SameScoringOf, Scoring
  <2>2. /\ loops[l].boardQ = loops[l].qid - 1
        /\ loops[l].qid = CurrentIdx(s)
        /\ loops[l].qid > 0
        /\ \A u \in DOMAIN loops[l].board :
              /\ s \in DOMAIN answers
              /\ u \in DOMAIN answers[s]
              /\ loops[l].board[u] = answers[s][u][loops[l].boardQ]
    BY <2>1 DEF BoardStands, ScoringIndex
  <2>3. /\ loops[l].boardQ \in 0 .. (Len(tracker[s].quiz) - 1)
        /\ loops[l].boardQ < CurrentIdx(s)
    BY <2>2, OpenIndex
  <2>4. ~Opening(s)
    BY <2>1 DEF Opening
  <2>5. s \in DOMAIN answers => \A u \in DOMAIN answers[s] :
           /\ u \in DOMAIN answers'[s]
           /\ answers'[s][u][loops[l].boardQ] = answers[s][u][loops[l].boardQ]
    BY <2>3, <2>4 DEF Grows, TrackerInv, AnswersSized
  <2> QED BY <2>1, <2>2, <2>5 DEF Grows
<1> QED BY <1>1, <1>2, <1>3 DEF BoardStands

\* The loops' own invariants survive whatever the tracker's methods do to
\* other sessions and to the questions that are open.
LEMMA LoopsKept ==
    ASSUME RealTimeInv, Grows, SameLoops, SameScoring,
           \A l \in DOMAIN loops' : loops[l].alone /\ loops'[l].pc \in Scoring =>
              tracker'[loops[l].session].idx = tracker[loops[l].session].idx
    PROVE  LoopSessionTracked' /\ ScoringIndex' /\ AloneLoops'
<1>1. LoopSessionTracked'
  BY DEF RealTimeInv, LoopSessionTracked, SameLoops, Grows
<1>2. ScoringIndex'
  <2> SUFFICES ASSUME NEW l \in DOMAIN loops', loops'[l].pc \in Scoring,
                      NEW s, s = loops[l].session
               PROVE  /\ loops'[l].qid > 0
                      /\ CurrentIdx(s)' >= 0
                      /\ Len(Tracked(s)'.quiz) > 0
    BY DEF ScoringIndex, Scoring, SameLoops, CurrentIdx, Tracked
  <2>1. /\ loops[l].qid > 0 /\ loops'[l].qid = loops[l].qid
        /\ CurrentIdx(s) >= 0 /\ Len(Tracked(s).quiz) > 0
        /\ s \in DOMAIN tracker
    BY DEF RealTimeInv, LoopSessionTracked, ScoringIndex, SameLoops,
           SameScoring, SameScoringOf, Scoring
  <2> QED BY <2>1 DEF Grows, CurrentIdx, Tracked
<1>3. AloneLoops'
  <2> SUFFICES ASSUME NEW l \in DOMAIN loops', loops'[l].alone,
                      NEW s, s = loops'[l].session
               PROVE  /\ \A m \in DOMAIN loops' : loops'[m].session = s => m = l
                      /\ BoardStands(l, s)'
    BY DEF AloneLoops, BoardStands, CurrentIdx
  <2>1. /\ l \in DOMAIN loops /\ loops[l].alone /\ loops[l].session = s
        /\ \A m \in DOMAIN loops : loops[m].session = s => m = l
        /\ s \in DOMAIN tracker
        /\ BoardStands(l, s)
    BY DEF RealTimeInv, AloneLoops, SameLoops, LoopSessionTracked
  <2>2. \A m \in DOMAIN loops' : loops'[m].session = s => m = l
    BY <2>1 DEF SameLoops
  <2>3. BoardStands(l, s)'
    BY <2>1, BoardKept DEF RealTimeInv, SameScoring
  <2> QED BY <2>2, <2>3
<1> QED BY <1>1, <1>2, <1>3

\* Nothing is started: where the start messages are stays known.
LEMMA StartsKept ==
    ASSUME RealTimeInv, NothingNew, SameLoops,
           UNCHANGED <<created, startQ, starting>>,
           \A s \in Sessions : posted'[s] # <<>> =>
               posted[s] # <<>> \/ s \in DOMAIN tracker,
           (\E s \in Sessions : posted'[s] # <<>> /\ posted[s] = <<>>) =>
               \E l : l \in DOMAIN loops,
           published.start <= 1 => raced' = {},
           published'.start = published.start
    PROVE  StartsKnown' /\ OneStart'
<1>1. StartsKnown'
  BY DEF RealTimeInv, StartsKnown, NothingNew
<1>2. OneStart'
  <2> SUFFICES ASSUME published.start <= 1
               PROVE  OneStart'
    BY DEF OneStart
  <2>1. startQ # <<>> \/ starting # NoMsg =>
           DOMAIN loops = {} /\ NothingPosted /\ NothingPosted'
    <3>1. startQ # <<>> \/ starting # NoMsg =>
             DOMAIN loops = {} /\ NothingPosted
      BY DEF RealTimeInv, OneStart
    <3> QED BY <3>1 DEF NothingPosted
  <2>2. DOMAIN loops' \subseteq DOMAIN loops
    BY DEF SameLoops
  <2> QED BY <2>1, <2>2 DEF RealTimeInv, OneStart, SameLoops
<1> QED BY <1>1, <1>2

\* An answer being recorded stays for the current question or a later one.
LEMMA RecordingKept ==
    ASSUME RealTimeInv, Grows, IndexKept, SameLoops, OpenersStay,
           recording' = recording, running' = running
    PROVE  RecordingStands'
<1> SUFFICES ASSUME running, NEW r \in recording
             PROVE  \/ r.qid >= CurrentIdx(r.session)'
                    \/ Opening(r.session)'
  BY DEF RecordingStands
<1>1. \/ r.qid >= CurrentIdx(r.session)
      \/ Opening(r.session)
  BY DEF RealTimeInv, RecordingStands
<1>2. r.session \in DOMAIN tracker
  BY DEF RealTimeInv, TrackerInv, RecordingFits, AnswersSized
<1>3. CurrentIdx(r.session)' = CurrentIdx(r.session)
  BY <1>2 DEF Grows, IndexKept, CurrentIdx
<1>4. Opening(r.session) => Opening(r.session)'
  BY DEF Opening, OpenersStay, SameLoops, Openers
<1> QED BY <1>1, <1>3, <1>4

\* Nothing is posted or scored and no index moves: the order stays right.
LEMMA ScoresKept ==
    ASSUME RealTimeInv, Grows, IndexKept, SameLoops, SameRequests, NoneMoves,
           running' = running,
           UNCHANGED <<posted, scored, crashes>>,
           published'.start = published.start
    PROVE  ScoredOnce' /\ PostedInOrder' /\ LateAreLost'
<1>1. ScoredOnce' /\ LateAreLost'
  BY DEF RealTimeInv, ScoredOnce, LateAreLost
<1>2. PostedInOrder'
  <2> SUFFICES ASSUME crashes = 0, published.start <= 1,
                      NEW s \in Sessions, posted[s] # <<>>
               PROVE  /\ running
                      /\ CurrentIdx(s)' >= 1
                      /\ \A i \in DOMAIN posted[s] :
                            /\ posted[s][i].question < CurrentIdx(s)'
                            /\ \/ Scored(s, i)' \/ posted[s][i].lost
                               \/ Awaited(s, i)'
                      /\ \A i, j \in DOMAIN posted[s] : i < j =>
                            \/ posted[s][i].question < posted[s][j].question
                            \/ /\ posted[s][i].question = posted[s][j].question
                               /\ posted[s][i].question =
                                     Len(tracker'[s].quiz) - 2
                      /\ \A l \in DOMAIN loops' :
                            /\ loops'[l].pc = "posting" =>
                                  loops'[l].request \in {0, Len(posted[s])}
                            /\ Moved(l)' => \A i \in DOMAIN posted[s] :
                                  \/ posted[s][i].question < CurrentIdx(s)' - 1
                                  \/ CurrentIdx(s)' = Len(tracker'[s].quiz) - 1
    BY DEF PostedInOrder
  <2>1. /\ running
        /\ CurrentIdx(s) >= 1
        /\ \A i \in DOMAIN posted[s] :
              /\ posted[s][i].question < CurrentIdx(s)
              /\ Scored(s, i) \/ posted[s][i].lost \/ Awaited(s, i)
        /\ \A i, j \in DOMAIN posted[s] : i < j =>
              \/ posted[s][i].question < posted[s][j].question
              \/ /\ posted[s][i].question = posted[s][j].question
                 /\ posted[s][i].question = Len(tracker[s].quiz) - 2
        /\ \A l \in DOMAIN loops :
              /\ loops[l].pc = "posting" =>
                    loops[l].request \in {0, Len(posted[s])}
              /\ Moved(l) => \A i \in DOMAIN posted[s] :
                    \/ posted[s][i].question < CurrentIdx(s) - 1
                    \/ CurrentIdx(s) = Len(tracker[s].quiz) - 1
    BY DEF RealTimeInv, PostedInOrder
  <2>2. /\ s \in DOMAIN tracker
        /\ CurrentIdx(s)' = CurrentIdx(s)
        /\ tracker'[s].quiz = tracker[s].quiz
    <3>1. s \in DOMAIN tracker
      BY <2>1 DEF CurrentIdx
    <3> QED BY <3>1 DEF Grows, IndexKept, CurrentIdx
  <2>3. \A i : /\ Scored(s, i)' <=> Scored(s, i)
               /\ Awaited(s, i) => Awaited(s, i)'
    BY DEF Scored, Awaited, SameRequests, SameLoops
  <2>4. \A l \in DOMAIN loops' :
           /\ l \in DOMAIN loops
           /\ loops'[l].pc = "posting" => /\ loops[l].pc = "posting"
                                          /\ loops'[l].request = loops[l].request
           /\ Moved(l)' => Moved(l)
    BY DEF SameLoops, SameRequests, NoneMoves
  <2> QED BY <2>1, <2>2, <2>3, <2>4
<1> QED BY <1>1, <1>2

\* No connection begins to be read and no answer is received: those that are
\* in flight keep their arrays.
LEMMA ArraysKept ==
    ASSUME AnsweringHasArray, Grows,
           \A c \in Sessions \X Users : ws'[c] = "reading" => ws[c] = "reading",
           \A g \in DOMAIN job' : /\ g \in DOMAIN job
                                  /\ job'[g].session = job[g].session
                                  /\ job'[g].user = job[g].user
    PROVE  AnsweringHasArray'
BY DEF AnsweringHasArray, Grows

\* The same calls of IncQuestionIdx are in progress, by the same loops.
LEMMA CallsKept ==
    ASSUME RealTimeInv, SameLoops, SameIncrementing, inc' = inc,
           running' = running
    PROVE  IncrementingLoops'
<1> SUFFICES ASSUME running
             PROVE  IncrementingLoops'
  BY DEF IncrementingLoops
<1>1. /\ DOMAIN inc' = {l \in DOMAIN loops' : loops'[l].pc = "incrementing"}
  BY DEF RealTimeInv, IncrementingLoops, SameIncrementing
<1>2. \A l \in DOMAIN inc' : l \in DOMAIN loops'
  BY <1>1
<1> QED BY <1>1, <1>2 DEF RealTimeInv, IncrementingLoops, SameLoops

\* What is left to prove of a step that leaves the course of the games alone.
LEMMA QuietInv ==
    ASSUME RealTimeInv, TypeOK', TrackerInv', DownIsEmpty', AnsweringHasArray',
           RecordingStands', Grows, IndexKept, NothingNew, QuietLoops,
           UNCHANGED <<inc, raced, running, created, startQ, starting, posted,
                       scored, crashes>>,
           published'.start = published.start
    PROVE  RealTimeInv'
<1>1. LoopSessionTracked' /\ ScoringIndex' /\ AloneLoops'
  BY LoopsKept DEF QuietLoops, IndexKept, RealTimeInv, LoopSessionTracked,
                   SameLoops
<1>2. StartsKnown' /\ OneStart'
  BY StartsKept DEF QuietLoops, RealTimeInv, OneStart
<1>3. ScoredOnce' /\ PostedInOrder' /\ LateAreLost'
  BY ScoresKept DEF QuietLoops
<1>4. IncrementingLoops'
  BY CallsKept DEF QuietLoops
<1> QED BY <1>1, <1>2, <1>3, <1>4 DEF RealTimeInv

\* Loops that are not touched are the same loops.
LEMMA UntouchedLoops ==
    ASSUME UNCHANGED <<loops, inc>>
    PROVE  QuietLoops
BY DEF QuietLoops, SameLoops, SameScoring, SameScoringOf, SameIncrementing,
       OpenersStay, SameRequests, NoneMoves, Moved

\* Nor are they when only what the broker delivers to them changes, and loops
\* leave that are between two triggers.
LEMMA SameProgress ==
    ASSUME UNCHANGED inc,
           \A l \in DOMAIN loops' :
               /\ l \in DOMAIN loops
               /\ loops'[l].session = loops[l].session
               /\ loops'[l].pc = loops[l].pc
               /\ loops'[l].alone = loops[l].alone
               /\ loops'[l].qid = loops[l].qid
               /\ loops'[l].boardQ = loops[l].boardQ
               /\ loops'[l].board = loops[l].board
               /\ loops'[l].request = loops[l].request,
           \A l \in DOMAIN loops : l \notin DOMAIN loops' =>
               loops[l].pc \in {"starting", "idle"}
    PROVE  QuietLoops
<1>1. SameLoops /\ SameScoring /\ SameRequests
  BY DEF SameLoops, SameScoring, SameScoringOf, SameRequests
<1>2. SameIncrementing /\ OpenersStay
  BY DEF SameIncrementing, OpenersStay, Openers
<1>3. NoneMoves
  BY DEF NoneMoves, Moved
<1> QED BY <1>1, <1>2, <1>3 DEF QuietLoops

-----------------------------------------------------------------------------
(* The Session Service publishes.                                          *)

\* A counter of published messages goes up by one, below its bound.
LEMMA PublishedType ==
    ASSUME TypeOK
    PROVE  /\ published.start \in Nat
           /\ published.start < MaxStarts =>
                [published EXCEPT !.start = @ + 1] \in
                    [start : 0 .. MaxStarts, end : 0 .. MaxEnds,
                     trigger : 0 .. MaxTriggers]
           /\ published.end < MaxEnds =>
                [published EXCEPT !.end = @ + 1] \in
                    [start : 0 .. MaxStarts, end : 0 .. MaxEnds,
                     trigger : 0 .. MaxTriggers]
           /\ published.trigger < MaxTriggers =>
                [published EXCEPT !.trigger = @ + 1] \in
                    [start : 0 .. MaxStarts, end : 0 .. MaxEnds,
                     trigger : 0 .. MaxTriggers]
<1>1. published \in [start : 0 .. MaxStarts, end : 0 .. MaxEnds,
                     trigger : 0 .. MaxTriggers]
  BY DEF TypeOK
<1>2. /\ published.start \in 0 .. MaxStarts
      /\ published.end \in 0 .. MaxEnds
      /\ published.trigger \in 0 .. MaxTriggers
  BY <1>1
<1>3. /\ published.start \in Nat
      /\ published.start < MaxStarts => published.start + 1 \in 0 .. MaxStarts
      /\ published.end < MaxEnds => published.end + 1 \in 0 .. MaxEnds
      /\ published.trigger < MaxTriggers =>
            published.trigger + 1 \in 0 .. MaxTriggers
  BY <1>2, BoundsAssumption
<1> QED BY <1>1, <1>3

\* Nothing is posted: there is nothing to order.
LEMMA NothingToOrder ==
    ASSUME NothingPosted', ScoredOnce'
    PROVE  PostedInOrder' /\ LateAreLost'
<1>1. \A s \in Sessions : posted'[s] = <<>> /\ DOMAIN posted'[s] = {}
  BY DEF NothingPosted
<1>2. \A s \in Sessions : DOMAIN scored'[s] = {}
  BY <1>1 DEF ScoredOnce
<1> QED BY <1>1, <1>2 DEF PostedInOrder, LateAreLost

\* A start message is published: the first one finds nothing started.
LEMMA PublishSessionStartInv ==
    ASSUME RealTimeInv, TrackerInv', NEW s \in Sessions, NEW quiz \in Quizzes,
           PublishSessionStart(s, quiz)
    PROVE  RealTimeInv'
<1> DEFINE msg == [session |-> s, quiz |-> quiz]
<1>1. /\ published.start < MaxStarts
      /\ published' = [published EXCEPT !.start = @ + 1]
      /\ created' = created \cup {s}
      /\ startQ' = IF channelOpen THEN Append(startQ, msg) ELSE startQ
      /\ UNCHANGED trackerVars
      /\ UNCHANGED <<running, channelOpen, endQ, starting, ending, registered,
                     tags, loops, ws, job, crashes, posted, scored>>
  BY DEF PublishSessionStart, handlerVars, lbVars
<1>2. /\ msg \in StartMsg
      /\ startQ \in Seq(StartMsg)
      /\ startQ' \in Seq(StartMsg)
  <2>1. msg \in StartMsg
    BY DEF StartMsg
  <2>2. startQ \in Seq(StartMsg)
    BY DEF RealTimeInv, TypeOK
  <2> HIDE DEF msg
  <2> QED BY <1>1, <2>1, <2>2
<1>3. TypeOK'
  BY <1>1, <1>2, PublishedType DEF RealTimeInv, TypeOK, IsMap
<1>4. Grows /\ IndexKept /\ NothingNew /\ SameCalls /\ QuietLoops
  BY <1>1, SameTracker, UntouchedLoops DEF RealTimeInv, SameCalls
<1>5. DownIsEmpty' /\ IncrementingLoops' /\ RecordingStands'
  <2>1. DownIsEmpty'
    BY <1>1 DEF RealTimeInv, DownIsEmpty
  <2> QED BY <1>1, <1>4, <2>1, CallsKept, RecordingKept DEF QuietLoops, SameCalls
<1>6. AnsweringHasArray'
  BY <1>1, <1>4, ArraysKept DEF RealTimeInv
<1>7. LoopSessionTracked' /\ ScoringIndex' /\ AloneLoops'
  BY <1>4, LoopsKept
     DEF QuietLoops, IndexKept, RealTimeInv, LoopSessionTracked, SameLoops
<1>8. StartsKnown'
  <2>1. \A i \in DOMAIN startQ' : \/ i \in DOMAIN startQ /\ startQ'[i] = startQ[i]
                                  \/ startQ'[i] = msg
    BY <1>1, <1>2
  <2> QED BY <1>1, <2>1 DEF RealTimeInv, StartsKnown, trackerVars
<1>9. published'.start = published.start + 1 /\ published.start \in Nat
  BY <1>1, PublishedType DEF RealTimeInv, TypeOK
<1>10. ASSUME published'.start <= 1
       PROVE  /\ created = {} /\ startQ = <<>> /\ starting = NoMsg
              /\ DOMAIN loops = {} /\ NothingPosted /\ raced = {}
  <2>1. created = {} /\ raced = {}
    BY <1>9, <1>10 DEF RealTimeInv, OneStart
  <2>2. startQ = <<>>
    <3>1. \A i \in DOMAIN startQ : startQ[i].session \in created
      BY DEF RealTimeInv, StartsKnown
    <3>2. startQ # <<>> => 1 \in DOMAIN startQ
      BY <1>2
    <3> QED BY <2>1, <3>1, <3>2
  <2> QED BY <2>1, <2>2 DEF RealTimeInv, StartsKnown, LoopSessionTracked,
                            NothingPosted
<1>11. OneStart'
  <2> SUFFICES ASSUME published'.start <= 1
               PROVE  /\ published'.start # 0
                      /\ \A t, x \in created' : t = x
                      /\ Len(startQ') <= 1
                      /\ starting' = NoMsg /\ DOMAIN loops' = {}
                      /\ NothingPosted' /\ raced' = {}
    BY DEF OneStart
  <2>1. Len(startQ') <= 1
    BY <1>1, <1>10
  <2> QED BY <1>1, <1>4, <1>9, <1>10, <2>1 DEF NothingPosted, SameCalls
<1>12. ScoredOnce'
  BY <1>1 DEF RealTimeInv, ScoredOnce
<1>13. PostedInOrder' /\ LateAreLost'
  <2>1. CASE published'.start <= 1
    <3>1. NothingPosted'
      BY <1>1, <1>10, <2>1 DEF NothingPosted
    <3> QED BY <1>12, <3>1, NothingToOrder
  <2>2. CASE ~(published'.start <= 1)
    BY <2>2 DEF PostedInOrder, LateAreLost
  <2> QED BY <2>1, <2>2
<1> QED BY <1>3, <1>5, <1>6, <1>7, <1>8, <1>11, <1>12, <1>13 DEF RealTimeInv

\* An end message is published.
LEMMA PublishSessionEndInv ==
    ASSUME RealTimeInv, TrackerInv', NEW s \in Sessions, PublishSessionEnd(s)
    PROVE  RealTimeInv'
<1>1. /\ published.end < MaxEnds
      /\ published' = [published EXCEPT !.end = @ + 1]
      /\ endQ' = IF channelOpen THEN Append(endQ, s) ELSE endQ
      /\ UNCHANGED trackerVars
      /\ UNCHANGED <<running, channelOpen, created, startQ, starting, ending,
                     registered, tags, loops, ws, job, crashes, posted, scored>>
  BY DEF PublishSessionEnd, handlerVars, lbVars
<1>2. TypeOK' /\ published'.start = published.start
  <2>1. endQ' \in Seq(Sessions)
    BY <1>1 DEF RealTimeInv, TypeOK
  <2>2. published'.start = published.start
    BY <1>1 DEF RealTimeInv, TypeOK
  <2> QED BY <1>1, <2>1, <2>2, PublishedType DEF RealTimeInv, TypeOK, IsMap
<1>3. Grows /\ IndexKept /\ NothingNew /\ SameCalls /\ QuietLoops
  BY <1>1, SameTracker, UntouchedLoops DEF RealTimeInv, SameCalls
<1>4. DownIsEmpty' /\ RecordingStands'
  <2>1. DownIsEmpty'
    BY <1>1 DEF RealTimeInv, DownIsEmpty
  <2> QED BY <1>1, <1>3, <2>1, RecordingKept DEF QuietLoops, SameCalls
<1>5. AnsweringHasArray'
  BY <1>1, <1>3, ArraysKept DEF RealTimeInv
<1> QED BY <1>1, <1>2, <1>3, <1>4, <1>5, QuietInv DEF SameCalls

\* A question is triggered: loops may only find more to do.
LEMMA PublishQuestionStartInv ==
    ASSUME RealTimeInv, TrackerInv', NEW s \in Sessions,
           PublishQuestionStart(s)
    PROVE  RealTimeInv'
<1>1. /\ published.trigger < MaxTriggers
      /\ published' = [published EXCEPT !.trigger = @ + 1]
      /\ UNCHANGED trackerVars
      /\ UNCHANGED <<running, channelOpen, created, startQ, endQ, starting,
                     ending, registered, tags, ws, job, crashes, posted, scored>>
  BY DEF PublishQuestionStart, handlerVars, lbVars
<1>2. /\ DOMAIN loops' = DOMAIN loops
      /\ loops' = [l \in DOMAIN loops |-> loops'[l]]
      /\ \A l \in DOMAIN loops :
            /\ loops'[l] \in Loop
            /\ loops'[l].session = loops[l].session
            /\ loops'[l].pc = loops[l].pc
            /\ loops'[l].alone = loops[l].alone
            /\ loops'[l].qid = loops[l].qid
            /\ loops'[l].boardQ = loops[l].boardQ
            /\ loops'[l].board = loops[l].board
            /\ loops'[l].request = loops[l].request
  <2>1. loops' = [l \in DOMAIN loops |->
                    IF loops[l].session = s /\ loops[l].subscribed
                    THEN [loops[l] EXCEPT !.pending = @ + 1] ELSE loops[l]]
    BY DEF PublishQuestionStart
  <2>2. \A l \in DOMAIN loops : loops[l] \in Loop /\ loops[l].pending + 1 \in Nat
    BY LoopTypes DEF RealTimeInv
  <2>3. ASSUME NEW x \in Loop, NEW n \in Nat
        PROVE  LET y == [x EXCEPT !.pending = n]
               IN  /\ y \in Loop /\ y.session = x.session /\ y.pc = x.pc
                   /\ y.alone = x.alone /\ y.qid = x.qid
                   /\ y.boardQ = x.boardQ /\ y.board = x.board
                   /\ y.request = x.request
    BY DEF Loop
  <2>4. ASSUME NEW l \in DOMAIN loops
        PROVE  \/ loops'[l] = loops[l]
               \/ loops'[l] = [loops[l] EXCEPT !.pending = loops[l].pending + 1]
    BY <2>1
  <2> QED BY <2>1, <2>2, <2>3, <2>4
<1>3. TypeOK' /\ published'.start = published.start
  <2>1. IsMap(loops', Loops, Loop)
    BY <1>2, LoopTypes DEF RealTimeInv, IsMap
  <2>2. published'.start = published.start
    BY <1>1 DEF RealTimeInv, TypeOK
  <2> QED BY <1>1, <2>1, <2>2, PublishedType DEF RealTimeInv, TypeOK, IsMap
<1>4. Grows /\ IndexKept /\ NothingNew /\ SameCalls
  BY <1>1, SameTracker DEF RealTimeInv
<1>5. QuietLoops
  BY <1>2, <1>4, SameProgress DEF SameCalls
<1>6. DownIsEmpty' /\ RecordingStands'
  <2>1. loops = EmptyMap => loops' = EmptyMap
    BY <1>2 DEF EmptyMap
  <2>2. DownIsEmpty'
    BY <1>1, <2>1 DEF RealTimeInv, DownIsEmpty
  <2> QED BY <1>1, <1>4, <1>5, <2>2, RecordingKept DEF QuietLoops, SameCalls
<1>7. AnsweringHasArray'
  BY <1>1, <1>4, ArraysKept DEF RealTimeInv
<1> QED BY <1>1, <1>3, <1>4, <1>5, <1>6, <1>7, QuietInv DEF SameCalls

-----------------------------------------------------------------------------
(* The process ends and starts.                                            *)

\* A process that dies takes everything but Redis along.  It may only die
\* uncounted while nothing is posted.
LEMMA DieInv ==
    ASSUME RealTimeInv, TrackerInv', Die, crashes' \in 0 .. MaxCrashes,
           crashes' = 0 /\ published.start <= 1 => NothingPosted
    PROVE  RealTimeInv'
<1>1. /\ running' = FALSE /\ channelOpen' = FALSE
      /\ startQ' = <<>> /\ starting' = NoMsg
      /\ endQ' = <<>> /\ ending' = NoMsg
      /\ registered' = {} /\ tags' = {}
      /\ loops' = EmptyMap /\ DOMAIN loops' = {}
      /\ ws' = [c \in Sessions \X Users |-> "none"]
      /\ job' = EmptyMap /\ DOMAIN job' = {}
      /\ UNCHANGED trackerVars
      /\ UNCHANGED <<published, created, posted, scored>>
  BY DEF Die, EmptyMap, lbVars
<1>2. TypeOK'
  <2>1. IsMap(loops', Loops, Loop) /\ IsMap(job', Jobs, Job)
    BY <1>1 DEF IsMap, EmptyMap
  <2>2. startQ' \in Seq(StartMsg) /\ endQ' \in Seq(Sessions)
    BY <1>1
  <2>3. ws' \in [Sessions \X Users ->
                   {"none", "opening", "joining", "reading", "stuck"}]
    BY <1>1
  <2> QED BY <1>1, <2>1, <2>2, <2>3 DEF RealTimeInv, TypeOK
<1>3. DownIsEmpty' /\ IncrementingLoops' /\ RecordingStands'
  BY <1>1 DEF DownIsEmpty, IncrementingLoops, RecordingStands
<1>4. LoopSessionTracked' /\ ScoringIndex' /\ AloneLoops' /\ AnsweringHasArray'
  BY <1>1 DEF LoopSessionTracked, ScoringIndex, AloneLoops, AnsweringHasArray
<1>5. StartsKnown'
  BY <1>1 DEF RealTimeInv, StartsKnown, trackerVars
<1>6. OneStart'
  <2>1. Len(startQ') <= 1 /\ startQ' = <<>>
    BY <1>1
  <2> QED BY <1>1, <2>1 DEF RealTimeInv, OneStart, trackerVars
<1>7. ScoredOnce'
  BY <1>1 DEF RealTimeInv, ScoredOnce
<1>8. PostedInOrder' /\ LateAreLost'
  <2>1. CASE crashes' = 0 /\ published.start <= 1
    <3>1. NothingPosted'
      BY <1>1, <2>1 DEF NothingPosted
    <3> QED BY <1>7, <3>1, NothingToOrder
  <2>2. CASE ~(crashes' = 0 /\ published.start <= 1)
    BY <1>1, <2>2 DEF PostedInOrder, LateAreLost
  <2> QED BY <2>1, <2>2
<1> QED BY <1>2, <1>3, <1>4, <1>5, <1>6, <1>7, <1>8 DEF RealTimeInv

\* The process dies: the goroutines are gone, the counts of messages stay.
LEMMA CrashInv ==
    ASSUME RealTimeInv, TrackerInv', Crash
    PROVE  RealTimeInv'
<1>1. crashes \in 0 .. MaxCrashes /\ crashes < MaxCrashes
      /\ crashes' = crashes + 1 /\ Die
  BY DEF RealTimeInv, TypeOK, Crash
<1>2. crashes' \in 0 .. MaxCrashes /\ crashes' # 0
  BY <1>1, BoundsAssumption
<1> QED BY <1>1, <1>2, DieInv

\* Once something is posted the index is that of a question, so RecordAnswer
\* cannot panic in the only game there is.
LEMMA StoreAnswerPanicsInv ==
    ASSUME RealTimeInv, TrackerInv', NEW g \in DOMAIN job, StoreAnswerPanics(g)
    PROVE  RealTimeInv'
<1> DEFINE s == job[g].session
           u == job[g].user
<1>1. Die /\ crashes' = crashes /\ RecordAnswerPanics(s, u)
  BY DEF StoreAnswerPanics
<1>2. ASSUME crashes = 0, published.start <= 1, ~NothingPosted
      PROVE  FALSE
  <2>1. PICK t \in Sessions : posted[t] # <<>>
    BY <1>2 DEF NothingPosted
  <2>2. /\ s \in DOMAIN answers /\ s \in DOMAIN tracker
        /\ u \in DOMAIN answers[s]
    BY DEF RealTimeInv, AnsweringHasArray, TrackerInv, AnswersSized
  <2>3. s = t
    BY <1>2, <2>1, <2>2 DEF RealTimeInv, StartsKnown, OneStart
  <2>4. CurrentIdx(s) >= 1
    BY <1>2, <2>1, <2>3 DEF RealTimeInv, PostedInOrder
  <2>5. CurrentIdx(s) \in 1 .. (Len(tracker[s].quiz) - 1)
    <3>1. CurrentIdx(s) > 0
      BY <2>2, <2>4, Entries DEF RealTimeInv, TrackerInv, CurrentIdx
    <3> QED BY <3>1, OpenIndex DEF RealTimeInv
  <2>6. CurrentIdx(s) \in DOMAIN answers[s][u]
    BY <2>2, <2>5 DEF RealTimeInv, TrackerInv, AnswersSized
  <2> QED BY <1>1, <2>2, <2>6 DEF RecordAnswerPanics, ArrayOf
<1>3. crashes' \in 0 .. MaxCrashes
  BY <1>1 DEF RealTimeInv, TypeOK
<1> QED BY <1>1, <1>2, <1>3, DieInv

\* A panic of NewSession in the consumer ends the process as well.
LEMMA TrackSessionPanicsInv ==
    ASSUME RealTimeInv, TrackerInv', TrackSessionPanics
    PROVE  RealTimeInv'
<1>1. starting # NoMsg /\ Die /\ crashes' = crashes
  BY DEF TrackSessionPanics
<1>2. published.start <= 1 => NothingPosted
  BY <1>1 DEF RealTimeInv, OneStart
<1>3. crashes' \in 0 .. MaxCrashes
  BY <1>1 DEF RealTimeInv, TypeOK
<1> QED BY <1>1, <1>2, <1>3, DieInv

\* A new process has no goroutine to miss what the restore leaves out.
LEMMA BootInv ==
    ASSUME RealTimeInv, TrackerInv', Boot
    PROVE  RealTimeInv'
<1>1. /\ ~running /\ running' = TRUE /\ channelOpen' = TRUE
      /\ UNCHANGED <<published, created, startQ, endQ, starting, ending,
                     registered, tags, loops, ws, job, crashes, posted, scored>>
  BY DEF Boot, handlerVars, lbVars
<1>2. /\ DOMAIN tracker' \subseteq DOMAIN quizState
      /\ quizState' = quizState
      /\ DOMAIN inc' = {} /\ recording' = {} /\ raced' = {}
  BY DEF Boot, Restore, StartsAnew, AllSessions, EmptyMap
<1>3. /\ DOMAIN loops = {} /\ DOMAIN job = {}
      /\ \A c \in Sessions \X Users : ws[c] = "none"
  BY <1>1 DEF RealTimeInv, DownIsEmpty, EmptyMap
<1>4. TypeOK'
  BY <1>1 DEF RealTimeInv, TypeOK, IsMap
<1>5. DownIsEmpty' /\ IncrementingLoops' /\ RecordingStands'
  BY <1>1, <1>2, <1>3 DEF DownIsEmpty, IncrementingLoops, RecordingStands
<1>6. LoopSessionTracked' /\ ScoringIndex' /\ AloneLoops'
  BY <1>1, <1>3 DEF LoopSessionTracked, ScoringIndex, AloneLoops
<1>7. AnsweringHasArray'
  BY <1>1, <1>3 DEF AnsweringHasArray
<1>8. StartsKnown'
  BY <1>1, <1>2 DEF RealTimeInv, StartsKnown
<1>9. OneStart'
  BY <1>1, <1>2 DEF RealTimeInv, OneStart, NothingPosted
<1>10. ScoredOnce'
  BY <1>1 DEF RealTimeInv, ScoredOnce
<1>11. PostedInOrder' /\ LateAreLost'
  <2>1. CASE crashes = 0 /\ published.start <= 1
    <3>1. NothingPosted'
      BY <1>1, <2>1 DEF RealTimeInv, PostedInOrder, NothingPosted
    <3> QED BY <1>10, <3>1, NothingToOrder
  <2>2. CASE ~(crashes = 0 /\ published.start <= 1)
    BY <1>1, <2>2 DEF PostedInOrder, LateAreLost
  <2> QED BY <2>1, <2>2
<1> QED BY <1>4, <1>5, <1>6, <1>7, <1>8, <1>9, <1>10, <1>11 DEF RealTimeInv


-----------------------------------------------------------------------------
(* The consumers of the Session Service's messages.                        *)

\* A start message is taken in hand, or dropped.
LEMMA ReceiveSessionStartInv ==
    ASSUME RealTimeInv, TrackerInv', ReceiveSessionStart
    PROVE  RealTimeInv'
<1>1. /\ starting = NoMsg /\ startQ # <<>> /\ startQ' = Tail(startQ)
      /\ starting' \in {NoMsg, Head(startQ)}
      /\ registered' \subseteq registered \cup {Head(startQ).session}
      /\ UNCHANGED trackerVars
      /\ UNCHANGED <<running, channelOpen, published, created, endQ, ending,
                     tags, loops, ws, job, crashes, posted, scored>>
  BY DEF ReceiveSessionStart, lbVars
<1>2. /\ startQ \in Seq(StartMsg) /\ Len(startQ) \in Nat
      /\ Head(startQ) \in StartMsg
      /\ Head(startQ) = startQ[1] /\ 1 \in DOMAIN startQ
      /\ startQ' \in Seq(StartMsg)
      /\ \A i \in DOMAIN startQ' : i + 1 \in DOMAIN startQ
                                   /\ startQ'[i] = startQ[i + 1]
      /\ Len(startQ) <= 1 => startQ' = <<>>
  <2>1. startQ \in Seq(StartMsg)
    BY DEF RealTimeInv, TypeOK
  <2> QED BY <1>1, <2>1
<1>3. TypeOK'
  <2>1. Head(startQ).session \in Sessions
    BY <1>2 DEF StartMsg
  <2> QED BY <1>1, <1>2, <2>1 DEF RealTimeInv, TypeOK, IsMap
<1>4. Grows /\ IndexKept /\ NothingNew /\ SameCalls /\ QuietLoops
  BY <1>1, SameTracker, UntouchedLoops DEF RealTimeInv, SameCalls
<1>5. DownIsEmpty' /\ RecordingStands' /\ IncrementingLoops'
  <2>1. running
    BY <1>1 DEF RealTimeInv, DownIsEmpty
  <2>2. DownIsEmpty'
    BY <1>1, <2>1 DEF DownIsEmpty
  <2> QED BY <1>1, <1>4, <2>2, CallsKept, RecordingKept DEF QuietLoops, SameCalls
<1>6. AnsweringHasArray'
  BY <1>1, <1>4, ArraysKept DEF RealTimeInv
<1>7. LoopSessionTracked' /\ ScoringIndex' /\ AloneLoops'
  BY <1>4, LoopsKept
     DEF QuietLoops, IndexKept, RealTimeInv, LoopSessionTracked, SameLoops
<1>8. StartsKnown'
  BY <1>1, <1>2 DEF RealTimeInv, StartsKnown, trackerVars
<1>9. OneStart'
  <2>1. published.start <= 1 =>
           DOMAIN loops = {} /\ NothingPosted /\ NothingPosted' /\ startQ' = <<>>
    BY <1>1, <1>2 DEF RealTimeInv, OneStart, NothingPosted
  <2>2. Len(<<>>) = 0
    OBVIOUS
  <2> QED BY <1>1, <2>1, <2>2 DEF RealTimeInv, OneStart, trackerVars
<1>10. ScoredOnce' /\ PostedInOrder' /\ LateAreLost'
  BY <1>1, <1>4, ScoresKept DEF QuietLoops
<1> QED BY <1>3, <1>5, <1>6, <1>7, <1>8, <1>9, <1>10 DEF RealTimeInv

\* The map without entries is a board.
LEMMA EmptyBoard ==
    EmptyMap \in UNION {[U -> Answer] : U \in SUBSET Users}
<1>1. EmptyMap \in [{} -> Answer]
  BY DEF EmptyMap
<1>2. {} \in SUBSET Users
  OBVIOUS
<1> QED BY <1>1, <1>2

\* A new loop has the type of a loop.
LEMMA NewLoopType ==
    ASSUME NEW s \in Sessions
    PROVE  /\ NewLoop(s) \in Loop
           /\ NewLoop(s).session = s
           /\ NewLoop(s).pc = "starting"
           /\ NewLoop(s).alone = (LoopsOf(s) = {})
<1>1. EmptyMap \in UNION {[U -> Answer] : U \in SUBSET Users}
  BY EmptyBoard
<1> DEFINE b == EmptyMap
           Boards == UNION {[U -> Answer] : U \in SUBSET Users}
<1>2. b \in Boards
  BY <1>1
<1>3. (LoopsOf(s) = {}) \in BOOLEAN /\ -1 \in Int
  OBVIOUS
<1>4. /\ NewLoop(s) = [session |-> s, pc |-> "starting", subscribed |-> FALSE,
                       pending |-> 0, qid |-> -1, boardQ |-> -1, board |-> b,
                       options |-> 0, request |-> 0, alone |-> LoopsOf(s) = {}]
      /\ Loop = [session : Sessions,
                 pc : {"starting", "bound", "idle", "incrementing", "advanced",
                       "board", "posting", "stat", "payload", "hung"},
                 subscribed : BOOLEAN, pending : Nat, qid : Int, boardQ : Int,
                 board : Boards, options : Nat, request : Nat,
                 alone : BOOLEAN]
  BY DEF NewLoop, Loop
<1> HIDE DEF b, Boards
<1> QED BY <1>2, <1>3, <1>4

\* The loop of a session is started: the tracker knows the session, and a
\* loop that is not the first of its session is not alone.
LEMMA TrackSessionInv ==
    ASSUME RealTimeInv, TrackerInv', NEW l \in Loops, TrackSession(l)
    PROVE  RealTimeInv'
<1> DEFINE s == starting.session
<1>1. /\ starting # NoMsg /\ l \notin DOMAIN loops
      /\ s \in Sessions /\ starting.quiz \in Quizzes
      /\ starting' = NoMsg
      /\ UNCHANGED <<running, channelOpen, published, created, startQ, endQ,
                     ending, registered, tags, ws, job, crashes, posted, scored>>
  BY StartTypes DEF RealTimeInv, TrackSession, brokerVars, lbVars
<1>2. /\ Grows /\ IndexKept /\ SameCalls
      /\ s \in DOMAIN tracker'
      /\ DOMAIN tracker' \subseteq DOMAIN tracker \cup {s}
      /\ DOMAIN quizState' \subseteq DOMAIN quizState \cup DOMAIN tracker
                                         \cup {s}
  <2>1. NewSession(s, starting.quiz)
    BY DEF TrackSession
  <2> HIDE DEF s
  <2> QED BY <1>1, <2>1, NewSessionGrows DEF RealTimeInv
<1>3. /\ DOMAIN loops' = DOMAIN loops \cup {l}
      /\ loops' = [m \in DOMAIN loops' |-> loops'[m]]
      /\ loops'[l] = NewLoop(s)
      /\ \A m \in DOMAIN loops :
            /\ loops[m].session # s => loops'[m] = loops[m]
            /\ loops[m].session = s =>
                  loops'[m] = [loops[m] EXCEPT !.alone = FALSE]
  BY <1>1 DEF TrackSession
<1> HIDE DEF s
<1>4. /\ loops'[l] \in Loop /\ loops'[l].session = s
      /\ loops'[l].pc = "starting"
      /\ loops'[l].alone => LoopsOf(s) = {}
  BY <1>1, <1>3, NewLoopType
<1>5. \A m \in DOMAIN loops :
         /\ loops'[m] \in Loop
         /\ loops'[m].session = loops[m].session
         /\ loops'[m].pc = loops[m].pc
         /\ loops'[m].qid = loops[m].qid
         /\ loops'[m].boardQ = loops[m].boardQ
         /\ loops'[m].board = loops[m].board
         /\ loops'[m].request = loops[m].request
         /\ loops'[m].alone => loops[m].alone /\ loops[m].session # s
  <2>1. ASSUME NEW x \in Loop
        PROVE  LET y == [x EXCEPT !.alone = FALSE]
               IN  /\ y \in Loop /\ y.session = x.session /\ y.pc = x.pc
                   /\ y.qid = x.qid /\ y.boardQ = x.boardQ
                   /\ y.board = x.board /\ y.request = x.request
                   /\ ~y.alone
    BY DEF Loop
  <2> TAKE m \in DOMAIN loops
  <2>2. loops[m] \in Loop
    BY LoopTypes DEF RealTimeInv
  <2>3. CASE loops[m].session # s
    BY <1>3, <2>2, <2>3
  <2>4. CASE loops[m].session = s
    <3>1. loops'[m] = [loops[m] EXCEPT !.alone = FALSE]
      BY <1>3, <2>4
    <3> QED BY <2>1, <2>2, <3>1
  <2> QED BY <2>3, <2>4
<1>6. TypeOK'
  <2>1. IsMap(loops', Loops, Loop)
    BY <1>3, <1>4, <1>5, LoopTypes DEF RealTimeInv, IsMap
  <2> QED BY <1>1, <2>1 DEF RealTimeInv, TypeOK, IsMap
<1>7. DownIsEmpty' /\ IncrementingLoops'
  <2>1. running
    BY <1>1 DEF RealTimeInv, DownIsEmpty
  <2>2. DOMAIN inc \subseteq DOMAIN loops
    BY <2>1 DEF RealTimeInv, IncrementingLoops
  <2>3. inc' = inc
    BY <1>2 DEF SameCalls
  <2>4. {m \in DOMAIN loops' : loops'[m].pc = "incrementing"} =
        {m \in DOMAIN loops : loops[m].pc = "incrementing"}
    BY <1>3, <1>4, <1>5
  <2> QED BY <1>1, <1>5, <2>1, <2>2, <2>3, <2>4
          DEF RealTimeInv, DownIsEmpty, IncrementingLoops
<1>8. RecordingStands'
  <2> SUFFICES ASSUME running, NEW r \in recording
               PROVE  \/ r.qid >= CurrentIdx(r.session)'
                      \/ Opening(r.session)'
    BY <1>1, <1>2 DEF RecordingStands, SameCalls
  <2>1. \/ r.qid >= CurrentIdx(r.session)
        \/ Opening(r.session)
    BY DEF RealTimeInv, RecordingStands
  <2>2. r.session \in DOMAIN tracker
    BY DEF RealTimeInv, TrackerInv, RecordingFits, AnswersSized
  <2>3. CurrentIdx(r.session)' = CurrentIdx(r.session)
    BY <1>2, <2>2 DEF Grows, IndexKept, CurrentIdx
  <2>4. Opening(r.session) => Opening(r.session)'
    BY <1>3, <1>5 DEF Opening
  <2> QED BY <2>1, <2>3, <2>4
<1>9. LoopSessionTracked'
  BY <1>2, <1>3, <1>4, <1>5 DEF RealTimeInv, LoopSessionTracked, Grows
<1>10. ScoringIndex'
  <2> SUFFICES ASSUME NEW m \in DOMAIN loops', loops'[m].pc \in Scoring,
                      NEW t, t = loops'[m].session
               PROVE  /\ loops'[m].qid > 0
                      /\ CurrentIdx(t)' >= 0
                      /\ Len(Tracked(t)'.quiz) > 0
    BY DEF ScoringIndex, Scoring, CurrentIdx, Tracked
  <2>1. /\ m \in DOMAIN loops /\ loops[m].pc \in Scoring
        /\ loops[m].session = t /\ loops'[m].qid = loops[m].qid
    BY <1>3, <1>4, <1>5 DEF Scoring
  <2>2. /\ loops[m].qid > 0
        /\ CurrentIdx(t) >= 0
        /\ Len(Tracked(t).quiz) > 0
        /\ t \in DOMAIN tracker
    BY <2>1 DEF RealTimeInv, ScoringIndex, LoopSessionTracked, Scoring
  <2> QED BY <1>2, <2>1, <2>2 DEF Grows, CurrentIdx, Tracked
<1>11. AloneLoops'
  <2> SUFFICES ASSUME NEW m \in DOMAIN loops', loops'[m].alone,
                      NEW t, t = loops'[m].session
               PROVE  /\ \A k \in DOMAIN loops' : loops'[k].session = t => k = m
                      /\ BoardStands(m, t)'
    BY DEF AloneLoops, BoardStands, CurrentIdx
  <2>1. CASE m = l
    <3>1. LoopsOf(s) = {} /\ t = s
      BY <1>4, <2>1
    <3> QED BY <1>3, <1>4, <1>5, <2>1, <3>1 DEF LoopsOf, BoardStands
  <2>2. CASE m # l
    <3>1. m \in DOMAIN loops /\ loops[m].alone /\ t # s
      BY <1>3, <1>5, <2>2
    <3>2. /\ loops[m].session = t /\ t \in DOMAIN tracker
          /\ BoardStands(m, t)
          /\ \A k \in DOMAIN loops : loops[k].session = t => k = m
      BY <1>5, <3>1 DEF RealTimeInv, AloneLoops, LoopSessionTracked
    <3>3. BoardStands(m, t)'
      BY <1>2, <1>5, <3>1, <3>2, BoardKept
         DEF RealTimeInv, SameScoringOf, IndexKept
    <3> QED BY <1>3, <1>4, <1>5, <3>1, <3>2, <3>3
  <2> QED BY <2>1, <2>2
<1>12. AnsweringHasArray'
  BY <1>1, <1>2, ArraysKept DEF RealTimeInv
<1>13. StartsKnown'
  BY <1>1, <1>2 DEF RealTimeInv, StartsKnown, s
<1>14. OneStart'
  <2>1. ASSUME published.start <= 1
        PROVE  DOMAIN loops = {} /\ NothingPosted /\ startQ = <<>>
    BY <1>1, <2>1 DEF RealTimeInv, OneStart
  <2>2. published.start <= 1 => loops'[l].alone
    BY <1>1, <1>3, <2>1, NewLoopType DEF LoopsOf
  <2>3. published.start <= 1 => raced' = {}
    BY <1>2 DEF RealTimeInv, OneStart, SameCalls
  <2> QED BY <1>1, <1>3, <2>1, <2>2, <2>3
          DEF RealTimeInv, OneStart, NothingPosted
<1>15. ScoredOnce'
  BY <1>1 DEF RealTimeInv, ScoredOnce
<1>16. PostedInOrder' /\ LateAreLost'
  <2>1. CASE published.start <= 1
    <3>1. NothingPosted'
      BY <1>1, <2>1 DEF RealTimeInv, OneStart, NothingPosted
    <3> QED BY <1>15, <3>1, NothingToOrder
  <2>2. CASE ~(published.start <= 1)
    BY <1>1, <2>2 DEF PostedInOrder, LateAreLost
  <2> QED BY <2>1, <2>2
<1> QED BY <1>6, <1>7, <1>8, <1>9, <1>10, <1>11, <1>12, <1>13, <1>14, <1>15,
           <1>16 DEF RealTimeInv

\* An end message is taken in hand: the session's loop may lose its consumer.
LEMMA ReceiveSessionEndInv ==
    ASSUME RealTimeInv, TrackerInv', ReceiveSessionEnd
    PROVE  RealTimeInv'
<1>1. /\ endQ # <<>> /\ endQ' = Tail(endQ) /\ ending' = Head(endQ)
      /\ tags' \subseteq tags
      /\ UNCHANGED trackerVars
      /\ UNCHANGED <<running, channelOpen, published, created, startQ, starting,
                     registered, ws, job, crashes, posted, scored>>
  BY DEF ReceiveSessionEnd, lbVars
<1>2. /\ DOMAIN loops' = DOMAIN loops
      /\ loops' = [m \in DOMAIN loops' |-> loops'[m]]
      /\ \A m \in DOMAIN loops :
            \/ loops'[m] = loops[m]
            \/ loops'[m] = [loops[m] EXCEPT !.subscribed = FALSE]
  <2>1. loops = [m \in DOMAIN loops |-> loops[m]]
    BY DEF RealTimeInv, TypeOK, IsMap
  <2>2. CASE loops' = loops
    BY <2>1, <2>2
  <2>3. CASE loops' = [m \in DOMAIN loops |->
                         IF loops[m].session = Head(endQ)
                         THEN [loops[m] EXCEPT !.subscribed = FALSE]
                         ELSE loops[m]]
    BY <2>3
  <2> QED BY <2>2, <2>3 DEF ReceiveSessionEnd
<1>3. \A m \in DOMAIN loops :
         /\ loops'[m] \in Loop
         /\ loops'[m].session = loops[m].session
         /\ loops'[m].pc = loops[m].pc
         /\ loops'[m].alone = loops[m].alone
         /\ loops'[m].qid = loops[m].qid
         /\ loops'[m].boardQ = loops[m].boardQ
         /\ loops'[m].board = loops[m].board
         /\ loops'[m].request = loops[m].request
  <2>1. ASSUME NEW x \in Loop
        PROVE  LET y == [x EXCEPT !.subscribed = FALSE]
               IN  /\ y \in Loop /\ y.session = x.session /\ y.pc = x.pc
                   /\ y.alone = x.alone /\ y.qid = x.qid
                   /\ y.boardQ = x.boardQ /\ y.board = x.board
                   /\ y.request = x.request
    BY DEF Loop
  <2> TAKE m \in DOMAIN loops
  <2>2. loops[m] \in Loop
    BY LoopTypes DEF RealTimeInv
  <2>3. CASE loops'[m] = loops[m]
    BY <2>2, <2>3
  <2>4. CASE loops'[m] = [loops[m] EXCEPT !.subscribed = FALSE]
    BY <2>1, <2>2, <2>4
  <2> QED BY <1>2, <2>3, <2>4
<1>4. TypeOK'
  <2>1. endQ \in Seq(Sessions) /\ endQ' \in Seq(Sessions)
        /\ Head(endQ) \in Sessions
    BY <1>1 DEF RealTimeInv, TypeOK
  <2>2. IsMap(loops', Loops, Loop)
    BY <1>2, <1>3, LoopTypes DEF RealTimeInv, IsMap
  <2> QED BY <1>1, <2>1, <2>2 DEF RealTimeInv, TypeOK, IsMap
<1>5. Grows /\ IndexKept /\ NothingNew /\ SameCalls
  BY <1>1, SameTracker DEF RealTimeInv
<1>6. QuietLoops
  BY <1>2, <1>3, <1>5, SameProgress DEF SameCalls
<1>7. DownIsEmpty' /\ RecordingStands'
  <2>1. running
    BY <1>1 DEF RealTimeInv, DownIsEmpty
  <2>2. DownIsEmpty'
    BY <1>1, <2>1 DEF DownIsEmpty
  <2> QED BY <1>1, <1>5, <1>6, <2>2, RecordingKept DEF QuietLoops, SameCalls
<1>8. AnsweringHasArray'
  BY <1>1, <1>5, ArraysKept DEF RealTimeInv
<1> QED BY <1>1, <1>4, <1>5, <1>6, <1>7, <1>8, QuietInv DEF SameCalls

\* The session is unregistered.
LEMMA UnregisterSessionInv ==
    ASSUME RealTimeInv, TrackerInv', UnregisterSession
    PROVE  RealTimeInv'
<1>1. /\ ending # NoMsg /\ ending' = NoMsg
      /\ registered' \subseteq registered
      /\ UNCHANGED trackerVars
      /\ UNCHANGED <<running, channelOpen, published, created, startQ, endQ,
                     starting, tags, loops, ws, job, crashes, posted, scored>>
  BY DEF UnregisterSession, brokerVars, lbVars
<1>2. TypeOK'
  BY <1>1 DEF RealTimeInv, TypeOK, IsMap
<1>3. Grows /\ IndexKept /\ NothingNew /\ SameCalls /\ QuietLoops
  BY <1>1, SameTracker, UntouchedLoops DEF RealTimeInv, SameCalls
<1>4. DownIsEmpty' /\ RecordingStands'
  <2>1. DownIsEmpty'
    BY <1>1 DEF RealTimeInv, DownIsEmpty
  <2> QED BY <1>1, <1>3, <2>1, RecordingKept DEF QuietLoops, SameCalls
<1>5. AnsweringHasArray'
  BY <1>1, <1>3, ArraysKept DEF RealTimeInv
<1> QED BY <1>1, <1>2, <1>3, <1>4, <1>5, QuietInv DEF SameCalls

-----------------------------------------------------------------------------
(* ConsumeQuestionStart: steps that leave the tracker alone.               *)

\* Loop l alone moves.
OnlyMoves(l) ==
    /\ DOMAIN loops' = DOMAIN loops
    /\ loops' = [m \in DOMAIN loops' |-> loops'[m]]
    /\ loops'[l] \in Loop
    /\ loops'[l].session = loops[l].session
    /\ loops'[l].alone = loops[l].alone
    /\ \A m \in DOMAIN loops : m # l => loops'[m] = loops[m]

\* One entry of the map of loops is overwritten.
LEMMA OneLoop ==
    ASSUME TypeOK, NEW l \in DOMAIN loops, NEW x \in Loop,
           x.session = loops[l].session, x.alone = loops[l].alone,
           loops' = [loops EXCEPT ![l] = x]
    PROVE  OnlyMoves(l) /\ loops'[l] = x /\ IsMap(loops', Loops, Loop)
<1>1. /\ DOMAIN loops' = DOMAIN loops /\ loops'[l] = x
      /\ loops' = [m \in DOMAIN loops' |-> loops'[m]]
      /\ \A m \in DOMAIN loops : m # l => loops'[m] = loops[m]
  OBVIOUS
<1>2. DOMAIN loops \subseteq Loops /\ \A m \in DOMAIN loops : loops[m] \in Loop
  BY LoopTypes
<1> QED BY <1>1, <1>2 DEF OnlyMoves, IsMap

\* What l has to show for if it deals with the Leader Board after its step.
LoopStands(l) ==
    loops'[l].pc \in Scoring =>
        /\ loops'[l].qid > 0
        /\ CurrentIdx(loops[l].session) >= 0
        /\ Len(Tracked(loops[l].session).quiz) > 0
        /\ loops[l].alone =>
              /\ loops'[l].qid = CurrentIdx(loops[l].session)
              /\ loops'[l].pc # "board" =>
                    /\ loops'[l].boardQ = loops'[l].qid - 1
                    /\ \A u \in DOMAIN loops'[l].board :
                          /\ loops[l].session \in DOMAIN answers
                          /\ u \in DOMAIN answers[loops[l].session]
                          /\ loops'[l].board[u] =
                               answers[loops[l].session][u][loops'[l].boardQ]

\* A loop that was scoring and has what it had stands.
LEMMA SameStands ==
    ASSUME RealTimeInv, NEW l \in DOMAIN loops, SameScoringOf(l)
    PROVE  LoopStands(l)
BY DEF RealTimeInv, ScoringIndex, AloneLoops, BoardStands, SameScoringOf,
       LoopStands, Scoring

\* A step of one loop that leaves the tracker alone: what has to be shown is
\* what it scores, what it posts, and that it takes the lock after it has
\* moved the index.
LEMMA LoopMovesInv ==
    ASSUME RealTimeInv, TypeOK', TrackerInv', NEW l \in DOMAIN loops,
           OnlyMoves(l), LoopStands(l),
           loops[l].pc # "incrementing", loops'[l].pc # "incrementing",
           loops[l].pc = "advanced" => recording = {},
           UNCHANGED trackerVars,
           UNCHANGED <<running, published, created, startQ, starting, ws, job,
                       crashes>>,
           \A s \in Sessions : posted'[s] # <<>> =>
               posted[s] # <<>> \/ s = loops[l].session,
           ScoredOnce', PostedInOrder', LateAreLost'
    PROVE  RealTimeInv'
<1>1. Grows /\ IndexKept /\ NothingNew /\ SameCalls
  BY SameTracker DEF RealTimeInv
<1>2. SameLoops
  BY DEF OnlyMoves, SameLoops
<1>3. DownIsEmpty'
  BY RunningLoop DEF RealTimeInv, DownIsEmpty
<1>4. IncrementingLoops'
  <2>1. SameIncrementing
    BY DEF OnlyMoves, SameIncrementing
  <2> QED BY <1>1, <1>2, <2>1, CallsKept DEF SameCalls
<1>5. RecordingStands'
  <2> SUFFICES ASSUME running, NEW r \in recording
               PROVE  \/ r.qid >= CurrentIdx(r.session)
                      \/ Opening(r.session)'
    BY DEF RecordingStands, CurrentIdx, trackerVars
  <2>1. \/ r.qid >= CurrentIdx(r.session)
        \/ Opening(r.session)
    BY DEF RealTimeInv, RecordingStands
  <2>2. Opening(r.session) => Opening(r.session)'
    BY DEF Opening, OnlyMoves
  <2> QED BY <2>1, <2>2
<1>6. LoopSessionTracked'
  BY <1>2 DEF RealTimeInv, LoopSessionTracked, SameLoops, trackerVars
<1>7. ScoringIndex'
  BY DEF RealTimeInv, ScoringIndex, OnlyMoves, LoopStands, Scoring, CurrentIdx,
         Tracked, trackerVars
<1>8. AloneLoops'
  <2> SUFFICES ASSUME NEW m \in DOMAIN loops', loops'[m].alone,
                      NEW s, s = loops'[m].session
               PROVE  /\ \A k \in DOMAIN loops' : loops'[k].session = s => k = m
                      /\ BoardStands(m, s)'
    BY DEF AloneLoops, BoardStands, CurrentIdx
  <2>1. /\ m \in DOMAIN loops /\ loops[m].alone /\ loops[m].session = s
        /\ \A k \in DOMAIN loops : loops[k].session = s => k = m
        /\ BoardStands(m, s)
    BY <1>2 DEF RealTimeInv, AloneLoops, SameLoops
  <2>2. \A k \in DOMAIN loops' : loops'[k].session = s => k = m
    BY <1>2, <2>1 DEF SameLoops
  <2>3. BoardStands(m, s)'
    <3>1. UNCHANGED <<tracker, answers>>
      BY DEF trackerVars
    <3>2. CASE m = l
      BY <2>1, <3>1, <3>2 DEF LoopStands, BoardStands, Scoring, CurrentIdx
    <3>3. CASE m # l
      BY <2>1, <3>1, <3>3 DEF OnlyMoves, BoardStands, CurrentIdx
    <3> QED BY <3>2, <3>3
  <2> QED BY <2>2, <2>3
<1>9. AnsweringHasArray'
  BY <1>1, ArraysKept DEF RealTimeInv
<1>10. StartsKnown' /\ OneStart'
  <2>1. loops[l].session \in DOMAIN tracker
    BY DEF RealTimeInv, LoopSessionTracked
  <2>2. published.start <= 1 => raced' = {}
    BY <1>1 DEF RealTimeInv, OneStart, SameCalls
  <2> QED BY <1>1, <1>2, <2>1, <2>2, StartsKept
<1> QED BY <1>3, <1>4, <1>5, <1>6, <1>7, <1>8, <1>9, <1>10 DEF RealTimeInv

\* A step of one loop between two questions, or on its way to the clients.
LEMMA LoopGoesInv ==
    ASSUME RealTimeInv, TypeOK', TrackerInv', NEW l \in DOMAIN loops,
           OnlyMoves(l), SameScoringOf(l) \/ LoopStands(l),
           loops[l].pc \notin {"incrementing", "posting"},
           loops'[l].pc \notin {"incrementing", "posting", "advanced"},
           loops'[l].pc = "board" => loops[l].pc = "advanced",
           loops[l].pc = "advanced" => recording = {},
           UNCHANGED trackerVars,
           UNCHANGED <<running, published, created, startQ, starting, ws, job,
                       crashes, posted, scored>>
    PROVE  RealTimeInv'
<1>1. Grows /\ IndexKept /\ inc' = inc
  BY SameTracker DEF RealTimeInv, SameCalls
<1>2. SameLoops /\ SameRequests
  BY DEF OnlyMoves, SameLoops, SameRequests
<1>3. NoneMoves
  BY <1>1 DEF OnlyMoves, NoneMoves, Moved
<1>4. ScoredOnce' /\ PostedInOrder' /\ LateAreLost'
  BY <1>1, <1>2, <1>3, ScoresKept
<1> QED BY <1>4, SameStands, LoopMovesInv

\* The queue is bound.
LEMMA BindQueueInv ==
    ASSUME RealTimeInv, TrackerInv', NEW l \in DOMAIN loops, BindQueue(l)
    PROVE  RealTimeInv'
<1> DEFINE x == [loops[l] EXCEPT !.pc = "bound", !.subscribed = TRUE]
<1>1. /\ loops[l].pc = "starting" /\ loops' = [loops EXCEPT ![l] = x]
      /\ UNCHANGED trackerVars
      /\ UNCHANGED <<running, channelOpen, published, created, startQ, endQ,
                     starting, ending, registered, tags, ws, job, crashes,
                     posted, scored>>
  BY DEF BindQueue, LoopFrame, brokerVars, handlerVars, lbVars
<1>2. /\ x \in Loop /\ x.pc = "bound"
      /\ x.session = loops[l].session /\ x.alone = loops[l].alone
  <2>1. loops[l] \in Loop
    BY LoopTypes DEF RealTimeInv
  <2> QED BY <2>1 DEF Loop
<1> HIDE DEF x
<1>3. OnlyMoves(l) /\ loops'[l] = x /\ IsMap(loops', Loops, Loop)
  BY <1>1, <1>2, OneLoop DEF RealTimeInv
<1>4. TypeOK'
  BY <1>1, <1>3 DEF RealTimeInv, TypeOK, IsMap
<1>5. LoopStands(l)
  BY <1>2, <1>3 DEF LoopStands, Scoring
<1> QED BY <1>1, <1>2, <1>3, <1>4, <1>5, LoopGoesInv

\* The tag is stored.
LEMMA StoreTagInv ==
    ASSUME RealTimeInv, TrackerInv', NEW l \in DOMAIN loops, StoreTag(l)
    PROVE  RealTimeInv'
<1> DEFINE x == [loops[l] EXCEPT !.pc = "idle"]
<1>1. /\ loops[l].pc = "bound" /\ loops' = [loops EXCEPT ![l] = x]
      /\ tags' = tags \cup {loops[l].session}
      /\ UNCHANGED trackerVars
      /\ UNCHANGED <<running, channelOpen, published, created, startQ, endQ,
                     starting, ending, registered, ws, job, crashes, posted,
                     scored>>
  BY DEF StoreTag, brokerVars, lbVars
<1>2. /\ x \in Loop /\ x.pc = "idle" /\ loops[l].session \in Sessions
      /\ x.session = loops[l].session /\ x.alone = loops[l].alone
  <2>1. loops[l] \in Loop
    BY LoopTypes DEF RealTimeInv
  <2> QED BY <2>1 DEF Loop
<1> HIDE DEF x
<1>3. OnlyMoves(l) /\ loops'[l] = x /\ IsMap(loops', Loops, Loop)
  BY <1>1, <1>2, OneLoop DEF RealTimeInv
<1>4. TypeOK'
  BY <1>1, <1>2, <1>3 DEF RealTimeInv, TypeOK, IsMap
<1>5. LoopStands(l)
  BY <1>2, <1>3 DEF LoopStands, Scoring
<1> QED BY <1>1, <1>2, <1>3, <1>4, <1>5, LoopGoesInv

\* The payload is sent: the loop is idle again.
LEMMA SendPayloadInv ==
    ASSUME RealTimeInv, TrackerInv', NEW l \in DOMAIN loops, SendPayload(l)
    PROVE  RealTimeInv'
<1> DEFINE x == [loops[l] EXCEPT !.pc = "idle"]
<1>1. /\ loops[l].pc = "payload" /\ loops' = [loops EXCEPT ![l] = x]
      /\ UNCHANGED trackerVars
      /\ UNCHANGED <<running, channelOpen, published, created, startQ, endQ,
                     starting, ending, registered, tags, ws, job, crashes,
                     posted, scored>>
  BY DEF SendPayload, LoopFrame, brokerVars, handlerVars, lbVars
<1>2. /\ x \in Loop /\ x.pc = "idle"
      /\ x.session = loops[l].session /\ x.alone = loops[l].alone
  <2>1. loops[l] \in Loop
    BY LoopTypes DEF RealTimeInv
  <2> QED BY <2>1 DEF Loop
<1> HIDE DEF x
<1>3. OnlyMoves(l) /\ loops'[l] = x /\ IsMap(loops', Loops, Loop)
  BY <1>1, <1>2, OneLoop DEF RealTimeInv
<1>4. TypeOK'
  BY <1>1, <1>3 DEF RealTimeInv, TypeOK, IsMap
<1>5. LoopStands(l)
  BY <1>2, <1>3 DEF LoopStands, Scoring
<1> QED BY <1>1, <1>2, <1>3, <1>4, <1>5, LoopGoesInv

\* A send does not return: the loop is lost.
LEMMA SendHangsInv ==
    ASSUME RealTimeInv, TrackerInv', NEW l \in DOMAIN loops, SendHangs(l)
    PROVE  RealTimeInv'
<1> DEFINE x == [loops[l] EXCEPT !.pc = "hung"]
<1>1. /\ loops[l].pc \in {"stat", "payload"}
      /\ loops' = [loops EXCEPT ![l] = x]
      /\ UNCHANGED trackerVars
      /\ UNCHANGED <<running, channelOpen, published, created, startQ, endQ,
                     starting, ending, registered, tags, ws, job, crashes,
                     posted, scored>>
  BY DEF SendHangs, LoopFrame, brokerVars, handlerVars, lbVars
<1>2. /\ x \in Loop /\ x.pc = "hung"
      /\ x.session = loops[l].session /\ x.alone = loops[l].alone
  <2>1. loops[l] \in Loop
    BY LoopTypes DEF RealTimeInv
  <2> QED BY <2>1 DEF Loop
<1> HIDE DEF x
<1>3. OnlyMoves(l) /\ loops'[l] = x /\ IsMap(loops', Loops, Loop)
  BY <1>1, <1>2, OneLoop DEF RealTimeInv
<1>4. TypeOK'
  BY <1>1, <1>3 DEF RealTimeInv, TypeOK, IsMap
<1>5. LoopStands(l)
  BY <1>2, <1>3 DEF LoopStands, Scoring
<1> QED BY <1>1, <1>2, <1>3, <1>4, <1>5, LoopGoesInv

\* A loop whose request is over: it forgets the board.
LEMMA BoardForgotten ==
    ASSUME RealTimeInv, NEW l \in DOMAIN loops,
           loops' = [loops EXCEPT ![l].pc = "payload", ![l].board = EmptyMap,
                                  ![l].boardQ = -1, ![l].request = 0]
    PROVE  /\ OnlyMoves(l) /\ IsMap(loops', Loops, Loop)
           /\ loops'[l].pc = "payload" /\ LoopStands(l)
<1> DEFINE b == EmptyMap
           x1 == [loops[l] EXCEPT !.pc = "payload"]
           x2 == [x1 EXCEPT !.board = b]
           x3 == [x2 EXCEPT !.boardQ = -1]
           x4 == [x3 EXCEPT !.request = 0]
<1>1. loops' = [loops EXCEPT ![l] = x4]
  OBVIOUS
<1>2. loops[l] \in Loop
  BY LoopTypes DEF RealTimeInv
<1> DEFINE Boards == UNION {[U -> Answer] : U \in SUBSET Users}
<1>3. b \in Boards
  BY EmptyBoard
<1>4. Loop = [session : Sessions,
              pc : {"starting", "bound", "idle", "incrementing", "advanced",
                    "board", "posting", "stat", "payload", "hung"},
              subscribed : BOOLEAN, pending : Nat, qid : Int, boardQ : Int,
              board : Boards, options : Nat, request : Nat,
              alone : BOOLEAN]
  BY DEF Loop
<1> HIDE DEF b, Boards
<1>5. /\ x1 \in Loop /\ x1.pc = "payload"
      /\ x1.session = loops[l].session /\ x1.alone = loops[l].alone
  BY <1>2, <1>4
<1> HIDE DEF x1
<1>6. /\ x2 \in Loop /\ x2.pc = x1.pc
      /\ x2.session = x1.session /\ x2.alone = x1.alone
  BY <1>3, <1>4, <1>5
<1> HIDE DEF x2
<1>7. /\ x3 \in Loop /\ x3.pc = x2.pc
      /\ x3.session = x2.session /\ x3.alone = x2.alone
  BY <1>4, <1>6
<1> HIDE DEF x3
<1>8. /\ x4 \in Loop /\ x4.pc = x3.pc
      /\ x4.session = x3.session /\ x4.alone = x3.alone
  BY <1>4, <1>7
<1> HIDE DEF x4
<1>9. OnlyMoves(l) /\ loops'[l] = x4 /\ IsMap(loops', Loops, Loop)
  <2>1. /\ x4 \in Loop /\ x4.session = loops[l].session
        /\ x4.alone = loops[l].alone
    BY <1>5, <1>6, <1>7, <1>8
  <2> QED BY <1>1, <2>1, OneLoop DEF RealTimeInv
<1> QED BY <1>5, <1>6, <1>7, <1>8, <1>9 DEF LoopStands, Scoring

\* The board and the statistics are sent.
LEMMA SendStatInv ==
    ASSUME RealTimeInv, TrackerInv', NEW l \in DOMAIN loops, SendStat(l)
    PROVE  RealTimeInv'
<1>1. /\ loops[l].pc = "stat"
      /\ UNCHANGED trackerVars
      /\ UNCHANGED <<running, channelOpen, published, created, startQ, endQ,
                     starting, ending, registered, tags, ws, job, crashes,
                     posted, scored>>
  BY DEF SendStat, LoopFrame, brokerVars, handlerVars, lbVars
<1>2. /\ OnlyMoves(l) /\ IsMap(loops', Loops, Loop)
      /\ loops'[l].pc = "payload" /\ LoopStands(l)
  BY BoardForgotten DEF SendStat
<1>3. TypeOK'
  BY <1>1, <1>2 DEF RealTimeInv, TypeOK, IsMap
<1> QED BY <1>1, <1>2, <1>3, LoopGoesInv

\* The index is read: past the first question the Leader Board comes next.
LEMMA ReadQuestionInv ==
    ASSUME RealTimeInv, TrackerInv', NEW l \in DOMAIN loops, ReadQuestion(l)
    PROVE  RealTimeInv'
<1> DEFINE s == loops[l].session
           q == CurrentIdx(s)
           pc1 == IF q # Len(Tracked(s).quiz) /\ q > 0 THEN "board" ELSE "payload"
           x == [loops[l] EXCEPT !.qid = q, !.pc = pc1]
<1>1. /\ loops[l].pc = "advanced" /\ loops' = [loops EXCEPT ![l] = x]
      /\ recording = {}
      /\ UNCHANGED trackerVars
      /\ UNCHANGED <<running, channelOpen, published, created, startQ, endQ,
                     starting, ending, registered, tags, ws, job, crashes,
                     posted, scored>>
  BY DEF ReadQuestion, Unlocked, LoopFrame, brokerVars, handlerVars, lbVars
<1>2. q \in Int
  BY Entries DEF RealTimeInv, TrackerInv, CurrentIdx
<1>3. /\ pc1 \in {"board", "payload"}
      /\ pc1 = "board" => q > 0
  OBVIOUS
<1> HIDE DEF q, pc1
<1>4. /\ x \in Loop /\ x.pc = pc1 /\ x.qid = q
      /\ x.session = loops[l].session /\ x.alone = loops[l].alone
  <2>1. loops[l] \in Loop
    BY LoopTypes DEF RealTimeInv
  <2> QED BY <1>2, <1>3, <2>1 DEF Loop
<1> HIDE DEF x
<1>5. OnlyMoves(l) /\ loops'[l] = x /\ IsMap(loops', Loops, Loop)
  BY <1>1, <1>4, OneLoop DEF RealTimeInv
<1>6. TypeOK'
  BY <1>1, <1>5 DEF RealTimeInv, TypeOK, IsMap
<1>7. LoopStands(l)
  <2> SUFFICES ASSUME pc1 = "board"
               PROVE  /\ q > 0 /\ CurrentIdx(loops[l].session) = q
                      /\ Len(Tracked(loops[l].session).quiz) > 0
    BY <1>2, <1>3, <1>4, <1>5 DEF LoopStands, Scoring
  <2>1. q > 0 /\ CurrentIdx(loops[l].session) = q
    BY <1>3 DEF q
  <2>2. /\ loops[l].session \in DOMAIN tracker
        /\ tracker[loops[l].session].idx \in
              1 .. (Len(tracker[loops[l].session].quiz) - 1)
        /\ Len(tracker[loops[l].session].quiz) \in Nat
    BY <2>1, OpenIndex DEF RealTimeInv
  <2> QED BY <2>1, <2>2 DEF Tracked
<1> QED BY <1>1, <1>3, <1>4, <1>5, <1>6, <1>7, LoopGoesInv

\* The connection to the broker is closed on a loop that cannot consume: it is
\* gone, and the others get nothing more.
LEMMA BindFailsInv ==
    ASSUME RealTimeInv, TrackerInv', NEW l \in DOMAIN loops, BindFails(l)
    PROVE  RealTimeInv'
<1>1. /\ loops[l].pc = "starting"
      /\ channelOpen' = FALSE
      /\ tags' = tags \cup {loops[l].session}
      /\ UNCHANGED trackerVars
      /\ UNCHANGED <<running, published, created, startQ, starting, endQ,
                     ending, registered, ws, job, crashes, posted, scored>>
  BY DEF BindFails, lbVars
<1>2. PICK left \in [(DOMAIN loops) \ {l} -> 0 .. MaxTriggers] :
         loops' = [m \in DOMAIN left |->
                     [loops[m] EXCEPT !.subscribed = FALSE, !.pending = left[m]]]
  BY DEF BindFails
<1>3. \A m \in (DOMAIN loops) \ {l} : left[m] \in Nat
  <2>1. \A m \in (DOMAIN loops) \ {l} : left[m] \in 0 .. MaxTriggers
    BY <1>2
  <2> QED BY <2>1, BoundsAssumption
<1>4. /\ DOMAIN loops' = (DOMAIN loops) \ {l}
      /\ loops' = [m \in DOMAIN loops' |-> loops'[m]]
      /\ \A m \in DOMAIN loops' : loops'[m] =
            [loops[m] EXCEPT !.subscribed = FALSE, !.pending = left[m]]
  BY <1>2
<1>5. \A m \in DOMAIN loops' :
         /\ m \in DOMAIN loops
         /\ loops'[m] \in Loop
         /\ loops'[m].session = loops[m].session
         /\ loops'[m].pc = loops[m].pc
         /\ loops'[m].alone = loops[m].alone
         /\ loops'[m].qid = loops[m].qid
         /\ loops'[m].boardQ = loops[m].boardQ
         /\ loops'[m].board = loops[m].board
         /\ loops'[m].request = loops[m].request
  <2> TAKE m \in DOMAIN loops'
  <2> DEFINE x == loops[m]
             y == [x EXCEPT !.subscribed = FALSE]
             z == [y EXCEPT !.pending = left[m]]
  <2>1. m \in DOMAIN loops /\ x \in Loop /\ left[m] \in Nat
    BY <1>3, <1>4, LoopTypes DEF RealTimeInv
  <2>2. loops'[m] = z
    BY <1>4
  <2>3. /\ y \in Loop /\ y.session = x.session /\ y.pc = x.pc
        /\ y.alone = x.alone /\ y.qid = x.qid /\ y.boardQ = x.boardQ
        /\ y.board = x.board /\ y.request = x.request
    BY <2>1 DEF Loop
  <2> HIDE DEF y
  <2>4. /\ z \in Loop /\ z.session = y.session /\ z.pc = y.pc
        /\ z.alone = y.alone /\ z.qid = y.qid /\ z.boardQ = y.boardQ
        /\ z.board = y.board /\ z.request = y.request
    BY <2>1, <2>3 DEF Loop
  <2> HIDE DEF z
  <2> QED BY <2>1, <2>2, <2>3, <2>4
<1>6. TypeOK'
  <2>1. IsMap(loops', Loops, Loop)
    BY <1>4, <1>5, LoopTypes DEF RealTimeInv, IsMap
  <2>2. loops[l].session \in Sessions
    BY LoopTypes DEF RealTimeInv
  <2> QED BY <1>1, <2>1, <2>2 DEF RealTimeInv, TypeOK, IsMap
<1>7. Grows /\ IndexKept /\ NothingNew /\ SameCalls
  BY <1>1, SameTracker DEF RealTimeInv
<1>8. QuietLoops
  BY <1>1, <1>4, <1>5, <1>7, SameProgress DEF SameCalls
<1>9. DownIsEmpty' /\ RecordingStands'
  <2>1. DownIsEmpty'
    BY <1>1, RunningLoop DEF RealTimeInv, DownIsEmpty
  <2> QED BY <1>1, <1>7, <1>8, <2>1, RecordingKept DEF QuietLoops, SameCalls
<1>10. AnsweringHasArray'
  BY <1>1, <1>7, ArraysKept DEF RealTimeInv
<1> QED BY <1>1, <1>6, <1>7, <1>8, <1>9, <1>10, QuietInv DEF SameCalls

\* A loop returns.
LEMMA LoopEndsInv ==
    ASSUME RealTimeInv, TrackerInv', NEW l \in DOMAIN loops, LoopEnds(l)
    PROVE  RealTimeInv'
<1>1. /\ loops[l].pc = "idle" /\ loops' = Delete(loops, l)
      /\ UNCHANGED trackerVars
      /\ UNCHANGED <<running, channelOpen, published, created, startQ, endQ,
                     starting, ending, registered, tags, ws, job, crashes,
                     posted, scored>>
  BY DEF LoopEnds, LoopFrame, brokerVars, handlerVars, lbVars
<1>2. /\ DOMAIN loops' = (DOMAIN loops) \ {l}
      /\ loops' = [m \in DOMAIN loops' |-> loops'[m]]
      /\ \A m \in DOMAIN loops' : m \in DOMAIN loops /\ loops'[m] = loops[m]
  BY <1>1 DEF Delete
<1>3. TypeOK'
  <2>1. IsMap(loops', Loops, Loop)
    BY <1>2, LoopTypes DEF RealTimeInv, IsMap
  <2> QED BY <1>1, <2>1 DEF RealTimeInv, TypeOK, IsMap
<1>4. Grows /\ IndexKept /\ NothingNew /\ SameCalls
  BY <1>1, SameTracker DEF RealTimeInv
<1>5. QuietLoops
  BY <1>1, <1>2, <1>4, SameProgress DEF SameCalls
<1>6. DownIsEmpty' /\ RecordingStands'
  <2>1. DownIsEmpty'
    BY <1>1, RunningLoop DEF RealTimeInv, DownIsEmpty
  <2> QED BY <1>1, <1>4, <1>5, <2>1, RecordingKept DEF QuietLoops, SameCalls
<1>7. AnsweringHasArray'
  BY <1>1, <1>4, ArraysKept DEF RealTimeInv
<1> QED BY <1>1, <1>3, <1>4, <1>5, <1>6, <1>7, QuietInv DEF SameCalls

-----------------------------------------------------------------------------
(* Requests to the Leader Board service.                                   *)

\* The wait for a request ends when it is scored or given up: the order of
\* what was posted stays right.
LEMMA PostingEnds ==
    ASSUME RealTimeInv, NEW l \in DOMAIN loops, OnlyMoves(l),
           loops[l].pc = "posting", loops'[l].pc \in {"stat", "payload"},
           UNCHANGED trackerVars,
           UNCHANGED <<running, published, crashes, scored>>,
           \A s \in Sessions :
               /\ posted'[s] # <<>> => posted[s] # <<>>
               /\ Len(posted'[s]) = Len(posted[s])
               /\ DOMAIN posted'[s] = DOMAIN posted[s]
               /\ \A i \in DOMAIN posted[s] :
                     /\ posted'[s][i].question = posted[s][i].question
                     /\ posted[s][i].lost => posted'[s][i].lost
                     /\ s = loops[l].session /\ i = loops[l].request =>
                           Scored(s, i) \/ posted'[s][i].lost
    PROVE  ScoredOnce' /\ PostedInOrder' /\ LateAreLost'
<1>1. ScoredOnce' /\ LateAreLost'
  BY DEF RealTimeInv, ScoredOnce, LateAreLost
<1>2. PostedInOrder'
  <2> SUFFICES ASSUME crashes = 0, published.start <= 1,
                      NEW s \in Sessions, posted'[s] # <<>>
               PROVE  /\ running
                      /\ CurrentIdx(s) >= 1
                      /\ \A i \in DOMAIN posted[s] :
                            /\ posted'[s][i].question < CurrentIdx(s)
                            /\ \/ Scored(s, i) \/ posted'[s][i].lost
                               \/ Awaited(s, i)'
                      /\ \A i, j \in DOMAIN posted[s] : i < j =>
                            \/ posted'[s][i].question < posted'[s][j].question
                            \/ /\ posted'[s][i].question = posted'[s][j].question
                               /\ posted'[s][i].question = Len(tracker[s].quiz) - 2
                      /\ \A m \in DOMAIN loops' :
                            /\ loops'[m].pc = "posting" =>
                                  loops'[m].request \in {0, Len(posted[s])}
                            /\ Moved(m)' => \A i \in DOMAIN posted[s] :
                                  \/ posted'[s][i].question < CurrentIdx(s) - 1
                                  \/ CurrentIdx(s) = Len(tracker[s].quiz) - 1
    BY DEF PostedInOrder, trackerVars, CurrentIdx, Scored
  <2>1. /\ running
        /\ CurrentIdx(s) >= 1
        /\ \A i \in DOMAIN posted[s] :
              /\ posted[s][i].question < CurrentIdx(s)
              /\ Scored(s, i) \/ posted[s][i].lost \/ Awaited(s, i)
        /\ \A i, j \in DOMAIN posted[s] : i < j =>
              \/ posted[s][i].question < posted[s][j].question
              \/ /\ posted[s][i].question = posted[s][j].question
                 /\ posted[s][i].question = Len(tracker[s].quiz) - 2
        /\ \A m \in DOMAIN loops :
              /\ loops[m].pc = "posting" =>
                    loops[m].request \in {0, Len(posted[s])}
              /\ Moved(m) => \A i \in DOMAIN posted[s] :
                    \/ posted[s][i].question < CurrentIdx(s) - 1
                    \/ CurrentIdx(s) = Len(tracker[s].quiz) - 1
    BY DEF RealTimeInv, PostedInOrder
  <2>2. \A i \in DOMAIN posted[s] : Awaited(s, i) =>
           \/ Awaited(s, i)'
           \/ Scored(s, i) \/ posted'[s][i].lost
    BY DEF Awaited, OnlyMoves
  <2>3. \A m \in DOMAIN loops' :
           /\ m \in DOMAIN loops
           /\ loops'[m].pc = "posting" => loops'[m] = loops[m]
           /\ Moved(m)' => Moved(m)
    BY DEF OnlyMoves, Moved, trackerVars
  <2> QED BY <2>1, <2>2, <2>3
<1> QED BY <1>1, <1>2

\* The answer of the Leader Board service has arrived: the points are in.
LEMMA BoardReceivedInv ==
    ASSUME RealTimeInv, TrackerInv', NEW l \in DOMAIN loops, BoardReceived(l)
    PROVE  RealTimeInv'
<1> DEFINE x == [loops[l] EXCEPT !.pc = "stat"]
<1>1. /\ loops[l].pc = "posting" /\ loops' = [loops EXCEPT ![l] = x]
      /\ Scored(loops[l].session, loops[l].request)
      /\ UNCHANGED trackerVars
      /\ UNCHANGED <<running, channelOpen, published, created, startQ, endQ,
                     starting, ending, registered, tags, ws, job, crashes,
                     posted, scored>>
  BY DEF BoardReceived, LoopFrame, brokerVars, handlerVars, lbVars
<1>2. /\ x \in Loop /\ x.pc = "stat"
      /\ x.session = loops[l].session /\ x.alone = loops[l].alone
      /\ x.qid = loops[l].qid /\ x.boardQ = loops[l].boardQ
      /\ x.board = loops[l].board
  <2>1. loops[l] \in Loop
    BY LoopTypes DEF RealTimeInv
  <2> QED BY <2>1 DEF Loop
<1> HIDE DEF x
<1>3. OnlyMoves(l) /\ loops'[l] = x /\ IsMap(loops', Loops, Loop)
  BY <1>1, <1>2, OneLoop DEF RealTimeInv
<1>4. TypeOK'
  BY <1>1, <1>3 DEF RealTimeInv, TypeOK, IsMap
<1>5. LoopStands(l)
  <2>1. SameScoringOf(l)
    BY <1>1, <1>2, <1>3 DEF SameScoringOf, Scoring
  <2> QED BY <2>1, SameStands
<1>6. ScoredOnce' /\ PostedInOrder' /\ LateAreLost'
  BY <1>1, <1>2, <1>3, PostingEnds
<1> QED BY <1>1, <1>2, <1>3, <1>4, <1>5, <1>6, LoopMovesInv

\* The request is refused or times out: the loop gives it up.
LEMMA BoardFailsInv ==
    ASSUME RealTimeInv, TrackerInv', NEW l \in DOMAIN loops, BoardFails(l)
    PROVE  RealTimeInv'
<1> DEFINE s == loops[l].session
           n == loops[l].request
<1>1. /\ loops[l].pc = "posting"
      /\ posted' = IF n = 0 THEN posted ELSE [posted EXCEPT ![s][n].lost = TRUE]
      /\ UNCHANGED trackerVars
      /\ UNCHANGED <<running, channelOpen, published, created, startQ, endQ,
                     starting, ending, registered, tags, ws, job, crashes,
                     scored>>
  BY DEF BoardFails, LoopFrame, brokerVars, handlerVars
<1>2. /\ OnlyMoves(l) /\ IsMap(loops', Loops, Loop)
      /\ loops'[l].pc = "payload" /\ LoopStands(l)
  BY BoardForgotten DEF BoardFails
<1>3. /\ s \in Sessions /\ n \in Nat /\ posted \in [Sessions -> Seq(Request)]
  BY LoopTypes DEF RealTimeInv, TypeOK
<1> HIDE DEF s, n
<1>4. ASSUME NEW t \in Sessions
      PROVE  /\ posted'[t] \in Seq(Request)
             /\ posted'[t] # <<>> => posted[t] # <<>>
             /\ Len(posted'[t]) = Len(posted[t])
             /\ DOMAIN posted'[t] = DOMAIN posted[t]
             /\ \A i \in DOMAIN posted[t] :
                   /\ posted'[t][i].question = posted[t][i].question
                   /\ posted[t][i].lost => posted'[t][i].lost
                   /\ t = s /\ i = n => posted'[t][i].lost
  <2>1. /\ posted[t] \in Seq(Request) /\ Len(posted[t]) \in Nat
        /\ DOMAIN posted[t] = 1 .. Len(posted[t])
        /\ \A i \in DOMAIN posted[t] : posted[t][i] \in Request
    BY <1>3
  <2>2. CASE t # s \/ n = 0
    <3>1. posted'[t] = posted[t]
      BY <1>1, <1>3, <2>2
    <3>2. t = s => \A i \in DOMAIN posted[t] : i # n
      BY <2>1, <2>2
    <3> QED BY <2>1, <3>1, <3>2
  <2>3. CASE t = s /\ n # 0
    <3> DEFINE p == posted[t]
               r == [p[n] EXCEPT !.lost = TRUE]
    <3>1. posted'[t] = [p EXCEPT ![n] = r]
      BY <1>1, <1>3, <2>3
    <3>2. \A i \in DOMAIN p : i = n => /\ r \in Request /\ r.lost
                                       /\ r.question = p[i].question
      BY <2>1 DEF Request
    <3> HIDE DEF r
    <3>3. /\ DOMAIN posted'[t] = DOMAIN p
          /\ \A i \in DOMAIN p : posted'[t][i] = IF i = n THEN r ELSE p[i]
      BY <3>1
    <3>4. posted'[t] \in Seq(Request) /\ Len(posted'[t]) = Len(p)
      <4>1. \A i \in 1 .. Len(p) : posted'[t][i] \in Request
        BY <2>1, <3>2, <3>3
      <4>2. posted'[t] = [i \in 1 .. Len(p) |-> posted'[t][i]]
        BY <2>1, <3>1
      <4>3. posted'[t] \in [1 .. Len(p) -> Request]
        BY <4>1, <4>2
      <4> QED BY <2>1, <4>3
    <3>5. posted'[t] # <<>> => p # <<>>
      BY <2>1, <3>3, <3>4
    <3> QED BY <3>2, <3>3, <3>4, <3>5
  <2> QED BY <2>2, <2>3
<1>5. TypeOK'
  <2>1. posted' \in [Sessions -> Seq(Request)]
    <3>1. DOMAIN posted' = Sessions /\ posted' = [t \in DOMAIN posted' |-> posted'[t]]
      BY <1>1, <1>3
    <3> QED BY <1>4, <3>1
  <2> QED BY <1>1, <1>2, <2>1 DEF RealTimeInv, TypeOK, IsMap
<1>6. ScoredOnce' /\ PostedInOrder' /\ LateAreLost'
  BY <1>1, <1>2, <1>4, PostingEnds DEF s, n
<1> QED BY <1>1, <1>2, <1>4, <1>5, <1>6, LoopMovesInv

\* The service adds the points of a request.
LEMMA AddScoresInv ==
    ASSUME RealTimeInv, TrackerInv', NEW s \in Sessions,
           NEW n \in DOMAIN posted[s], AddScores(s, n)
    PROVE  RealTimeInv'
<1>1. /\ ~Scored(s, n)
      /\ scored' = [scored EXCEPT ![s] = Append(@, n)]
      /\ UNCHANGED trackerVars
      /\ UNCHANGED <<running, channelOpen, published, created, startQ, endQ,
                     starting, ending, registered, tags, loops, ws, job,
                     crashes, posted>>
  BY DEF AddScores, brokerVars, handlerVars
<1>2. /\ n \in Nat /\ n >= 1 /\ n <= Len(posted[s])
      /\ Len(posted[s]) \in Nat
      /\ scored \in [Sessions -> Seq(Nat)]
  BY RequestTypes DEF RealTimeInv, TypeOK
<1>3. /\ scored'[s] = Append(scored[s], n)
      /\ scored'[s] \in Seq(Nat)
      /\ Len(scored[s]) \in Nat
      /\ DOMAIN scored[s] = 1 .. Len(scored[s])
      /\ DOMAIN scored'[s] = 1 .. (Len(scored[s]) + 1)
      /\ scored'[s][Len(scored[s]) + 1] = n
      /\ \A i \in DOMAIN scored[s] : scored'[s][i] = scored[s][i]
      /\ \A t \in Sessions : t # s => scored'[t] = scored[t]
      /\ scored' \in [Sessions -> Seq(Nat)]
  <2>1. scored[s] \in Seq(Nat)
    BY <1>2
  <2>2. scored'[s] = Append(scored[s], n)
    BY <1>1, <1>2
  <2>3. scored' = [t \in Sessions |-> scored'[t]]
    BY <1>1, <1>2
  <2>4. \A t \in Sessions : t # s => scored'[t] = scored[t]
    BY <1>1, <1>2
  <2>5. scored'[s] \in Seq(Nat)
    BY <1>2, <2>1, <2>2
  <2>6. \A t \in Sessions : scored'[t] \in Seq(Nat)
    BY <1>2, <2>4, <2>5
  <2> QED BY <1>2, <2>1, <2>2, <2>3, <2>4, <2>5, <2>6
<1>4. TypeOK'
  BY <1>1, <1>3 DEF RealTimeInv, TypeOK, IsMap
<1>5. Grows /\ IndexKept /\ NothingNew /\ SameCalls /\ QuietLoops
  BY <1>1, SameTracker, UntouchedLoops DEF RealTimeInv, SameCalls
<1>6. DownIsEmpty' /\ RecordingStands' /\ IncrementingLoops'
  <2>1. DownIsEmpty'
    BY <1>1 DEF RealTimeInv, DownIsEmpty
  <2> QED BY <1>1, <1>5, <2>1, CallsKept, RecordingKept DEF QuietLoops, SameCalls
<1>7. AnsweringHasArray'
  BY <1>1, <1>5, ArraysKept DEF RealTimeInv
<1>8. LoopSessionTracked' /\ ScoringIndex' /\ AloneLoops'
  BY <1>5, LoopsKept
     DEF QuietLoops, IndexKept, RealTimeInv, LoopSessionTracked, SameLoops
<1>9. StartsKnown' /\ OneStart'
  BY <1>1, <1>5, StartsKept DEF QuietLoops, RealTimeInv, OneStart, SameCalls
<1>10. ScoredOnce'
  <2> SUFFICES ASSUME NEW t \in Sessions
               PROVE  /\ \A i \in DOMAIN scored'[t] :
                            scored'[t][i] \in DOMAIN posted[t]
                      /\ \A i, j \in DOMAIN scored'[t] : i < j =>
                            scored'[t][i] # scored'[t][j]
    BY <1>1 DEF ScoredOnce
  <2>1. /\ \A i \in DOMAIN scored[t] : scored[t][i] \in DOMAIN posted[t]
        /\ \A i, j \in DOMAIN scored[t] : i < j =>
              scored[t][i] # scored[t][j]
    BY DEF RealTimeInv, ScoredOnce
  <2>2. CASE t # s
    BY <1>3, <2>1, <2>2
  <2>3. CASE t = s
    <3>1. \A i \in DOMAIN scored[s] : scored[s][i] # n
      BY <1>1 DEF Scored
    <3>2. \A i \in DOMAIN scored'[s] :
             \/ i \in DOMAIN scored[s] /\ scored'[s][i] = scored[s][i]
             \/ i = Len(scored[s]) + 1 /\ scored'[s][i] = n
      BY <1>3
    <3>3. \A i \in DOMAIN scored'[s] : scored'[s][i] \in DOMAIN posted[s]
      BY <2>1, <2>3, <3>2
    <3>4. ASSUME NEW i \in DOMAIN scored'[s], NEW j \in DOMAIN scored'[s], i < j
          PROVE  scored'[s][i] # scored'[s][j]
      <4>1. i \in DOMAIN scored[s]
        BY <1>3, <3>4
      <4> QED BY <2>1, <2>3, <3>1, <3>2, <3>4, <4>1
    <3> QED BY <2>3, <3>3, <3>4
  <2> QED BY <2>2, <2>3
<1>11. PostedInOrder'
  <2>1. ASSUME NEW t \in Sessions, NEW k, Scored(t, k)
        PROVE  Scored(t, k)'
    <3>1. PICK i \in DOMAIN scored[t] : scored[t][i] = k
      BY <2>1 DEF Scored
    <3>2. i \in DOMAIN scored'[t] /\ scored'[t][i] = k
      <4>1. CASE t = s
        <5>1. i \in DOMAIN scored[s] /\ scored[s][i] = k
          BY <3>1, <4>1
        <5>2. i \in DOMAIN scored'[s] /\ scored'[s][i] = k
          BY <1>3, <5>1
        <5> QED BY <4>1, <5>2
      <4>2. CASE t # s
        BY <1>3, <3>1, <4>2
      <4> QED BY <4>1, <4>2
    <3> QED BY <3>2 DEF Scored
  <2>2. \A t, i : Awaited(t, i)' <=> Awaited(t, i)
    BY <1>1 DEF Awaited
  <2>3. \A m \in DOMAIN loops : Moved(m)' <=> Moved(m)
    BY <1>1 DEF Moved, trackerVars
  <2>4. \A t : CurrentIdx(t)' = CurrentIdx(t)
    BY <1>1 DEF CurrentIdx, trackerVars
  <2>5. tracker' = tracker
    BY <1>1 DEF trackerVars
  <2> QED BY <1>1, <2>1, <2>2, <2>3, <2>4, <2>5 DEF RealTimeInv, PostedInOrder
<1>12. LateAreLost'
  <2> SUFFICES ASSUME crashes = 0, published.start <= 1, NEW t \in Sessions,
                      NEW i \in DOMAIN scored'[t], NEW j \in DOMAIN scored'[t],
                      i < j, scored'[t][i] > scored'[t][j]
               PROVE  posted[t][scored'[t][j]].lost
    BY <1>1 DEF LateAreLost
  <2>1. CASE t # s \/ j # Len(scored[s]) + 1
    <3>1. /\ i \in DOMAIN scored[t] /\ j \in DOMAIN scored[t]
          /\ scored'[t][i] = scored[t][i] /\ scored'[t][j] = scored[t][j]
      <4>1. CASE t # s
        BY <1>3, <4>1
      <4>2. CASE t = s
        <5>1. i \in DOMAIN scored'[s] /\ j \in DOMAIN scored'[s] /\ i < j
          BY <4>2
        <5>2. j # Len(scored[s]) + 1
          BY <2>1, <4>2
        <5>3. j \in DOMAIN scored[s] /\ i \in DOMAIN scored[s]
          <6>1. /\ i \in 1 .. (Len(scored[s]) + 1)
                /\ j \in 1 .. (Len(scored[s]) + 1)
            BY <1>3, <5>1
          <6>2. Len(scored[s]) \in Nat /\ i < j
            BY <1>3, <5>1
          <6>3. i \in 1 .. Len(scored[s]) /\ j \in 1 .. Len(scored[s])
            BY <5>2, <6>1, <6>2
          <6> QED BY <1>3, <6>3
        <5>4. scored'[s][i] = scored[s][i] /\ scored'[s][j] = scored[s][j]
          BY <1>3, <5>3
        <5> QED BY <4>2, <5>3, <5>4
      <4> QED BY <4>1, <4>2
    <3> QED BY <3>1 DEF RealTimeInv, LateAreLost
  <2>2. CASE t = s /\ j = Len(scored[s]) + 1
    <3>1. /\ i \in DOMAIN scored[s] /\ scored[s][i] > n
          /\ scored'[t][j] = n
      BY <1>3, <2>2
    <3>2. scored[s][i] \in DOMAIN posted[s]
      BY <3>1 DEF RealTimeInv, ScoredOnce
    <3>3. n < Len(posted[s])
      BY <1>2, <3>1, <3>2, RequestTypes DEF RealTimeInv
    <3>4. posted[s] # <<>>
      BY <1>2
    <3>5. ~Awaited(s, n)
      <4>1. \A m \in DOMAIN loops : loops[m].pc = "posting" =>
               loops[m].request \in {0, Len(posted[s])}
        BY <3>4 DEF RealTimeInv, PostedInOrder
      <4> QED BY <1>2, <3>3, <4>1 DEF Awaited
    <3>6. posted[s][n].lost
      BY <1>1, <3>4, <3>5 DEF RealTimeInv, PostedInOrder
    <3> QED BY <2>2, <3>1, <3>6
  <2> QED BY <2>1, <2>2
<1> QED BY <1>4, <1>6, <1>7, <1>8, <1>9, <1>10, <1>11, <1>12 DEF RealTimeInv

\* What the type invariants say of an answer and of a quiz's length.
LEMMA OptionsAmount ==
    ASSUME TrackerInv, NEW s, NEW i \in Int
    PROVE  Len(GetQuestion(Tracked(s).quiz, i)) \in Nat
<1> DEFINE quiz == Tracked(s).quiz
<1>1. quiz \in Seq(Question)
  <2>1. CASE s \in DOMAIN tracker
    <3>1. tracker[s].quiz \in Quizzes \cup {NoQuiz}
      BY <2>1, Entries DEF TrackerInv, OngoingQuiz
    <3>2. NoQuiz \in Seq(Question)
      BY DEF NoQuiz
    <3> QED BY <2>1, <3>1, <3>2, QuizzesAssumption DEF Tracked
  <2>2. CASE s \notin DOMAIN tracker
    <3>1. NoQuiz \in Seq(Question)
      BY DEF NoQuiz
    <3> QED BY <2>2, <3>1, ZeroValues DEF Tracked
  <2> QED BY <2>1, <2>2
<1> HIDE DEF quiz
<1>2. GetQuestion(quiz, i) \in Seq(BOOLEAN)
  <2>1. Len(quiz) \in Nat /\ \A k \in 1 .. Len(quiz) : quiz[k] \in Question
    BY <1>1
  <2>2. CASE i < 0 \/ i >= Len(quiz)
    <3>1. NoQuestion \in Seq(BOOLEAN)
      BY DEF NoQuestion
    <3> QED BY <2>2, <3>1 DEF GetQuestion
  <2>3. CASE ~(i < 0 \/ i >= Len(quiz))
    <3>1. i + 1 \in 1 .. Len(quiz)
      BY <2>1, <2>3
    <3>2. quiz[i + 1] \in Question
      BY <2>1, <3>1
    <3> QED BY <2>3, <3>2 DEF GetQuestion, Question
  <2> QED BY <2>2, <2>3
<1> QED BY <1>2 DEF quiz

\* With one start message published there is one session and one loop.
LEMMA OneGame ==
    ASSUME RealTimeInv, published.start <= 1, NEW l \in DOMAIN loops
    PROVE  /\ \A m \in DOMAIN loops : m = l
           /\ loops[l].alone
           /\ \A s \in Sessions : posted[s] # <<>> => s = loops[l].session
           /\ raced = {}
BY DEF RealTimeInv, OneStart, StartsKnown, LoopSessionTracked

\* The answers to the question before are posted, and the loop waits.
LEMMA GetLeaderboardInv ==
    ASSUME RealTimeInv, TrackerInv', NEW l \in DOMAIN loops, GetLeaderboard(l)
    PROVE  RealTimeInv'
<1> DEFINE s == loops[l].session
           q == BoardQuestion(s)
           board == IF s \in DOMAIN answers
                    THEN [u \in DOMAIN answers[s] |-> answers[s][u][q]]
                    ELSE EmptyMap
           options == Len(GetQuestion(Tracked(s).quiz, CurrentIdx(s)))
           request == IF DOMAIN board = {} THEN 0 ELSE Len(posted[s]) + 1
           req == [question |-> q, lost |-> FALSE]
           x1 == [loops[l] EXCEPT !.pc = "posting"]
           x2 == [x1 EXCEPT !.boardQ = q]
           x3 == [x2 EXCEPT !.board = board]
           x4 == [x3 EXCEPT !.options = options]
           x5 == [x4 EXCEPT !.request = request]
<1>1. /\ loops[l].pc = "board"
      /\ loops' = [loops EXCEPT ![l] = x5]
      /\ posted' = IF DOMAIN board = {} THEN posted
                   ELSE [posted EXCEPT ![s] = Append(@, req)]
      /\ UNCHANGED trackerVars
      /\ UNCHANGED <<running, channelOpen, published, created, startQ, endQ,
                     starting, ending, registered, tags, ws, job, crashes,
                     scored>>
  <2>1. /\ loops[l].pc = "board"
        /\ loops' = [loops EXCEPT
              ![l].pc = "posting",
              ![l].boardQ = q,
              ![l].board = board,
              ![l].options = options,
              ![l].request = request]
        /\ posted' = IF DOMAIN board = {} THEN posted
                     ELSE [posted EXCEPT ![s] = Append(@, req)]
        /\ UNCHANGED trackerVars
        /\ UNCHANGED <<running, channelOpen, published, created, startQ, endQ,
                       starting, ending, registered, tags, ws, job, crashes,
                       scored>>
    BY DEF GetLeaderboard, LoopFrame, brokerVars, handlerVars
  <2> HIDE DEF q, board, options, request, req
  <2> QED BY <2>1
<1>2. /\ loops[l] \in Loop /\ s \in Sessions /\ s \in DOMAIN tracker
      /\ loops[l].qid \in Int /\ loops[l].qid > 0
      /\ CurrentIdx(s) = tracker[s].idx
      /\ CurrentIdx(s) \in Int /\ CurrentIdx(s) >= 0
      /\ Len(tracker[s].quiz) > 0 /\ Len(tracker[s].quiz) \in Nat
      /\ loops[l].alone => loops[l].qid = CurrentIdx(s)
  BY <1>1, LoopTypes, Entries
     DEF RealTimeInv, LoopSessionTracked, ScoringIndex, AloneLoops,
         BoardStands, TrackerInv, CurrentIdx, Tracked
<1>3. /\ q \in 0 .. (Len(tracker[s].quiz) - 1)
      /\ CurrentIdx(s) > 0 => q = CurrentIdx(s) - 1
  <2>1. CASE CurrentIdx(s) > 0
    BY <1>2, <2>1, OpenIndex DEF BoardQuestion, RealTimeInv
  <2>2. CASE ~(CurrentIdx(s) > 0)
    BY <1>2, <2>2 DEF BoardQuestion
  <2> QED BY <2>1, <2>2
<1>4. /\ board \in UNION {[U -> Answer] : U \in SUBSET Users}
      /\ \A u \in DOMAIN board : /\ s \in DOMAIN answers
                                 /\ u \in DOMAIN answers[s]
                                 /\ board[u] = answers[s][u][q]
  <2>1. CASE s \in DOMAIN answers
    <3>1. DOMAIN answers[s] \in SUBSET Users
      BY <2>1 DEF RealTimeInv, TrackerInv, TrackerTypeOK
    <3>2. \A u \in DOMAIN answers[s] : answers[s][u][q] \in Answer
      BY <1>3, <2>1 DEF RealTimeInv, TrackerInv, AnswersSized
    <3> HIDE DEF q
    <3>3. board \in [DOMAIN answers[s] -> Answer]
      BY <2>1, <3>2
    <3> QED BY <2>1, <3>1, <3>3
  <2>2. CASE s \notin DOMAIN answers
    BY <2>2, EmptyBoard DEF EmptyMap
  <2> QED BY <2>1, <2>2
<1>5. /\ options \in Nat /\ request \in Nat /\ Len(posted[s]) \in Nat
      /\ DOMAIN board = {} => request = 0
      /\ DOMAIN board # {} => request = Len(posted[s]) + 1
  <2>1. options \in Nat
    BY <1>2, OptionsAmount DEF RealTimeInv
  <2>2. Len(posted[s]) \in Nat
    BY <1>2, RequestTypes DEF RealTimeInv
  <2> QED BY <2>1, <2>2
<1>6. req \in Request /\ req.question = q /\ q \in Int
  BY <1>2, <1>3 DEF Request
<1> DEFINE Boards == UNION {[U -> Answer] : U \in SUBSET Users}
<1>7. board \in Boards
  BY <1>4
<1>8. Loop = [session : Sessions,
              pc : {"starting", "bound", "idle", "incrementing", "advanced",
                    "board", "posting", "stat", "payload", "hung"},
              subscribed : BOOLEAN, pending : Nat, qid : Int, boardQ : Int,
              board : Boards, options : Nat, request : Nat,
              alone : BOOLEAN]
  BY DEF Loop
<1> HIDE DEF q, board, options, request, req, Boards
<1>9. /\ x1 \in Loop /\ x1.pc = "posting" /\ x1.session = s
      /\ x1.alone = loops[l].alone /\ x1.qid = loops[l].qid
  BY <1>2, <1>8
<1> HIDE DEF x1
<1>10. /\ x2 \in Loop /\ x2.pc = "posting" /\ x2.session = s
       /\ x2.alone = loops[l].alone /\ x2.qid = loops[l].qid
       /\ x2.boardQ = q
  BY <1>6, <1>8, <1>9
<1> HIDE DEF x2
<1>11. /\ x3 \in Loop /\ x3.pc = "posting" /\ x3.session = s
       /\ x3.alone = loops[l].alone /\ x3.qid = loops[l].qid
       /\ x3.boardQ = q /\ x3.board = board
  BY <1>7, <1>8, <1>10
<1> HIDE DEF x3
<1>12. /\ x4 \in Loop /\ x4.pc = "posting" /\ x4.session = s
       /\ x4.alone = loops[l].alone /\ x4.qid = loops[l].qid
       /\ x4.boardQ = q /\ x4.board = board
  BY <1>5, <1>8, <1>11
<1> HIDE DEF x4
<1>13. /\ x5 \in Loop /\ x5.pc = "posting" /\ x5.session = s
       /\ x5.alone = loops[l].alone /\ x5.qid = loops[l].qid
       /\ x5.boardQ = q /\ x5.board = board /\ x5.request = request
  BY <1>5, <1>8, <1>12
<1> HIDE DEF x5
<1>14. OnlyMoves(l) /\ loops'[l] = x5 /\ IsMap(loops', Loops, Loop)
  BY <1>1, <1>13, OneLoop DEF RealTimeInv
<1> HIDE DEF s
<1>15. /\ posted' \in [Sessions -> Seq(Request)]
       /\ \A t \in Sessions : t # s => posted'[t] = posted[t]
       /\ DOMAIN board = {} => posted' = posted
       /\ DOMAIN board # {} =>
             /\ Len(posted'[s]) = Len(posted[s]) + 1
             /\ DOMAIN posted'[s] = 1 .. (Len(posted[s]) + 1)
             /\ posted'[s][Len(posted[s]) + 1] = req
       /\ DOMAIN posted[s] = 1 .. Len(posted[s])
       /\ \A i \in DOMAIN posted[s] : posted'[s][i] = posted[s][i]
  <2>1. posted \in [Sessions -> Seq(Request)] /\ posted[s] \in Seq(Request)
    BY <1>2 DEF RealTimeInv, TypeOK
  <2>2. CASE DOMAIN board = {}
    BY <1>1, <2>1, <2>2
  <2>3. CASE DOMAIN board # {}
    <3>1. /\ posted' = [posted EXCEPT ![s] = Append(posted[s], req)]
          /\ posted'[s] = Append(posted[s], req)
      BY <1>1, <1>2, <2>1, <2>3
    <3>2. posted'[s] \in Seq(Request)
      BY <1>6, <2>1, <3>1
    <3>3. posted' \in [Sessions -> Seq(Request)]
      BY <2>1, <3>1, <3>2
    <3> QED BY <1>6, <2>1, <2>3, <3>1, <3>3
  <2> QED BY <2>2, <2>3
<1>16. TypeOK'
  BY <1>1, <1>14, <1>15 DEF RealTimeInv, TypeOK, IsMap
<1>17. LoopStands(l)
  BY <1>2, <1>3, <1>4, <1>13, <1>14 DEF LoopStands, Scoring, Tracked, s
<1>18. /\ \A t \in Sessions : \A i \in DOMAIN posted[t] :
             i \in DOMAIN posted'[t] /\ posted'[t][i] = posted[t][i]
       /\ \A t \in Sessions : posted'[t] # <<>> => posted[t] # <<>> \/ t = s
  <2>1. \A i \in DOMAIN posted[s] : i \in DOMAIN posted'[s]
    <3>1. CASE DOMAIN board = {}
      BY <1>15, <3>1
    <3>2. CASE DOMAIN board # {}
      BY <1>5, <1>15, <3>2
    <3> QED BY <3>1, <3>2
  <2> QED BY <1>15, <2>1
<1>19. ScoredOnce' /\ LateAreLost'
  <2>1. \A t \in Sessions : \A i \in DOMAIN scored[t] :
           /\ scored[t][i] \in DOMAIN posted'[t]
           /\ posted'[t][scored[t][i]] = posted[t][scored[t][i]]
    BY <1>18 DEF RealTimeInv, ScoredOnce
  <2>2. ScoredOnce'
    BY <1>1, <2>1 DEF RealTimeInv, ScoredOnce
  <2>3. LateAreLost'
    <3> SUFFICES ASSUME crashes = 0, published.start <= 1, NEW t \in Sessions,
                        NEW i \in DOMAIN scored[t], NEW j \in DOMAIN scored[t],
                        i < j, scored[t][i] > scored[t][j]
                 PROVE  posted'[t][scored[t][j]].lost
      BY <1>1 DEF LateAreLost
    <3>1. posted[t][scored[t][j]].lost
      BY DEF RealTimeInv, LateAreLost
    <3> QED BY <2>1, <3>1
  <2> QED BY <2>2, <2>3
<1>20. PostedInOrder'
  <2> SUFFICES ASSUME crashes = 0, published.start <= 1,
                      NEW t \in Sessions, posted'[t] # <<>>
               PROVE  /\ running
                      /\ CurrentIdx(t) >= 1
                      /\ \A i \in DOMAIN posted'[t] :
                            /\ posted'[t][i].question < CurrentIdx(t)
                            /\ \/ Scored(t, i) \/ posted'[t][i].lost
                               \/ Awaited(t, i)'
                      /\ \A i, j \in DOMAIN posted'[t] : i < j =>
                            \/ posted'[t][i].question < posted'[t][j].question
                            \/ /\ posted'[t][i].question = posted'[t][j].question
                               /\ posted'[t][i].question = Len(tracker[t].quiz) - 2
                      /\ \A m \in DOMAIN loops' :
                            /\ loops'[m].pc = "posting" =>
                                  loops'[m].request \in {0, Len(posted'[t])}
                            /\ ~Moved(m)'
    BY <1>1 DEF PostedInOrder, trackerVars, CurrentIdx, Scored
  <2>1. /\ \A m \in DOMAIN loops : m = l
        /\ loops[l].alone
        /\ t = s
    BY <1>18, OneGame DEF s
  <2>2. DOMAIN loops' = {l}
    BY <1>14, <2>1 DEF OnlyMoves
  <2>3. /\ running /\ CurrentIdx(s) >= 1 /\ q = CurrentIdx(s) - 1
        /\ CurrentIdx(s) \in 1 .. (Len(tracker[s].quiz) - 1)
    <3>1. running
      BY RunningLoop DEF RealTimeInv
    <3>2. CurrentIdx(s) > 0
      BY <1>2, <2>1
    <3> QED BY <1>2, <1>3, <3>1, <3>2, OpenIndex DEF RealTimeInv
  <2>4. \A i \in DOMAIN posted[s] :
           /\ posted[s][i].question \in Int
           /\ posted[s][i].question < CurrentIdx(s)
           /\ Scored(s, i) \/ posted[s][i].lost
           /\ \/ posted[s][i].question < CurrentIdx(s) - 1
              \/ CurrentIdx(s) = Len(tracker[s].quiz) - 1
    <3> SUFFICES ASSUME NEW i \in DOMAIN posted[s]
                 PROVE  /\ posted[s][i].question \in Int
                        /\ posted[s][i].question < CurrentIdx(s)
                        /\ Scored(s, i) \/ posted[s][i].lost
                        /\ \/ posted[s][i].question < CurrentIdx(s) - 1
                           \/ CurrentIdx(s) = Len(tracker[s].quiz) - 1
      OBVIOUS
    <3>1. posted[s] # <<>>
      OBVIOUS
    <3>2. ~Awaited(s, i) /\ Moved(l)
      BY <1>1, <2>1 DEF Awaited, Moved
    <3>3. posted[s][i].question \in Int
      BY <1>2, RequestTypes DEF RealTimeInv
    <3> QED BY <1>2, <3>1, <3>2, <3>3 DEF RealTimeInv, PostedInOrder
  <2>5. \A i, j \in DOMAIN posted[s] : i < j =>
           \/ posted[s][i].question < posted[s][j].question
           \/ /\ posted[s][i].question = posted[s][j].question
              /\ posted[s][i].question = Len(tracker[s].quiz) - 2
    <3>1. posted[s] # <<>> \/ DOMAIN posted[s] = {}
      OBVIOUS
    <3> QED BY <1>2, <3>1 DEF RealTimeInv, PostedInOrder
  <2>6. ~Moved(l)'
    BY <1>13, <1>14 DEF Moved
  <2>7. CASE DOMAIN board = {}
    <3>1. posted' = posted /\ loops'[l].request = 0
      BY <1>5, <1>13, <1>14, <1>15, <2>7
    <3> QED BY <2>1, <2>2, <2>3, <2>4, <2>5, <2>6, <3>1
  <2>8. CASE DOMAIN board # {}
    <3>1. PICK k \in Nat :
             /\ DOMAIN posted'[s] = 1 .. k /\ Len(posted'[s]) = k
             /\ loops'[l].request = k /\ posted'[s][k].question = q
             /\ DOMAIN posted[s] = 1 .. (k - 1)
             /\ \A i \in DOMAIN posted[s] : posted'[s][i] = posted[s][i]
      <4>1. Len(posted[s]) + 1 \in Nat
        BY <1>5
      <4>2. Len(posted[s]) = (Len(posted[s]) + 1) - 1
        BY <1>5
      <4> QED BY <1>5, <1>6, <1>13, <1>14, <1>15, <2>8, <4>1, <4>2
    <3>2. \A i \in DOMAIN posted'[s] : i = k \/ i \in DOMAIN posted[s]
      BY <3>1
    <3>3. Awaited(t, k)'
      <4>1. loops'[l].session = t /\ loops'[l].pc = "posting"
        BY <1>13, <1>14, <2>1
      <4> QED BY <2>2, <3>1, <4>1 DEF Awaited
    <3>4. ASSUME NEW i \in DOMAIN posted'[s]
          PROVE  /\ posted'[s][i].question < CurrentIdx(s)
                 /\ Scored(s, i) \/ posted'[s][i].lost \/ Awaited(t, i)'
      <4>1. CASE i = k
        BY <1>2, <2>3, <3>1, <3>3, <4>1
      <4>2. CASE i \in DOMAIN posted[s]
        BY <2>4, <3>1, <4>2
      <4> QED BY <3>2, <4>1, <4>2
    <3>5. ASSUME NEW i \in DOMAIN posted'[s], NEW j \in DOMAIN posted'[s], i < j
          PROVE  \/ posted'[s][i].question < posted'[s][j].question
                 \/ /\ posted'[s][i].question = posted'[s][j].question
                    /\ posted'[s][i].question = Len(tracker[s].quiz) - 2
      <4>1. i \in DOMAIN posted[s] /\ posted'[s][i] = posted[s][i]
        BY <3>1, <3>5
      <4>2. CASE j = k
        <5>1. posted'[s][j].question = CurrentIdx(s) - 1
          BY <2>3, <3>1, <4>2
        <5>2. /\ posted'[s][i].question \in Int
              /\ posted'[s][i].question < CurrentIdx(s)
              /\ \/ posted'[s][i].question < CurrentIdx(s) - 1
                 \/ CurrentIdx(s) = Len(tracker[s].quiz) - 1
          BY <2>4, <4>1
        <5>3. CurrentIdx(s) \in Int /\ Len(tracker[s].quiz) \in Nat
          BY <1>2
        <5> QED BY <5>1, <5>2, <5>3
      <4>3. CASE j # k
        <5>1. j \in DOMAIN posted[s]
          BY <3>2, <4>3
        <5> QED BY <2>5, <3>1, <3>5, <4>1, <5>1
      <4> QED BY <4>2, <4>3
    <3> QED BY <2>1, <2>2, <2>3, <2>6, <3>1, <3>4, <3>5
  <2> QED BY <2>7, <2>8
<1> QED BY <1>1, <1>13, <1>14, <1>16, <1>17, <1>18, <1>19, <1>20, LoopMovesInv
        DEF s

-----------------------------------------------------------------------------
(* ConsumeQuestionStart: steps of IncQuestionIdx.                          *)

\* The index is refused to move: it is at the last question, so that the next
\* request may only score the last but one again.
LEMMA RefusedInv ==
    ASSUME RealTimeInv, TrackerInv', NEW l \in DOMAIN loops, NextTrigger(l),
           ~CanAdvance(loops[l].session), UNCHANGED trackerVars
    PROVE  RealTimeInv'
<1> DEFINE x == [loops[l] EXCEPT !.pc = "advanced",
                                 !.pending = loops[l].pending - 1]
<1>1. /\ loops[l].pc = "idle" /\ loops[l].pending > 0
      /\ loops' = [loops EXCEPT ![l] = x]
      /\ UNCHANGED <<running, channelOpen, published, created, startQ, endQ,
                     starting, ending, registered, tags, ws, job, crashes,
                     posted, scored>>
  BY DEF NextTrigger, IncReads, LoopFrame, brokerVars, handlerVars, lbVars
<1>2. /\ x \in Loop /\ x.pc = "advanced"
      /\ x.session = loops[l].session /\ x.alone = loops[l].alone
  <2>1. loops[l] \in Loop /\ loops[l].pending - 1 \in Nat
    BY <1>1, LoopTypes DEF RealTimeInv
  <2> QED BY <2>1 DEF Loop
<1> HIDE DEF x
<1>3. OnlyMoves(l) /\ loops'[l] = x /\ IsMap(loops', Loops, Loop)
  BY <1>1, <1>2, OneLoop DEF RealTimeInv
<1>4. TypeOK'
  BY <1>1, <1>3 DEF RealTimeInv, TypeOK, IsMap
<1>5. LoopStands(l)
  BY <1>2, <1>3 DEF LoopStands, Scoring
<1>6. ScoredOnce' /\ LateAreLost'
  BY <1>1 DEF RealTimeInv, ScoredOnce, LateAreLost
<1>7. PostedInOrder'
  <2> SUFFICES ASSUME crashes = 0, published.start <= 1,
                      NEW s \in Sessions, posted[s] # <<>>
               PROVE  /\ \A i \in DOMAIN posted[s] : Awaited(s, i) => Awaited(s, i)'
                      /\ \A m \in DOMAIN loops' :
                            /\ loops'[m].pc = "posting" =>
                                  loops[m].pc = "posting" /\ loops'[m] = loops[m]
                            /\ Moved(m)' =>
                                  \/ Moved(m)
                                  \/ CurrentIdx(s) = Len(tracker[s].quiz) - 1
    BY <1>1, <1>3 DEF RealTimeInv, PostedInOrder, trackerVars, CurrentIdx,
                      Scored, OnlyMoves
  <2>1. \A i \in DOMAIN posted[s] : Awaited(s, i) => Awaited(s, i)'
    BY <1>1, <1>3 DEF Awaited, OnlyMoves
  <2>2. \A m \in DOMAIN loops' :
           /\ loops'[m].pc = "posting" =>
                 loops[m].pc = "posting" /\ loops'[m] = loops[m]
           /\ Moved(m)' => Moved(m) \/ m = l
    BY <1>2, <1>3 DEF OnlyMoves, Moved, trackerVars
  <2>3. CurrentIdx(s) = Len(tracker[s].quiz) - 1
    <3>1. s = loops[l].session
      BY OneGame
    <3>2. CurrentIdx(s) >= 1
      BY DEF RealTimeInv, PostedInOrder
    <3>3. s \in DOMAIN tracker /\ CurrentIdx(s) = tracker[s].idx
      BY <3>2 DEF CurrentIdx
    <3>4. /\ tracker[s].idx \in 1 .. (Len(tracker[s].quiz) - 1)
          /\ Len(tracker[s].quiz) \in Nat
      <4>1. CurrentIdx(s) > 0
        BY <3>2, <3>3, Entries DEF RealTimeInv, TrackerInv
      <4> QED BY <3>3, <4>1, OpenIndex DEF RealTimeInv
    <3> QED BY <3>1, <3>3, <3>4 DEF CanAdvance
  <2> QED BY <2>1, <2>2, <2>3
<1> QED BY <1>1, <1>2, <1>3, <1>4, <1>5, <1>6, <1>7, LoopMovesInv

\* IncQuestionIdx reads the index it will move.
LEMMA IncrementBeginsInv ==
    ASSUME RealTimeInv, TrackerInv', NEW l \in DOMAIN loops, NextTrigger(l),
           IncReads(l, loops[l].session)
    PROVE  RealTimeInv'
<1> DEFINE s == loops[l].session
           x == [loops[l] EXCEPT !.pc = "incrementing",
                                 !.pending = loops[l].pending - 1]
<1>1. /\ loops[l].pc = "idle" /\ loops[l].pending > 0
      /\ loops' = [loops EXCEPT ![l] = x]
      /\ UNCHANGED <<running, channelOpen, published, created, startQ, endQ,
                     starting, ending, registered, tags, ws, job, crashes,
                     posted, scored>>
  BY DEF NextTrigger, IncReads, LoopFrame, brokerVars, handlerVars, lbVars
<1>2. /\ x \in Loop /\ x.pc = "incrementing" /\ l \in Loops /\ s \in Sessions
      /\ x.session = loops[l].session /\ x.alone = loops[l].alone
  <2>1. loops[l] \in Loop /\ loops[l].pending - 1 \in Nat
    BY <1>1, LoopTypes DEF RealTimeInv
  <2>2. l \in Loops /\ s \in Sessions
    BY LoopTypes DEF RealTimeInv
  <2> QED BY <2>1, <2>2 DEF Loop
<1> HIDE DEF x
<1>3. OnlyMoves(l) /\ loops'[l] = x /\ IsMap(loops', Loops, Loop)
  BY <1>1, <1>2, OneLoop DEF RealTimeInv
<1>4. TypeOK'
  BY <1>1, <1>3 DEF RealTimeInv, TypeOK, IsMap
<1>5. /\ Grows /\ IndexKept /\ NothingNew
      /\ UNCHANGED <<tracker, answers, quizState, recording>>
      /\ DOMAIN inc' = DOMAIN inc \cup {l}
      /\ inc'[l].session = s /\ inc'[l].pc = "write"
      /\ \A m \in DOMAIN inc : inc'[m] = inc[m]
      /\ CallsOf(s) = {} => raced' = raced
  BY <1>2, IncReadsGrows DEF RealTimeInv
<1>6. running
  BY RunningLoop DEF RealTimeInv
<1>7. DOMAIN inc = {m \in DOMAIN loops : loops[m].pc = "incrementing"}
  BY <1>6 DEF RealTimeInv, IncrementingLoops
<1>8. SameLoops /\ SameScoring /\ OpenersStay /\ SameRequests /\ NoneMoves
  <2>1. SameLoops /\ SameScoring /\ OpenersStay /\ SameRequests
    BY <1>1, <1>2, <1>3 DEF OnlyMoves, SameLoops, SameScoring, SameScoringOf,
                            OpenersStay, SameRequests, Scoring, Openers
  <2>2. NoneMoves
    <3> SUFFICES ASSUME NEW m \in DOMAIN loops', Moved(m)'
                 PROVE  Moved(m)
      BY DEF NoneMoves
    <3>1. m # l
      BY <1>2, <1>3, <1>5 DEF Moved
    <3>2. loops'[m] = loops[m] /\ m \in DOMAIN loops
      BY <1>3, <3>1 DEF OnlyMoves
    <3>3. loops[m].pc = "incrementing" => inc'[m] = inc[m]
      BY <1>5, <1>7, <3>2
    <3> QED BY <3>2, <3>3 DEF Moved
  <2> QED BY <2>1, <2>2
<1>9. DownIsEmpty' /\ RecordingStands'
  <2>1. DownIsEmpty'
    BY <1>1, <1>6 DEF DownIsEmpty
  <2> QED BY <1>1, <1>5, <1>8, <2>1, RecordingKept
<1>10. IncrementingLoops'
  <2>1. DOMAIN inc' = {m \in DOMAIN loops' : loops'[m].pc = "incrementing"}
    BY <1>2, <1>3, <1>5, <1>7 DEF OnlyMoves
  <2>2. \A m \in DOMAIN inc' : inc'[m].session = loops'[m].session
    <3>1. \A m \in DOMAIN inc : inc[m].session = loops[m].session
      BY <1>6 DEF RealTimeInv, IncrementingLoops
    <3> QED BY <1>5, <1>8, <2>1, <3>1 DEF SameLoops
  <2> QED BY <2>1, <2>2 DEF IncrementingLoops
<1>11. LoopSessionTracked' /\ ScoringIndex' /\ AloneLoops'
  BY <1>5, <1>8, LoopsKept
     DEF IndexKept, RealTimeInv, LoopSessionTracked, SameLoops
<1>12. AnsweringHasArray'
  BY <1>1, <1>5, ArraysKept DEF RealTimeInv
<1>13. StartsKnown' /\ OneStart'
  <2>1. published.start <= 1 => raced' = {}
    <3>1. published.start <= 1 => DOMAIN inc = {}
      BY <1>1, <1>7, OneGame
    <3> QED BY <1>5, <3>1, OneGame DEF CallsOf
  <2> QED BY <1>1, <1>5, <1>8, <2>1, StartsKept
<1>14. ScoredOnce' /\ PostedInOrder' /\ LateAreLost'
  BY <1>1, <1>5, <1>8, ScoresKept
<1> QED BY <1>4, <1>9, <1>10, <1>11, <1>12, <1>13, <1>14 DEF RealTimeInv

\* A trigger is taken.
LEMMA NextTriggerInv ==
    ASSUME RealTimeInv, TrackerInv', NEW l \in DOMAIN loops, NextTrigger(l)
    PROVE  RealTimeInv'
BY RefusedInv, IncrementBeginsInv DEF NextTrigger

\* IncQuestionIdx moves the index: only the loop that does it may have been
\* alone with the game, and it is not scoring.
LEMMA IncrementWritesInv ==
    ASSUME RealTimeInv, TrackerInv', NEW l \in DOMAIN loops, Increment(l),
           IncWrites(l)
    PROVE  RealTimeInv'
<1>1. /\ loops[l].pc = "incrementing" /\ running
      /\ l \in DOMAIN inc /\ inc[l].session = loops[l].session
      /\ UNCHANGED <<running, channelOpen, published, created, startQ, endQ,
                     starting, ending, registered, tags, ws, job, crashes,
                     posted, scored>>
  BY RunningLoop DEF RealTimeInv, IncrementingLoops, Increment, LoopFrame,
                     brokerVars, handlerVars, lbVars
<1>2. PICK s : s = loops[l].session
  OBVIOUS
<1>3. /\ Grows /\ NothingNew /\ s \in DOMAIN tracker
      /\ \A t \in DOMAIN tracker : t # s => tracker'[t].idx = tracker[t].idx
      /\ s \notin raced => tracker'[s].idx = tracker[s].idx + 1
      /\ UNCHANGED <<answers, quizState, recording, raced>>
      /\ DOMAIN inc' = DOMAIN inc
      /\ \A m \in DOMAIN inc : inc'[m].session = inc[m].session
      /\ inc[l].pc = "write"
      /\ \A m \in DOMAIN inc : m # l => inc'[m] = inc[m]
  BY <1>1, <1>2, IncWritesGrows DEF RealTimeInv
<1>4. loops' = loops
  BY <1>1, <1>3 DEF Increment
<1>5. SameLoops /\ SameScoring
  BY <1>4 DEF SameLoops, SameScoring, SameScoringOf
<1>6. TypeOK'
  BY <1>1, <1>4 DEF RealTimeInv, TypeOK, IsMap
<1>7. DownIsEmpty' /\ IncrementingLoops'
  BY <1>1, <1>3, <1>4 DEF RealTimeInv, DownIsEmpty, IncrementingLoops
<1>8. RecordingStands'
  <2> SUFFICES ASSUME NEW r \in recording
               PROVE  \/ r.qid >= CurrentIdx(r.session)'
                      \/ Opening(r.session)'
    BY <1>3 DEF RecordingStands
  <2>1. \/ r.qid >= CurrentIdx(r.session)
        \/ Opening(r.session)
    BY <1>1 DEF RealTimeInv, RecordingStands
  <2>2. Opening(r.session)' <=> Opening(r.session)
    BY <1>4 DEF Opening
  <2>3. CASE r.session = s
    BY <1>1, <1>2, <2>2, <2>3 DEF Opening
  <2>4. CASE r.session # s
    <3>1. r.session \in DOMAIN tracker
      BY DEF RealTimeInv, TrackerInv, RecordingFits, AnswersSized
    <3>2. CurrentIdx(r.session)' = CurrentIdx(r.session)
      BY <1>3, <2>4, <3>1 DEF Grows, CurrentIdx
    <3> QED BY <2>1, <2>2, <3>2
  <2> QED BY <2>3, <2>4
<1>9. LoopSessionTracked' /\ ScoringIndex' /\ AloneLoops'
  <2>1. ASSUME NEW m \in DOMAIN loops', loops[m].alone, loops'[m].pc \in Scoring
        PROVE  tracker'[loops[m].session].idx = tracker[loops[m].session].idx
    <3>1. m # l
      BY <1>1, <1>4, <2>1 DEF Scoring
    <3>2. loops[m].session # s /\ loops[m].session \in DOMAIN tracker
      BY <1>2, <1>4, <2>1, <3>1 DEF RealTimeInv, AloneLoops, LoopSessionTracked
    <3> QED BY <1>3, <3>2
  <2> QED BY <1>3, <1>5, <2>1, LoopsKept
<1>10. AnsweringHasArray'
  BY <1>1, <1>3, ArraysKept DEF RealTimeInv
<1>11. StartsKnown' /\ OneStart'
  BY <1>1, <1>3, <1>5, StartsKept, OneGame
<1>12. ScoredOnce' /\ LateAreLost'
  BY <1>1 DEF RealTimeInv, ScoredOnce, LateAreLost
<1>13. PostedInOrder'
  <2> SUFFICES ASSUME crashes = 0, published.start <= 1,
                      NEW t \in Sessions, posted[t] # <<>>
               PROVE  /\ CurrentIdx(t)' >= 1
                      /\ \A i \in DOMAIN posted[t] :
                            /\ posted[t][i].question < CurrentIdx(t)'
                            /\ \/ Scored(t, i) \/ posted[t][i].lost
                               \/ Awaited(t, i)
                      /\ \A i, j \in DOMAIN posted[t] : i < j =>
                            \/ posted[t][i].question < posted[t][j].question
                            \/ /\ posted[t][i].question = posted[t][j].question
                               /\ posted[t][i].question = Len(tracker'[t].quiz) - 2
                      /\ \A m \in DOMAIN loops :
                            /\ loops[m].pc = "posting" =>
                                  loops[m].request \in {0, Len(posted[t])}
                            /\ \A i \in DOMAIN posted[t] :
                                  posted[t][i].question < CurrentIdx(t)' - 1
    BY <1>1, <1>4 DEF PostedInOrder, Scored, Awaited
  <2>1. /\ CurrentIdx(t) >= 1
        /\ \A i \in DOMAIN posted[t] :
              /\ posted[t][i].question < CurrentIdx(t)
              /\ Scored(t, i) \/ posted[t][i].lost \/ Awaited(t, i)
        /\ \A i, j \in DOMAIN posted[t] : i < j =>
              \/ posted[t][i].question < posted[t][j].question
              \/ /\ posted[t][i].question = posted[t][j].question
                 /\ posted[t][i].question = Len(tracker[t].quiz) - 2
        /\ \A m \in DOMAIN loops : loops[m].pc = "posting" =>
              loops[m].request \in {0, Len(posted[t])}
    BY DEF RealTimeInv, PostedInOrder
  <2>2. t = s /\ s \notin raced
    BY <1>2, OneGame
  <2>3. /\ CurrentIdx(t)' = CurrentIdx(t) + 1
        /\ CurrentIdx(t) \in Int
        /\ tracker'[t].quiz = tracker[t].quiz
    BY <1>3, <2>2, Entries DEF RealTimeInv, TrackerInv, CurrentIdx, Grows
  <2>4. \A i \in DOMAIN posted[t] : posted[t][i].question \in Int
    BY RequestTypes DEF RealTimeInv
  <2> QED BY <2>1, <2>3, <2>4
<1> QED BY <1>6, <1>7, <1>8, <1>9, <1>10, <1>11, <1>12, <1>13 DEF RealTimeInv

\* IncQuestionIdx has the cache read and write its copy, and returns.
LEMMA IncrementSavesInv ==
    ASSUME RealTimeInv, TrackerInv', NEW l \in DOMAIN loops, Increment(l),
           IncGets(l) \/ IncSets(l)
    PROVE  RealTimeInv'
<1> DEFINE x == [loops[l] EXCEPT !.pc = "advanced"]
<1>1. /\ loops[l].pc = "incrementing" /\ running
      /\ DOMAIN inc = {m \in DOMAIN loops : loops[m].pc = "incrementing"}
      /\ \A m \in DOMAIN inc : inc[m].session = loops[m].session
      /\ l \in DOMAIN inc
      /\ loops' = IF l \in DOMAIN inc' THEN loops ELSE [loops EXCEPT ![l] = x]
      /\ UNCHANGED <<running, channelOpen, published, created, startQ, endQ,
                     starting, ending, registered, tags, ws, job, crashes,
                     posted, scored>>
  BY RunningLoop DEF RealTimeInv, IncrementingLoops, Increment, LoopFrame,
                     brokerVars, handlerVars, lbVars
<1>2. /\ Grows /\ IndexKept /\ NothingNew
      /\ UNCHANGED <<tracker, answers, recording, raced>>
      /\ DOMAIN inc' \subseteq DOMAIN inc
      /\ DOMAIN inc \subseteq DOMAIN inc' \cup {l}
      /\ \A m \in DOMAIN inc' : inc'[m].session = inc[m].session
      /\ \A m \in DOMAIN inc : m # l => inc'[m] = inc[m]
      /\ inc[l].pc # "write"
  BY <1>1, IncSavesGrows DEF RealTimeInv
<1>3. /\ x \in Loop /\ x.pc = "advanced"
      /\ x.session = loops[l].session /\ x.alone = loops[l].alone
  <2>1. loops[l] \in Loop
    BY LoopTypes DEF RealTimeInv
  <2> QED BY <2>1 DEF Loop
<1> HIDE DEF x
<1>4. /\ OnlyMoves(l) /\ IsMap(loops', Loops, Loop)
      /\ loops'[l].pc = IF l \in DOMAIN inc' THEN "incrementing" ELSE "advanced"
  <2>1. CASE l \in DOMAIN inc'
    <3>1. IsMap(loops, Loops, Loop) /\ loops' = loops /\ loops[l] \in Loop
      BY <1>1, <2>1, LoopTypes DEF RealTimeInv, TypeOK
    <3> QED BY <1>1, <2>1, <3>1 DEF OnlyMoves, IsMap
  <2>2. CASE l \notin DOMAIN inc'
    BY <1>1, <1>3, <2>2, OneLoop DEF RealTimeInv
  <2> QED BY <2>1, <2>2
<1>5. TypeOK'
  BY <1>1, <1>4 DEF RealTimeInv, TypeOK, IsMap
<1>6. SameLoops /\ SameScoring /\ OpenersStay /\ SameRequests /\ NoneMoves
  <2>1. SameLoops /\ SameScoring /\ OpenersStay /\ SameRequests
    BY <1>1, <1>4 DEF OnlyMoves, SameLoops, SameScoring, SameScoringOf,
                      OpenersStay, SameRequests, Scoring, Openers
  <2>2. NoneMoves
    <3> SUFFICES ASSUME NEW m \in DOMAIN loops', m # l, Moved(m)'
                 PROVE  Moved(m)
      BY <1>1, <1>2 DEF NoneMoves, Moved
    <3>1. loops'[m] = loops[m] /\ m \in DOMAIN loops
      BY <1>4 DEF OnlyMoves
    <3>2. loops[m].pc = "incrementing" => inc'[m] = inc[m]
      BY <1>1, <1>2, <3>1
    <3> QED BY <3>1, <3>2 DEF Moved
  <2> QED BY <2>1, <2>2
<1>7. DownIsEmpty' /\ RecordingStands'
  <2>1. DownIsEmpty'
    BY <1>1 DEF DownIsEmpty
  <2> QED BY <1>1, <1>2, <1>6, <2>1, RecordingKept
<1>8. IncrementingLoops'
  <2>1. DOMAIN inc' = {m \in DOMAIN loops' : loops'[m].pc = "incrementing"}
    <3>1. /\ DOMAIN loops' = DOMAIN loops
          /\ \A m \in DOMAIN loops : m # l => loops'[m] = loops[m]
      BY <1>4 DEF OnlyMoves
    <3>2. CASE l \in DOMAIN inc'
      <4>1. DOMAIN inc' = DOMAIN inc
        BY <1>2, <3>2
      <4> QED BY <1>1, <1>4, <3>1, <3>2, <4>1
    <3>3. CASE l \notin DOMAIN inc'
      <4>1. DOMAIN inc' = (DOMAIN inc) \ {l} /\ loops'[l].pc = "advanced"
        BY <1>2, <1>4, <3>3
      <4> QED BY <1>1, <3>1, <4>1
    <3> QED BY <3>2, <3>3
  <2> QED BY <1>1, <1>2, <1>6, <2>1 DEF IncrementingLoops, SameLoops
<1>9. LoopSessionTracked' /\ ScoringIndex' /\ AloneLoops'
  BY <1>2, <1>6, LoopsKept
     DEF IndexKept, RealTimeInv, LoopSessionTracked, SameLoops
<1>10. AnsweringHasArray'
  BY <1>1, <1>2, ArraysKept DEF RealTimeInv
<1>11. StartsKnown' /\ OneStart'
  BY <1>1, <1>2, <1>6, StartsKept, OneGame
<1>12. ScoredOnce' /\ PostedInOrder' /\ LateAreLost'
  BY <1>1, <1>2, <1>6, ScoresKept
<1> QED BY <1>5, <1>7, <1>8, <1>9, <1>10, <1>11, <1>12 DEF RealTimeInv

\* Every step of a loop keeps the invariant.
LEMMA LoopStepInv ==
    ASSUME RealTimeInv, TrackerInv', NEW l \in DOMAIN loops, LoopStep(l)
    PROVE  RealTimeInv'
<1>1. CASE Increment(l)
  BY <1>1, IncrementWritesInv, IncrementSavesInv DEF Increment, IncContinues
<1>2. CASE ~Increment(l)
  BY <1>2, BindQueueInv, BindFailsInv, StoreTagInv, NextTriggerInv,
     ReadQuestionInv, GetLeaderboardInv, BoardReceivedInv, BoardFailsInv,
     SendStatInv, SendPayloadInv, SendHangsInv, LoopEndsInv DEF LoopStep
<1> QED BY <1>1, <1>2

-----------------------------------------------------------------------------
(* Connections and answers.                                                *)

\* A step of a connection: it only begins to be read with an array in place.
LEMMA WsStepInv ==
    ASSUME RealTimeInv, TrackerInv', NEW s \in Sessions, NEW u \in Users,
           WsStep(s, u)
    PROVE  RealTimeInv'
<1>1. /\ registered' \subseteq registered \cup {s}
      /\ UNCHANGED <<running, channelOpen, published, created, startQ, endQ,
                     starting, ending, tags, loops, job, crashes, posted,
                     scored>>
  BY DEF WsStep, OpenConnection, RegisterConnection, Join, JoinPanics,
         Disconnect, WsFrame, brokerVars, lbVars
<1>2. /\ ws' \in [Sessions \X Users ->
                    {"none", "opening", "joining", "reading", "stuck"}]
      /\ \A c \in Sessions \X Users : ws'[c] # ws[c] => c = <<s, u>>
  <2>1. /\ ws \in [Sessions \X Users ->
                     {"none", "opening", "joining", "reading", "stuck"}]
        /\ <<s, u>> \in Sessions \X Users
    BY DEF RealTimeInv, TypeOK
  <2>2. PICK v \in {"none", "opening", "joining", "reading", "stuck"} :
           ws' = [ws EXCEPT ![<<s, u>>] = v]
    BY DEF WsStep, OpenConnection, RegisterConnection, Join, JoinPanics,
           Disconnect
  <2> QED BY <2>1, <2>2
<1>3. running
  <2>1. <<s, u>> \in Sessions \X Users
    OBVIOUS
  <2>2. running \/ ws[<<s, u>>] \in {"opening", "joining", "reading"}
    BY DEF WsStep, OpenConnection, RegisterConnection, Join, JoinPanics,
           Disconnect
  <2> QED BY <2>1, <2>2 DEF RealTimeInv, DownIsEmpty
<1>4. TypeOK'
  BY <1>1, <1>2 DEF RealTimeInv, TypeOK, IsMap
<1>5. DownIsEmpty'
  BY <1>1, <1>3 DEF DownIsEmpty
<1>6. /\ Grows /\ IndexKept /\ NothingNew /\ SameCalls
      /\ ws'[<<s, u>>] = "reading" =>
            s \in DOMAIN answers' /\ u \in DOMAIN answers'[s]
  <2>1. CASE Join(s, u)
    BY <2>1, AddParticipantGrows DEF RealTimeInv, Join
  <2>2. CASE ~Join(s, u)
    <3>1. UNCHANGED trackerVars
      BY <2>2 DEF WsStep, OpenConnection, RegisterConnection, JoinPanics,
                  Disconnect
    <3>2. ws'[<<s, u>>] # "reading"
      <4>1. <<s, u>> \in DOMAIN ws
        BY DEF RealTimeInv, TypeOK
      <4> QED BY <2>2, <4>1 DEF WsStep, OpenConnection, RegisterConnection,
                                JoinPanics, Disconnect
    <3> QED BY <3>1, <3>2, SameTracker DEF RealTimeInv
  <2> QED BY <2>1, <2>2
<1>7. QuietLoops
  BY <1>1, <1>6, UntouchedLoops DEF SameCalls
<1>8. RecordingStands'
  BY <1>1, <1>6, <1>7, RecordingKept DEF QuietLoops, SameCalls
<1>9. AnsweringHasArray'
  <2> SUFFICES ASSUME NEW t \in Sessions, NEW v \in Users,
                      ws'[<<t, v>>] = "reading"
               PROVE  t \in DOMAIN answers' /\ v \in DOMAIN answers'[t]
    BY <1>1, <1>6 DEF RealTimeInv, AnsweringHasArray, Grows
  <2>1. CASE <<t, v>> = <<s, u>>
    BY <1>6, <2>1
  <2>2. CASE <<t, v>> # <<s, u>>
    <3>1. ws[<<t, v>>] = "reading"
      BY <1>2, <2>2
    <3> QED BY <1>6, <3>1 DEF RealTimeInv, AnsweringHasArray, Grows
  <2> QED BY <2>1, <2>2
<1> QED BY <1>1, <1>4, <1>5, <1>6, <1>7, <1>8, <1>9, QuietInv DEF SameCalls

\* The admin's handler registers its session.
LEMMA AdminConnectsInv ==
    ASSUME RealTimeInv, TrackerInv', NEW s \in Sessions, AdminConnects(s)
    PROVE  RealTimeInv'
<1>1. /\ running /\ registered' = registered \cup {s}
      /\ UNCHANGED trackerVars
      /\ UNCHANGED <<running, channelOpen, published, created, startQ, endQ,
                     starting, ending, tags, loops, ws, job, crashes, posted,
                     scored>>
  BY DEF AdminConnects, WsFrame, brokerVars, lbVars
<1>2. TypeOK' /\ DownIsEmpty'
  BY <1>1 DEF RealTimeInv, TypeOK, IsMap, DownIsEmpty
<1>3. Grows /\ IndexKept /\ NothingNew /\ SameCalls /\ QuietLoops
  BY <1>1, SameTracker, UntouchedLoops DEF RealTimeInv, SameCalls
<1>4. RecordingStands' /\ AnsweringHasArray'
  BY <1>1, <1>3, RecordingKept, ArraysKept DEF RealTimeInv, QuietLoops, SameCalls
<1> QED BY <1>1, <1>2, <1>3, <1>4, QuietInv DEF SameCalls

\* Redis drops a key.
LEMMA KeyExpiresInv ==
    ASSUME RealTimeInv, TrackerInv', NEW s \in Sessions, KeyExpires(s)
    PROVE  RealTimeInv'
<1>1. /\ Expire(s)
      /\ UNCHANGED <<running, channelOpen, published, created, startQ, endQ,
                     starting, ending, registered, tags, loops, ws, job,
                     crashes, posted, scored>>
  BY DEF KeyExpires, brokerVars, handlerVars, lbVars
<1>2. TypeOK' /\ DownIsEmpty'
  BY <1>1 DEF RealTimeInv, TypeOK, IsMap, DownIsEmpty
<1>3. Grows /\ IndexKept /\ NothingNew /\ SameCalls /\ QuietLoops
  BY <1>1, ExpireGrows, UntouchedLoops DEF RealTimeInv, SameCalls
<1>4. RecordingStands' /\ AnsweringHasArray'
  BY <1>1, <1>3, RecordingKept, ArraysKept DEF RealTimeInv, QuietLoops, SameCalls
<1> QED BY <1>1, <1>2, <1>3, <1>4, QuietInv DEF SameCalls

\* An answer is read from a connection, whose user has an array.
LEMMA ReceiveAnswerInv ==
    ASSUME RealTimeInv, TrackerInv', NEW g \in Jobs, NEW s \in Sessions,
           NEW u \in Users, NEW o \in Options, ReceiveAnswer(g, s, u, o)
    PROVE  RealTimeInv'
<1> DEFINE j == [pc |-> "received", session |-> s, user |-> u,
                 option |-> o, qid |-> -1, correct |-> FALSE]
<1>1. /\ ws[<<s, u>>] = "reading" /\ job' = Put(job, g, j)
      /\ UNCHANGED trackerVars
      /\ UNCHANGED <<running, channelOpen, published, created, startQ, endQ,
                     starting, ending, registered, tags, loops, ws, crashes,
                     posted, scored>>
  BY DEF ReceiveAnswer, JobFrame, brokerVars, handlerVars, lbVars
<1>2. j \in Job /\ j.session = s /\ j.user = u
  BY DEF Job
<1> HIDE DEF j
<1>3. /\ DOMAIN job' = DOMAIN job \cup {g} /\ job'[g] = j
      /\ \A h \in DOMAIN job : h # g => job'[h] = job[h]
      /\ job' = [h \in DOMAIN job' |-> job'[h]]
  BY <1>1 DEF Put
<1>4. TypeOK'
  <2>1. IsMap(job', Jobs, Job)
    BY <1>2, <1>3, JobTypes DEF RealTimeInv, IsMap
  <2> QED BY <1>1, <2>1 DEF RealTimeInv, TypeOK, IsMap
<1>5. DownIsEmpty'
  <2>1. <<s, u>> \in Sessions \X Users
    OBVIOUS
  <2>2. running
    BY <1>1, <2>1 DEF RealTimeInv, DownIsEmpty
  <2> QED BY <1>1, <2>2 DEF DownIsEmpty
<1>6. Grows /\ IndexKept /\ NothingNew /\ SameCalls /\ QuietLoops
  BY <1>1, SameTracker, UntouchedLoops DEF RealTimeInv, SameCalls
<1>7. AnsweringHasArray'
  <2>1. s \in DOMAIN answers /\ u \in DOMAIN answers[s]
    BY <1>1 DEF RealTimeInv, AnsweringHasArray
  <2> QED BY <1>1, <1>2, <1>3, <2>1
          DEF RealTimeInv, AnsweringHasArray, trackerVars
<1>8. RecordingStands'
  BY <1>1, <1>6, RecordingKept DEF QuietLoops, SameCalls
<1> QED BY <1>1, <1>4, <1>5, <1>6, <1>7, <1>8, QuietInv DEF SameCalls

\* Where answers are in flight, the process is up.
LEMMA RunningJob ==
    ASSUME DownIsEmpty, NEW g \in DOMAIN job
    PROVE  running
BY DEF DownIsEmpty, EmptyMap

\* The answer is judged, or dropped.
LEMMA JudgeAnswerInv ==
    ASSUME RealTimeInv, TrackerInv', NEW g \in DOMAIN job, JudgeAnswer(g)
    PROVE  RealTimeInv'
<1> DEFINE q == CurrentIdx(job[g].session)
           c == job[g].option = CorrectOption(job[g].session, q)
           j1 == [job[g] EXCEPT !.pc = "judged"]
           j2 == [j1 EXCEPT !.qid = q]
           j3 == [j2 EXCEPT !.correct = c]
<1>1. /\ job' = IF job[g].session \notin DOMAIN tracker THEN Delete(job, g)
                ELSE [job EXCEPT ![g].pc = "judged", ![g].qid = q,
                                 ![g].correct = c]
      /\ UNCHANGED trackerVars
      /\ UNCHANGED <<running, channelOpen, published, created, startQ, endQ,
                     starting, ending, registered, tags, loops, ws, crashes,
                     posted, scored>>
  BY DEF JudgeAnswer, JobFrame, brokerVars, handlerVars, lbVars
<1>2. q \in Int /\ c \in BOOLEAN
  BY Entries DEF RealTimeInv, TrackerInv, CurrentIdx
<1> HIDE DEF q, c
<1>3. job' = Delete(job, g) \/ job' = [job EXCEPT ![g] = j3]
  BY <1>1
<1>4. /\ j3 \in Job /\ j3.session = job[g].session /\ j3.user = job[g].user
  <2>1. job[g] \in Job
    BY JobTypes DEF RealTimeInv
  <2>2. j1 \in Job /\ j1.session = job[g].session /\ j1.user = job[g].user
    BY <2>1 DEF Job
  <2> HIDE DEF j1
  <2>3. j2 \in Job /\ j2.session = j1.session /\ j2.user = j1.user
    BY <1>2, <2>2 DEF Job
  <2> HIDE DEF j2
  <2>4. j3 \in Job /\ j3.session = j2.session /\ j3.user = j2.user
    BY <1>2, <2>3 DEF Job
  <2> HIDE DEF j3
  <2> QED BY <2>2, <2>3, <2>4
<1> HIDE DEF j3
<1>5. /\ DOMAIN job' \subseteq DOMAIN job
      /\ job' = [h \in DOMAIN job' |-> job'[h]]
      /\ \A h \in DOMAIN job' : /\ job'[h] \in Job
                                /\ job'[h].session = job[h].session
                                /\ job'[h].user = job[h].user
  <2>1. \A h \in DOMAIN job : job[h] \in Job
    BY JobTypes DEF RealTimeInv
  <2>2. CASE job' = Delete(job, g)
    BY <2>1, <2>2 DEF Delete
  <2>3. CASE job' = [job EXCEPT ![g] = j3]
    BY <1>4, <2>1, <2>3
  <2> QED BY <1>3, <2>2, <2>3
<1>6. TypeOK' /\ DownIsEmpty'
  <2>1. IsMap(job', Jobs, Job)
    BY <1>5, JobTypes DEF RealTimeInv, IsMap
  <2> QED BY <1>1, <2>1, RunningJob DEF RealTimeInv, TypeOK, IsMap, DownIsEmpty
<1>7. Grows /\ IndexKept /\ NothingNew /\ SameCalls /\ QuietLoops
  BY <1>1, SameTracker, UntouchedLoops DEF RealTimeInv, SameCalls
<1>8. RecordingStands' /\ AnsweringHasArray'
  BY <1>1, <1>5, <1>7, RecordingKept, ArraysKept
     DEF RealTimeInv, QuietLoops, SameCalls
<1> QED BY <1>1, <1>6, <1>7, <1>8, QuietInv DEF SameCalls

\* RecordAnswer takes the lock and reads the current index.
LEMMA RecordAnswerInv ==
    ASSUME RealTimeInv, TrackerInv', NEW g \in DOMAIN job, RecordAnswer(g)
    PROVE  RealTimeInv'
<1> DEFINE j == [job[g] EXCEPT !.pc = "storing"]
<1>1. /\ job' = [job EXCEPT ![g] = j]
      /\ RecordAnswerReads(job[g].session, job[g].user,
                           GivenAnswer(job[g].option, job[g].correct))
      /\ UNCHANGED <<running, channelOpen, published, created, startQ, endQ,
                     starting, ending, registered, tags, loops, ws, crashes,
                     posted, scored>>
  BY DEF RecordAnswer, JobFrame, brokerVars, handlerVars, lbVars
<1>2. /\ j \in Job /\ j.session = job[g].session /\ j.user = job[g].user
      /\ job[g].session \in Sessions /\ job[g].user \in Users
  <2>1. job[g] \in Job
    BY JobTypes DEF RealTimeInv
  <2> QED BY <2>1 DEF Job
<1> HIDE DEF j
<1>3. /\ DOMAIN job' = DOMAIN job /\ job'[g] = j
      /\ \A h \in DOMAIN job : h # g => job'[h] = job[h]
      /\ job' = [h \in DOMAIN job' |-> job'[h]]
  BY <1>1
<1>4. TypeOK' /\ DownIsEmpty'
  <2>1. IsMap(job', Jobs, Job)
    BY <1>2, <1>3, JobTypes DEF RealTimeInv, IsMap
  <2> QED BY <1>1, <2>1, RunningJob DEF RealTimeInv, TypeOK, IsMap, DownIsEmpty
<1>5. /\ Grows /\ IndexKept /\ NothingNew
      /\ UNCHANGED <<tracker, inc, raced>>
      /\ \A r \in recording' : r.qid = CurrentIdx(r.session)
  BY <1>1, <1>2, RecordAnswerReadsGrows DEF RealTimeInv
<1>6. QuietLoops
  BY <1>1, <1>5, UntouchedLoops
<1>7. RecordingStands'
  <2> SUFFICES ASSUME NEW r \in recording'
               PROVE  r.qid >= CurrentIdx(r.session)'
    BY DEF RecordingStands
  <2>1. CurrentIdx(r.session)' = CurrentIdx(r.session)
    BY <1>5 DEF CurrentIdx
  <2>2. CurrentIdx(r.session) \in Int
    BY Entries DEF RealTimeInv, TrackerInv, CurrentIdx
  <2> QED BY <1>5, <2>1, <2>2
<1>8. AnsweringHasArray'
  BY <1>1, <1>2, <1>3, <1>5, ArraysKept DEF RealTimeInv
<1> QED BY <1>1, <1>4, <1>5, <1>6, <1>7, <1>8, QuietInv

\* RecordAnswer stores the answer and unlocks.
LEMMA StoreAnswerInv ==
    ASSUME RealTimeInv, TrackerInv', NEW g \in DOMAIN job, StoreAnswer(g)
    PROVE  RealTimeInv'
<1>1. /\ RecordAnswerWrites /\ job' = Delete(job, g)
      /\ UNCHANGED <<running, channelOpen, published, created, startQ, endQ,
                     starting, ending, registered, tags, loops, ws, crashes,
                     posted, scored>>
  BY DEF StoreAnswer, JobFrame, brokerVars, handlerVars, lbVars
<1>2. /\ DOMAIN job' = (DOMAIN job) \ {g}
      /\ \A h \in DOMAIN job' : h \in DOMAIN job /\ job'[h] = job[h]
      /\ job' = [h \in DOMAIN job' |-> job'[h]]
  BY <1>1 DEF Delete
<1>3. TypeOK' /\ DownIsEmpty'
  <2>1. IsMap(job', Jobs, Job)
    BY <1>2, JobTypes DEF RealTimeInv, IsMap
  <2> QED BY <1>1, <2>1, RunningJob DEF RealTimeInv, TypeOK, IsMap, DownIsEmpty
<1>4. /\ Grows /\ IndexKept /\ NothingNew
      /\ recording' = {} /\ UNCHANGED <<tracker, inc, raced>>
  BY <1>1, RunningJob, RecordAnswerWritesGrows DEF RealTimeInv
<1>5. QuietLoops
  BY <1>1, <1>4, UntouchedLoops
<1>6. RecordingStands'
  BY <1>4 DEF RecordingStands
<1>7. AnsweringHasArray'
  BY <1>1, <1>2, <1>4, ArraysKept DEF RealTimeInv
<1> QED BY <1>1, <1>3, <1>4, <1>5, <1>6, <1>7, QuietInv

-----------------------------------------------------------------------------
(* The service.                                                            *)

\* The process has just been deployed, with an empty Redis.
LEMMA RealTimeInit == Init => RealTimeInv
<1> SUFFICES ASSUME Init
             PROVE  RealTimeInv
  OBVIOUS
<1>1. TrackerInv
  BY InitInv DEF Init
<1>2. /\ DOMAIN loops = {} /\ DOMAIN job = {} /\ DOMAIN inc = {}
      /\ DOMAIN tracker = {} /\ DOMAIN quizState = {}
      /\ recording = {} /\ raced = {}
      /\ loops = EmptyMap /\ job = EmptyMap
  BY DEF Init, TrackerInit, EmptyMap
<1>3. TypeOK
  <2>1. IsMap(loops, Loops, Loop) /\ IsMap(job, Jobs, Job)
    BY <1>2 DEF IsMap, EmptyMap
  <2>2. published \in [start : 0 .. MaxStarts, end : 0 .. MaxEnds,
                       trigger : 0 .. MaxTriggers]
        /\ crashes \in 0 .. MaxCrashes
    BY BoundsAssumption DEF Init
  <2>3. startQ \in Seq(StartMsg) /\ endQ \in Seq(Sessions)
    BY DEF Init
  <2>4. posted \in [Sessions -> Seq(Request)] /\ scored \in [Sessions -> Seq(Nat)]
    <3>1. <<>> \in Seq(Request) /\ <<>> \in Seq(Nat)
      OBVIOUS
    <3> QED BY <3>1 DEF Init
  <2> QED BY <2>1, <2>2, <2>3, <2>4 DEF Init, TypeOK
<1>4. DownIsEmpty /\ IncrementingLoops /\ RecordingStands
  BY <1>2 DEF Init, DownIsEmpty, IncrementingLoops, RecordingStands
<1>5. LoopSessionTracked /\ ScoringIndex /\ AloneLoops /\ AnsweringHasArray
  BY <1>2 DEF Init, LoopSessionTracked, ScoringIndex, AloneLoops,
              AnsweringHasArray
<1>6. StartsKnown /\ OneStart /\ ScoredOnce /\ PostedInOrder /\ LateAreLost
  <2>1. \A s \in Sessions : posted[s] = <<>> /\ scored[s] = <<>>
    BY DEF Init
  <2>2. startQ = <<>> /\ starting = NoMsg /\ created = {}
    BY DEF Init
  <2> QED BY <1>2, <2>1, <2>2 DEF StartsKnown, OneStart, ScoredOnce,
                                  PostedInOrder, LateAreLost
<1> QED BY <1>1, <1>3, <1>4, <1>5, <1>6 DEF RealTimeInv

\* The tracker's part of the invariant, from the tracker's own proofs.
LEMMA TrackerPart ==
    ASSUME RealTimeInv, [Next]_vars
    PROVE  TrackerInv'
<1>1. [TrackerNext]_trackerVars
  BY TrackerStep DEF RealTimeInv
<1>2. CASE TrackerNext
  BY <1>2, NextInv DEF RealTimeInv
<1>3. CASE UNCHANGED trackerVars
  BY <1>3, StutterInv DEF RealTimeInv
<1> QED BY <1>1, <1>2, <1>3

\* Every step keeps the invariant.
LEMMA RealTimeNext == RealTimeInv /\ [Next]_vars => RealTimeInv'
<1> SUFFICES ASSUME RealTimeInv, [Next]_vars
             PROVE  RealTimeInv'
  OBVIOUS
<1>1. TrackerInv'
  BY TrackerPart
<1>2. CASE UNCHANGED vars
  <2>1. /\ UNCHANGED trackerVars
        /\ UNCHANGED <<running, channelOpen, published, created, startQ, endQ,
                       starting, ending, registered, tags, loops, ws, job,
                       crashes, posted, scored>>
    BY <1>2 DEF vars, brokerVars, handlerVars, lbVars
  <2>2. TypeOK' /\ DownIsEmpty'
    BY <2>1 DEF RealTimeInv, TypeOK, IsMap, DownIsEmpty
  <2>3. Grows /\ IndexKept /\ NothingNew /\ SameCalls /\ QuietLoops
    BY <2>1, SameTracker, UntouchedLoops DEF RealTimeInv, SameCalls
  <2>4. RecordingStands' /\ AnsweringHasArray'
    BY <2>1, <2>3, RecordingKept, ArraysKept
       DEF RealTimeInv, QuietLoops, SameCalls
  <2> QED BY <1>1, <2>1, <2>2, <2>3, <2>4, QuietInv DEF SameCalls
<1>3. CASE StartStep
  BY <1>1, <1>3, ReceiveSessionStartInv, TrackSessionInv, TrackSessionPanicsInv
     DEF StartStep
<1>4. CASE EndStep
  BY <1>1, <1>4, ReceiveSessionEndInv, UnregisterSessionInv DEF EndStep
<1>5. ASSUME NEW g \in DOMAIN job, JobStep(g)
      PROVE  RealTimeInv'
  BY <1>1, <1>5, JudgeAnswerInv, RecordAnswerInv, StoreAnswerInv,
     StoreAnswerPanicsInv DEF JobStep
<1> QED BY <1>1, <1>2, <1>3, <1>4, <1>5, PublishSessionStartInv,
           PublishSessionEndInv, PublishQuestionStartInv, AdminConnectsInv,
           AddScoresInv, KeyExpiresInv, CrashInv, BootInv, LoopStepInv,
           WsStepInv, ReceiveAnswerInv DEF Next

\* The service keeps its invariant for any quizzes and numbers of goroutines,
\* through crashes, restarts, failed commands and expired keys.
THEOREM RealTimeInvariant == Spec => []RealTimeInv
<1>1. Spec => Init /\ [][Next]_vars
  BY PTL DEF Spec
<1> QED BY <1>1, RealTimeInit, RealTimeNext, PTL

\* The service keeps its types.
THEOREM RealTimeTyped == Spec => []TypeOK
<1>1. RealTimeInv => TypeOK
  BY DEF RealTimeInv
<1> QED BY <1>1, RealTimeInvariant, PTL

\* A loop's session is always known to the tracker.
THEOREM LoopSessionTrackedHolds == Spec => []LoopSessionTracked
<1>1. RealTimeInv => LoopSessionTracked
  BY DEF RealTimeInv
<1> QED BY <1>1, RealTimeInvariant, PTL

\* A participant who is heard always has an array of answers.
THEOREM AnsweringHasArrayHolds == Spec => []AnsweringHasArray
<1>1. RealTimeInv => AnsweringHasArray
  BY DEF RealTimeInv
<1> QED BY <1>1, RealTimeInvariant, PTL

\* Participants are told about the answers that were scored.
THEOREM StatAgreesWithBoardHolds == Spec => []StatAgreesWithBoard
<1>1. RealTimeInv => StatAgreesWithBoard
  <2> SUFFICES ASSUME RealTimeInv, NEW l \in DOMAIN loops,
                      loops[l].pc = "stat", loops[l].alone
               PROVE  /\ loops[l].boardQ = loops[l].qid - 1
                      /\ \A u \in DOMAIN loops[l].board :
                            StatFor(l, u) = loops[l].board[u]
    BY DEF StatAgreesWithBoard
  <2>1. BoardStands(l, loops[l].session)
    BY DEF RealTimeInv, AloneLoops
  <2> QED BY <2>1 DEF BoardStands, StatFor
<1> QED BY <1>1, RealTimeInvariant, PTL

\* A game with one loop and one process is scored in the order of its
\* questions, but for requests it has given up: whatever the quiz, the number
\* of triggers and the moments at which the Leader Board service is slow.
THEOREM ScoredInOrderHolds == Spec => []ScoredInOrder
<1>1. RealTimeInv => ScoredInOrder
  <2> SUFFICES ASSUME RealTimeInv, NEW s \in DOMAIN tracker,
                      crashes = 0, published.start <= 1,
                      NEW i \in DOMAIN scored[s], NEW j \in DOMAIN scored[s],
                      i < j
               PROVE  LET first == posted[s][scored[s][i]]
                          then  == posted[s][scored[s][j]]
                      IN  \/ first.question < then.question
                          \/ /\ first.question = then.question
                             /\ first.question = Len(tracker[s].quiz) - 2
                          \/ scored[s][i] > scored[s][j] /\ then.lost
    BY DEF ScoredInOrder
  <2>1. s \in Sessions
    BY Entries DEF RealTimeInv, TrackerInv
  <2>2. PICK a, b : a = scored[s][i] /\ b = scored[s][j]
    OBVIOUS
  <2>3. /\ a \in DOMAIN posted[s] /\ b \in DOMAIN posted[s] /\ a # b
        /\ a \in Nat /\ b \in Nat
    BY <2>1, <2>2, RequestTypes DEF RealTimeInv, ScoredOnce
  <2>4. CASE a < b
    <3>1. posted[s] # <<>>
      BY <2>3
    <3> QED BY <2>1, <2>2, <2>3, <2>4, <3>1 DEF RealTimeInv, PostedInOrder
  <2>5. CASE a > b
    BY <2>1, <2>2, <2>5 DEF RealTimeInv, LateAreLost
  <2> QED BY <2>2, <2>3, <2>4, <2>5
<1> QED BY <1>1, RealTimeInvariant, PTL

\* While the process is down the tracker is not used, but restored.
LEMMA DownSteps ==
    ASSUME RealTimeInv, ~running, Next
    PROVE  UNCHANGED trackerVars \/ Restore \/ \E s \in Sessions : Expire(s)
<1>1. /\ startQ = <<>> /\ starting = NoMsg /\ endQ = <<>> /\ ending = NoMsg
      /\ DOMAIN loops = {} /\ DOMAIN job = {}
      /\ \A s \in Sessions, u \in Users : ws[<<s, u>>] = "none"
  BY DEF RealTimeInv, DownIsEmpty, EmptyMap
<1>2. CASE StartStep
  BY <1>1, <1>2 DEF StartStep, ReceiveSessionStart, TrackSession,
                    TrackSessionPanics
<1>3. CASE EndStep
  BY <1>1, <1>3 DEF EndStep, ReceiveSessionEnd, UnregisterSession
<1>4. ASSUME NEW s \in Sessions, NEW u \in Users, WsStep(s, u)
      PROVE  FALSE
  BY <1>1, <1>4 DEF WsStep, OpenConnection, RegisterConnection, Join,
                    JoinPanics, Disconnect
<1>5. ASSUME NEW s \in Sessions,
             \/ \E quiz \in Quizzes : PublishSessionStart(s, quiz)
             \/ PublishSessionEnd(s) \/ PublishQuestionStart(s)
             \/ AdminConnects(s)
             \/ \E n \in DOMAIN posted[s] : AddScores(s, n)
      PROVE  UNCHANGED trackerVars
  BY <1>5 DEF PublishSessionStart, PublishSessionEnd, PublishQuestionStart,
              AdminConnects, AddScores
<1>6. ASSUME NEW s \in Sessions, KeyExpires(s)
      PROVE  Expire(s)
  BY <1>6 DEF KeyExpires
<1>7. ASSUME NEW g \in Jobs, NEW s \in Sessions, NEW u \in Users,
             NEW o \in Options, ReceiveAnswer(g, s, u, o)
      PROVE  UNCHANGED trackerVars
  BY <1>7 DEF ReceiveAnswer
<1> QED BY <1>1, <1>2, <1>3, <1>4, <1>5, <1>6, <1>7 DEF Next, Crash, Boot

\* As long as the process lives, the tracker only grows.
LEMMA StepGrows ==
    ASSUME RealTimeInv, [Next]_vars
    PROVE  Grows \/ DOMAIN answers' = {}
<1>1. CASE UNCHANGED trackerVars
  BY <1>1, SameTracker DEF RealTimeInv
<1>2. CASE Restore
  BY <1>2 DEF Restore, EmptyMap
<1>3. ASSUME NEW s \in Sessions, Expire(s)
      PROVE  Grows
  BY <1>3, ExpireGrows DEF RealTimeInv
<1>4. CASE running /\ TrackerNext
  <2>1. ASSUME NEW s \in Sessions, NEW quiz \in Quizzes, NewSession(s, quiz)
        PROVE  Grows
    BY <2>1, NewSessionGrows DEF RealTimeInv
  <2>2. ASSUME NEW l \in Loops, NEW s \in Sessions, IncReads(l, s)
        PROVE  Grows
    BY <2>2, IncReadsGrows DEF RealTimeInv
  <2>3. ASSUME NEW l \in DOMAIN inc, IncContinues(l)
        PROVE  Grows
    BY <2>3, IncWritesGrows, IncSavesGrows DEF RealTimeInv, IncContinues
  <2>4. ASSUME NEW s \in Sessions, NEW u \in Users, AddParticipant(s, u)
        PROVE  Grows
    BY <2>4, AddParticipantGrows DEF RealTimeInv
  <2>5. ASSUME NEW s \in Sessions, NEW u \in Users, NEW a,
               RecordAnswerReads(s, u, a)
        PROVE  Grows
    BY <2>5, RecordAnswerReadsGrows DEF RealTimeInv
  <2>6. ASSUME RecordAnswerWrites
        PROVE  Grows
    BY <1>4, <2>6, RecordAnswerWritesGrows DEF RealTimeInv
  <2> QED BY <1>2, <1>3, <1>4, <2>1, <2>2, <2>3, <2>4, <2>5, <2>6
          DEF TrackerNext
<1>5. CASE ~running /\ Next
  BY <1>1, <1>2, <1>3, <1>5, DownSteps
<1>6. CASE UNCHANGED vars
  BY <1>1, <1>6 DEF vars
<1>7. [TrackerNext]_trackerVars
  BY TrackerStep DEF RealTimeInv
<1> QED BY <1>1, <1>4, <1>5, <1>6, <1>7

\* Once a loop has gone on to tell the players of a new question, the answers
\* to the earlier ones stand: for any number of loops, users and answers.
THEOREM ClosedQuestionsFrozenHolds == Spec => ClosedQuestionsFrozen
<1> DEFINE Frozen ==
             \A s \in (DOMAIN answers) \cap (DOMAIN answers') :
                (\A l \in LoopsOf(s) :
                    loops[l].pc \notin {"incrementing", "advanced"})
                  => \A u \in DOMAIN answers[s] :
                        /\ u \in DOMAIN answers'[s]
                        /\ \A q \in DOMAIN answers[s][u] :
                              q < CurrentIdx(s) =>
                                  answers'[s][u][q] = answers[s][u][q]
<1>1. RealTimeInv /\ [Next]_vars => [Frozen]_vars
  <2> SUFFICES ASSUME RealTimeInv, [Next]_vars
               PROVE  Frozen
    OBVIOUS
  <2>1. CASE DOMAIN answers' = {}
    BY <2>1
  <2>2. CASE Grows
    BY <2>2 DEF Grows, Opening, LoopsOf
  <2> QED BY <2>1, <2>2, StepGrows
<1>2. Spec => [][Next]_vars
  BY PTL DEF Spec
<1>3. ClosedQuestionsFrozen <=> [][Frozen]_vars
  BY DEF ClosedQuestionsFrozen
<1> QED BY <1>1, <1>2, <1>3, RealTimeInvariant, PTL
=============================================================================
