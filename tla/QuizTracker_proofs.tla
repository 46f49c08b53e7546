------------------------- MODULE QuizTracker_proofs -------------------------
(***************************************************************************)
(* Proofs about QuizTracker: its invariants hold for any sets of sessions, *)
(* users, quizzes and options, with or without faults of Redis.            *)
(***************************************************************************)
EXTENDS QuizTracker, TLAPS

\* A call of IncQuestionIdx in progress is for a game in hand, of its quiz, and
\* at most one question ahead of what was opened, or not at all once its index
\* is written.
CallsInRange ==
    \A l \in DOMAIN inc :
        LET s == inc[l].session
        IN  /\ s \in DOMAIN tracker
            /\ tracker[s] # LostQuiz
            /\ inc[l].quiz = tracker[s].quiz
            /\ inc[l].idx \in 0 .. (Len(tracker[s].quiz) - 1)
            /\ inc[l].idx <= reached[s] + (IF inc[l].pc = "write" THEN 1 ELSE 0)

\* A game is at the furthest question opened or, contested, before it.
NotBeyond == \A s \in DOMAIN tracker : tracker[s].idx <= reached[s]

\* A game no two callers have incremented at once is at the furthest question,
\* and has at most one call in progress, whose index is the next one or, once
\* it is written, the current one.
OneByOne ==
    \A s \in (DOMAIN tracker) \ raced :
        /\ reached[s] = tracker[s].idx
        /\ \A l, m \in CallsOf(s) : l = m
        /\ \A l \in CallsOf(s) :
              inc[l].idx = tracker[s].idx + (IF inc[l].pc = "write" THEN 1 ELSE 0)

\* The answer being recorded has its slot, of a question that was opened.
RecordingFits ==
    \A r \in recording :
        /\ r.session \in DOMAIN answers
        /\ r.user \in DOMAIN answers[r.session]
        /\ r.qid \in DOMAIN answers[r.session][r.user]
        /\ r.qid <= reached[r.session]

\* The inductive invariant.  No conjunct is inductive alone: the index is in
\* range after a restart because the cached one was, the cached one because
\* each call in progress is, the calls because the quiz never changes.
TrackerInv ==
    /\ TrackerTypeOK
    /\ IndexInRange
    /\ AnswersSized
    /\ NoFutureAnswers
    /\ CacheNotAhead
    /\ CallsInRange
    /\ NotBeyond
    /\ OneByOne
    /\ RecordingFits

-----------------------------------------------------------------------------
(* Data.                                                                   *)

\* Lengths of quizzes are naturals; the zero quiz has length 0.
LEMMA QuizLen ==
    /\ \A quiz \in Quizzes \cup {NoQuiz} : Len(quiz) \in Nat
    /\ Len(NoQuiz) = 0
BY QuizzesAssumption DEF NoQuiz

\* Zero values have their types (models.UserAnswer, models.OngoingQuiz).
LEMMA ZeroValues ==
    /\ NoAnswer \in Answer
    /\ ~NoAnswer.answered
    /\ LostQuiz \in OngoingQuiz
    /\ LostQuiz.quiz = NoQuiz
    /\ LostQuiz.idx = 0
BY DEF NoAnswer, Answer, LostQuiz, OngoingQuiz

\* What the type invariant says of an entry of the tracker and of the cache.
LEMMA Entries ==
    ASSUME TrackerTypeOK
    PROVE  /\ DOMAIN tracker \subseteq Sessions
           /\ \A s \in DOMAIN tracker : /\ tracker[s] \in OngoingQuiz
                                        /\ tracker[s].idx \in Int
                                        /\ Len(tracker[s].quiz) \in Nat
                                        /\ reached[s] \in Int
           /\ \A s \in DOMAIN quizState :
                 /\ s \in Sessions
                 /\ quizState[s] \in OngoingQuiz
                 /\ quizState[s].quiz \in Quizzes
                 /\ quizState[s].idx \in Int
                 /\ Len(quizState[s].quiz) \in Nat
           /\ \A l \in DOMAIN inc : /\ inc[l] \in Call
                                    /\ inc[l].session \in Sessions
                                    /\ inc[l].idx \in Int
BY QuizLen DEF Call, TrackerTypeOK, IsMap, OngoingQuiz

\* A quiz that can advance is not the lost one.
LEMMA AdvanceNotLost ==
    ASSUME TrackerTypeOK, NEW s \in Sessions, CanAdvance(s)
    PROVE  tracker[s] # LostQuiz
BY ZeroValues, QuizLen DEF CanAdvance

-----------------------------------------------------------------------------

\* A first start, with an empty Redis.
LEMMA InitInv == TrackerInit => TrackerInv
BY DEF TrackerInit, TrackerInv, TrackerTypeOK, IndexInRange, AnswersSized,
       NoFutureAnswers, CacheNotAhead, CallsInRange, NotBeyond, OneByOne,
       RecordingFits, EmptyMap, IsMap

\* What changes no variable of the tracker keeps the invariant.
LEMMA StutterInv ==
    ASSUME TrackerInv, UNCHANGED trackerVars
    PROVE  TrackerInv'
BY DEF trackerVars, TrackerInv, TrackerTypeOK, IndexInRange, AnswersSized,
       NoFutureAnswers, CacheNotAhead, CallsInRange, NotBeyond, OneByOne,
       RecordingFits, CurrentIdx, CallsOf

\* NewSession (quiz_tracker.go:137) keeps the invariant.
LEMMA NewSessionInv ==
    ASSUME TrackerInv, NEW s \in Sessions, NEW quiz \in Quizzes,
           NewSession(s, quiz)
    PROVE  TrackerInv'
<1>1. CASE UNCHANGED trackerVars
  BY <1>1, StutterInv
<1>2. CASE ~UNCHANGED trackerVars
  <2> DEFINE oq == [idx |-> -1, quiz |-> quiz]
  <2>1. /\ s \notin DOMAIN tracker
        /\ ~nilTracker
        /\ tracker' = Put(tracker, s, oq)
        /\ answers' = Put(answers, s, EmptyMap)
        /\ quizState' = Put(quizState, s, oq) \/ quizState' = quizState
        /\ reached' = Put(reached, s, -1)
        /\ UNCHANGED <<nilTracker, answerHash, inc, recording, raced>>
    BY <1>2 DEF NewSession, SetSessionQuiz, Put
  <2>2. /\ s \notin DOMAIN answers
        /\ s \notin DOMAIN quizState
        /\ s \notin raced
        /\ DOMAIN reached = DOMAIN tracker
        /\ CallsOf(s) = {}
    BY <2>1 DEF TrackerInv, AnswersSized, CacheNotAhead, CallsInRange, CallsOf,
                TrackerTypeOK
  <2>3. /\ oq \in OngoingQuiz
        /\ oq \in [idx : Int, quiz : Quizzes]
        /\ oq # LostQuiz
        /\ Len(oq.quiz) \in Nat
    BY QuizLen, ZeroValues DEF OngoingQuiz
  <2>4. /\ DOMAIN tracker' = (DOMAIN tracker) \cup {s}
        /\ tracker'[s] = oq
        /\ \A x \in DOMAIN tracker : tracker'[x] = tracker[x]
        /\ reached'[s] = -1
        /\ \A x \in DOMAIN tracker : reached'[x] = reached[x]
    BY <2>1, <2>2 DEF Put
  <2>5. /\ DOMAIN answers' = (DOMAIN answers) \cup {s}
        /\ DOMAIN answers'[s] = {}
        /\ \A x \in DOMAIN answers : answers'[x] = answers[x]
    BY <2>1, <2>2 DEF Put, EmptyMap
  <2>6. /\ DOMAIN quizState' \subseteq (DOMAIN quizState) \cup {s}
        /\ s \in DOMAIN quizState' => quizState'[s] = oq
        /\ \A x \in DOMAIN quizState : quizState'[x] = quizState[x]
    BY <2>1, <2>2 DEF Put
  <2>7. TrackerTypeOK'
    <3>1. IsMap(tracker', Sessions, OngoingQuiz)
      BY <2>1, <2>3 DEF TrackerInv, TrackerTypeOK, IsMap, Put
    <3>2. IsMap(quizState', Sessions, [idx : Int, quiz : Quizzes])
      BY <2>1, <2>3 DEF TrackerInv, TrackerTypeOK, IsMap, Put
    <3>3. reached' \in [DOMAIN tracker' -> Int]
      BY <2>1, <2>2, <2>4 DEF TrackerInv, TrackerTypeOK, Put
    <3> QED BY <2>1, <2>4, <2>5, <3>1, <3>2, <3>3
            DEF TrackerInv, TrackerTypeOK
  <2>8. IndexInRange'
    BY <2>3, <2>4 DEF TrackerInv, IndexInRange
  <2>9. AnswersSized'
    BY <2>4, <2>5 DEF TrackerInv, AnswersSized
  <2>10. NoFutureAnswers'
    BY <2>4, <2>5 DEF TrackerInv, NoFutureAnswers, AnswersSized
  <2>11. CacheNotAhead'
    BY <2>1, <2>2, <2>3, <2>4, <2>6 DEF TrackerInv, CacheNotAhead
  <2>12. CallsInRange'
    BY <2>1, <2>4 DEF TrackerInv, CallsInRange
  <2>13. NotBeyond'
    BY <2>4 DEF TrackerInv, NotBeyond
  <2>14. OneByOne'
    BY <2>1, <2>2, <2>4 DEF TrackerInv, OneByOne, CallsOf
  <2>15. RecordingFits'
    BY <2>1, <2>4, <2>5 DEF TrackerInv, RecordingFits, AnswersSized
  <2> QED BY <2>7, <2>8, <2>9, <2>10, <2>11, <2>12, <2>13, <2>14, <2>15
          DEF TrackerInv
<1> QED BY <1>1, <1>2

\* IncQuestionIdx's read of the index (quiz_tracker.go:74) keeps the invariant.
LEMMA IncReadsInv ==
    ASSUME TrackerInv, NEW l \in Loops, NEW s \in Sessions, IncReads(l, s)
    PROVE  TrackerInv'
<1> DEFINE call == [session |-> s, pc |-> "write", idx |-> tracker[s].idx + 1,
                    quiz |-> tracker[s].quiz]
<1>1. /\ l \notin DOMAIN inc
      /\ CanAdvance(s)
      /\ inc' = Put(inc, l, call)
      /\ raced' = IF CallsOf(s) = {} THEN raced ELSE raced \cup {s}
      /\ UNCHANGED <<tracker, nilTracker, answers, quizState, answerHash,
                     recording, reached>>
  BY DEF IncReads
<1>2. /\ s \in DOMAIN tracker
      /\ tracker[s] # LostQuiz
      /\ tracker[s].idx \in Int
      /\ tracker[s].quiz \in Quizzes \cup {NoQuiz}
      /\ Len(tracker[s].quiz) \in Nat
      /\ tracker[s].idx + 1 \in 0 .. (Len(tracker[s].quiz) - 1)
      /\ tracker[s].idx <= reached[s]
      /\ reached[s] \in Int
  BY <1>1, Entries, AdvanceNotLost
     DEF CanAdvance, TrackerInv, IndexInRange, NotBeyond, OngoingQuiz
<1>3. call \in Call
  BY <1>2 DEF Call
<1>4. /\ DOMAIN inc' = (DOMAIN inc) \cup {l}
      /\ inc'[l] = call
      /\ \A m \in DOMAIN inc : inc'[m] = inc[m]
  BY <1>1 DEF Put
<1>5. TrackerTypeOK'
  <2>1. IsMap(inc', Loops, Call)
    BY <1>1, <1>3 DEF TrackerInv, TrackerTypeOK, IsMap, Put
  <2> QED BY <1>1, <1>2, <2>1 DEF TrackerInv, TrackerTypeOK
<1>6. IndexInRange' /\ AnswersSized' /\ NoFutureAnswers' /\ CacheNotAhead'
  BY <1>1 DEF TrackerInv, IndexInRange, AnswersSized, NoFutureAnswers,
              CacheNotAhead
<1>7. CallsInRange'
  BY <1>1, <1>2, <1>4 DEF TrackerInv, CallsInRange
<1>8. NotBeyond' /\ RecordingFits'
  BY <1>1 DEF TrackerInv, NotBeyond, RecordingFits
<1>9. OneByOne'
  <2>1. CallsOf(s)' = CallsOf(s) \cup {l}
    BY <1>4 DEF CallsOf
  <2>2. \A x : x # s => CallsOf(x)' = CallsOf(x)
    BY <1>1, <1>4 DEF CallsOf
  <2>3. \A x \in DOMAIN tracker : \A m \in CallsOf(x) : inc'[m] = inc[m]
    BY <1>4 DEF CallsOf
  <2> SUFFICES ASSUME NEW x \in DOMAIN tracker, x \notin raced'
               PROVE  /\ reached[x] = tracker[x].idx
                      /\ \A m, n \in CallsOf(x)' : m = n
                      /\ \A m \in CallsOf(x)' :
                            inc'[m].idx = tracker[x].idx
                              + (IF inc'[m].pc = "write" THEN 1 ELSE 0)
    BY <1>1 DEF OneByOne
  <2>4. x \notin raced
    BY <1>1
  <2>5. CASE x = s
    <3>1. CallsOf(s) = {}
      BY <1>1, <2>5
    <3> QED BY <1>4, <2>1, <2>4, <2>5, <3>1 DEF TrackerInv, OneByOne
  <2>6. CASE x # s
    BY <2>2, <2>3, <2>4, <2>6 DEF TrackerInv, OneByOne
  <2> QED BY <2>5, <2>6
<1> QED BY <1>5, <1>6, <1>7, <1>8, <1>9 DEF TrackerInv

\* Its write (quiz_tracker.go:83), whatever another caller wrote since, keeps
\* the invariant.
LEMMA IncWritesInv ==
    ASSUME TrackerInv, NEW l \in DOMAIN inc, IncWrites(l)
    PROVE  TrackerInv'
<1> DEFINE s == inc[l].session
           i == inc[l].idx
           oq == [idx |-> i, quiz |-> inc[l].quiz]
<1>1. /\ inc[l].pc = "write"
      /\ tracker' = Put(tracker, s, oq)
      /\ reached' = [reached EXCEPT ![s] = IF i > reached[s] THEN i
                                                            ELSE reached[s]]
      /\ inc' = [inc EXCEPT ![l].pc = "get"]
      /\ UNCHANGED <<nilTracker, answers, quizState, answerHash, recording,
                     raced>>
  BY DEF IncWrites
<1>2. /\ s \in Sessions
      /\ s \in DOMAIN tracker
      /\ tracker[s] # LostQuiz
      /\ inc[l].quiz = tracker[s].quiz
      /\ i \in Int
      /\ i \in 0 .. (Len(tracker[s].quiz) - 1)
      /\ i <= reached[s] + 1
      /\ reached[s] \in Int
      /\ tracker[s].idx \in Int
      /\ Len(tracker[s].quiz) \in Nat
      /\ inc[l] \in Call
  BY <1>1, Entries DEF TrackerInv, CallsInRange
<1>3. oq \in OngoingQuiz /\ oq # LostQuiz
  <2>1. tracker[s].quiz \in Quizzes \cup {NoQuiz}
    BY <1>2, Entries DEF TrackerInv, OngoingQuiz
  <2>2. oq \in OngoingQuiz
    BY <1>2, <2>1 DEF OngoingQuiz
  <2>3. Len(oq.quiz) # 0
    BY <1>2
  <2> QED BY <2>2, <2>3, ZeroValues, QuizLen
<1> HIDE DEF oq
<1>4. /\ DOMAIN tracker' = DOMAIN tracker
      /\ tracker'[s] = oq
      /\ \A x \in DOMAIN tracker : x # s => tracker'[x] = tracker[x]
      /\ oq.idx = i /\ oq.quiz = tracker[s].quiz
  BY <1>1, <1>2 DEF Put, oq
<1>5. /\ DOMAIN reached = DOMAIN tracker
      /\ \A x \in DOMAIN tracker : x # s => reached'[x] = reached[x]
      /\ reached'[s] \in Int
      /\ i <= reached'[s]
      /\ reached[s] <= reached'[s]
      /\ reached'[s] \in {i, reached[s]}
      /\ i = reached[s] + 1 => reached'[s] = i
  BY <1>1, <1>2 DEF TrackerInv, TrackerTypeOK
<1>6. /\ DOMAIN inc' = DOMAIN inc
      /\ inc'[l].session = s /\ inc'[l].pc = "get"
      /\ inc'[l].idx = i /\ inc'[l].quiz = inc[l].quiz
      /\ inc'[l] \in Call
      /\ \A m \in DOMAIN inc : m # l => inc'[m] = inc[m]
      /\ \A x : CallsOf(x)' = CallsOf(x)
  BY <1>1, <1>2 DEF Call, CallsOf
<1>7. TrackerTypeOK'
  <2>1. IsMap(tracker', Sessions, OngoingQuiz)
    BY <1>1, <1>2, <1>3 DEF TrackerInv, TrackerTypeOK, IsMap, Put
  <2>2. reached' \in [DOMAIN tracker' -> Int]
    BY <1>1, <1>2, <1>4, <1>5 DEF TrackerInv, TrackerTypeOK
  <2>3. IsMap(inc', Loops, Call)
    BY <1>1, <1>6 DEF TrackerInv, TrackerTypeOK, IsMap
  <2> QED BY <1>1, <1>4, <2>1, <2>2, <2>3 DEF TrackerInv, TrackerTypeOK
<1>8. IndexInRange'
  BY <1>2, <1>4 DEF TrackerInv, IndexInRange
<1>9. AnswersSized'
  BY <1>1, <1>4 DEF TrackerInv, AnswersSized
<1>10. NoFutureAnswers'
  <2> SUFFICES ASSUME NEW x \in DOMAIN answers, NEW u \in DOMAIN answers[x],
                      NEW q \in DOMAIN answers[x][u],
                      answers[x][u][q].answered
               PROVE  q <= reached'[x]
    BY <1>1 DEF NoFutureAnswers
  <2>1. x \in DOMAIN tracker /\ q \in Int /\ q <= reached[x]
    BY Entries DEF TrackerInv, NoFutureAnswers, AnswersSized
  <2> QED BY <1>2, <1>5, <2>1
<1>11. CacheNotAhead'
  <2> SUFFICES ASSUME NEW x \in DOMAIN quizState
               PROVE  /\ x \in DOMAIN tracker \/ nilTracker
                      /\ quizState[x].idx \in -1 .. (Len(quizState[x].quiz) - 1)
                      /\ x \in DOMAIN tracker /\ tracker'[x] # LostQuiz =>
                            /\ quizState[x].quiz = tracker'[x].quiz
                            /\ quizState[x].idx <= reached'[x]
    BY <1>1, <1>4 DEF CacheNotAhead
  <2>1. CASE x # s
    BY <1>4, <1>5, <2>1 DEF TrackerInv, CacheNotAhead
  <2>2. CASE x = s
    <3>1. /\ quizState[s].idx \in -1 .. (Len(quizState[s].quiz) - 1)
          /\ quizState[s].idx \in Int
          /\ quizState[s].quiz = tracker[s].quiz
          /\ quizState[s].idx <= reached[s]
      BY <1>2, <2>2, Entries DEF TrackerInv, CacheNotAhead
    <3> QED BY <1>2, <1>4, <1>5, <2>2, <3>1
  <2> QED BY <2>1, <2>2
<1>12. CallsInRange'
  <2> SUFFICES ASSUME NEW m \in DOMAIN inc, NEW x, x = inc'[m].session
               PROVE  /\ x \in DOMAIN tracker
                      /\ tracker'[x] # LostQuiz
                      /\ inc'[m].quiz = tracker'[x].quiz
                      /\ inc'[m].idx \in 0 .. (Len(tracker'[x].quiz) - 1)
                      /\ inc'[m].idx <= reached'[x]
                            + (IF inc'[m].pc = "write" THEN 1 ELSE 0)
    BY <1>4, <1>6 DEF CallsInRange
  <2>1. CASE m = l
    BY <1>2, <1>3, <1>4, <1>5, <1>6, <2>1, SMTT(30)
  <2>2. CASE m # l
    <3>1. /\ x = inc[m].session /\ inc'[m] = inc[m]
          /\ x \in DOMAIN tracker
          /\ tracker[x] # LostQuiz
          /\ inc[m].quiz = tracker[x].quiz
          /\ inc[m].idx \in 0 .. (Len(tracker[x].quiz) - 1)
          /\ inc[m].idx <= reached[x] + (IF inc[m].pc = "write" THEN 1 ELSE 0)
          /\ inc[m].idx \in Int /\ reached[x] \in Int
      BY <1>6, <2>2, Entries DEF TrackerInv, CallsInRange
    <3>2. CASE x = s
      BY <1>2, <1>3, <1>4, <1>5, <3>1, <3>2
    <3>3. CASE x # s
      BY <1>4, <1>5, <3>1, <3>3
    <3> QED BY <3>2, <3>3
  <2> QED BY <2>1, <2>2
<1>13. NotBeyond'
  BY <1>4, <1>5 DEF TrackerInv, NotBeyond
<1>14. OneByOne'
  <2> SUFFICES ASSUME NEW x \in DOMAIN tracker, x \notin raced
               PROVE  /\ reached'[x] = tracker'[x].idx
                      /\ \A m, n \in CallsOf(x) : m = n
                      /\ \A m \in CallsOf(x) :
                            inc'[m].idx = tracker'[x].idx
                              + (IF inc'[m].pc = "write" THEN 1 ELSE 0)
    BY <1>1, <1>4, <1>6 DEF OneByOne
  <2>1. CASE x # s
    <3>1. l \notin CallsOf(x)
      BY <2>1 DEF CallsOf
    <3>2. \A m \in CallsOf(x) : inc'[m] = inc[m]
      BY <1>6, <3>1 DEF CallsOf
    <3> QED BY <1>4, <1>5, <2>1, <3>2 DEF TrackerInv, OneByOne
  <2>2. CASE x = s
    <3>1. CallsOf(s) = {l}
      BY <2>2 DEF TrackerInv, OneByOne, CallsOf
    <3>2. i = tracker[s].idx + 1 /\ reached[s] = tracker[s].idx
      BY <1>1, <2>2, <3>1 DEF TrackerInv, OneByOne
    <3> QED BY <1>2, <1>4, <1>5, <1>6, <2>2, <3>1, <3>2
  <2> QED BY <2>1, <2>2
<1>15. RecordingFits'
  <2> SUFFICES ASSUME NEW r \in recording
               PROVE  r.qid <= reached'[r.session]
    BY <1>1 DEF TrackerInv, RecordingFits
  <2>1. /\ r.session \in DOMAIN tracker
        /\ r.qid <= reached[r.session]
        /\ r.qid \in Int
    BY DEF TrackerInv, RecordingFits, AnswersSized, TrackerTypeOK, Recording
  <2> QED BY <1>2, <1>5, <2>1
<1> QED BY <1>7, <1>8, <1>9, <1>10, <1>11, <1>12, <1>13, <1>14, <1>15
        DEF TrackerInv

\* Dropping calls in progress keeps what holds of those that remain.
LEMMA CallDropped ==
    ASSUME TrackerInv, NEW l, inc' = Delete(inc, l),
           UNCHANGED <<tracker, reached, raced>>
    PROVE  /\ IsMap(inc', Loops, Call)
           /\ CallsInRange'
           /\ OneByOne'
<1>1. /\ DOMAIN inc' = (DOMAIN inc) \ {l}
      /\ \A m \in DOMAIN inc' : inc'[m] = inc[m]
  BY DEF Delete
<1>2. IsMap(inc', Loops, Call)
  BY <1>1 DEF TrackerInv, TrackerTypeOK, IsMap, Delete
<1>3. CallsInRange'
  BY <1>1 DEF TrackerInv, CallsInRange
<1>4. \A s : /\ CallsOf(s)' \subseteq CallsOf(s)
             /\ \A m \in CallsOf(s)' : inc'[m] = inc[m]
  BY <1>1 DEF CallsOf
<1> QED BY <1>2, <1>3, <1>4 DEF TrackerInv, OneByOne

\* SetQuestionIndex's GET (redis.go:126) keeps the invariant: the quiz it
\* reads is that of the game.
LEMMA IncGetsInv ==
    ASSUME TrackerInv, NEW l \in DOMAIN inc, IncGets(l)
    PROVE  TrackerInv'
<1> DEFINE s == inc[l].session
<1>1. /\ inc[l].pc = "get"
      /\ UNCHANGED <<tracker, nilTracker, answers, quizState, answerHash,
                     recording, reached, raced>>
      /\ \/ /\ s \in DOMAIN quizState
            /\ inc' = [inc EXCEPT ![l].pc = "set",
                                  ![l].quiz = quizState[s].quiz]
         \/ inc' = Delete(inc, l)
  BY DEF IncGets
<1>2. IndexInRange' /\ AnswersSized' /\ NoFutureAnswers' /\ CacheNotAhead'
      /\ NotBeyond' /\ RecordingFits'
  BY <1>1 DEF TrackerInv, IndexInRange, AnswersSized, NoFutureAnswers,
              CacheNotAhead, NotBeyond, RecordingFits
<1>3. IsMap(inc', Loops, Call) /\ CallsInRange' /\ OneByOne'
  <2>1. CASE inc' = Delete(inc, l)
    BY <1>1, <2>1, CallDropped
  <2>2. CASE /\ s \in DOMAIN quizState
             /\ inc' = [inc EXCEPT ![l].pc = "set",
                                   ![l].quiz = quizState[s].quiz]
    <3>1. /\ s \in DOMAIN tracker
          /\ tracker[s] # LostQuiz
          /\ inc[l].quiz = tracker[s].quiz
          /\ quizState[s].quiz = tracker[s].quiz
          /\ inc[l] \in Call
      BY <2>2, Entries DEF TrackerInv, CallsInRange, CacheNotAhead
    <3>2. /\ DOMAIN inc' = DOMAIN inc
          /\ inc'[l].session = s /\ inc'[l].pc = "set"
          /\ inc'[l].idx = inc[l].idx /\ inc'[l].quiz = inc[l].quiz
          /\ inc'[l] \in Call
          /\ \A m \in DOMAIN inc : m # l => inc'[m] = inc[m]
          /\ \A x : CallsOf(x)' = CallsOf(x)
      BY <2>2, <3>1 DEF Call, CallsOf
    <3>3. IsMap(inc', Loops, Call)
      BY <2>2, <3>2 DEF TrackerInv, TrackerTypeOK, IsMap
    <3>4. \A m \in DOMAIN inc :
             /\ inc'[m].session = inc[m].session
             /\ inc'[m].quiz = inc[m].quiz
             /\ inc'[m].idx = inc[m].idx
             /\ (inc'[m].pc = "write") <=> (inc[m].pc = "write")
      BY <1>1, <3>2
    <3>5. CallsInRange'
      BY <1>1, <3>2, <3>4 DEF TrackerInv, CallsInRange
    <3>6. OneByOne'
      BY <1>1, <3>2, <3>4 DEF TrackerInv, OneByOne, CallsOf
    <3> QED BY <3>3, <3>5, <3>6
  <2> QED BY <1>1, <2>1, <2>2
<1>4. TrackerTypeOK'
  BY <1>1, <1>3 DEF TrackerInv, TrackerTypeOK
<1> QED BY <1>2, <1>3, <1>4 DEF TrackerInv

\* Its SET (redis.go:132), lost or not, keeps the invariant: it writes an index
\* that was opened, be it late.
LEMMA IncSetsInv ==
    ASSUME TrackerInv, NEW l \in DOMAIN inc, IncSets(l)
    PROVE  TrackerInv'
<1> DEFINE s == inc[l].session
           oq == [idx |-> inc[l].idx, quiz |-> inc[l].quiz]
<1>1. /\ inc[l].pc = "set"
      /\ quizState' = Put(quizState, s, oq) \/ quizState' = quizState
      /\ inc' = Delete(inc, l)
      /\ UNCHANGED <<tracker, nilTracker, answers, answerHash, recording,
                     reached, raced>>
  BY DEF IncSets, SetSessionQuiz
<1>2. IsMap(inc', Loops, Call) /\ CallsInRange' /\ OneByOne'
  BY <1>1, CallDropped
<1>3. /\ s \in Sessions
      /\ s \in DOMAIN tracker
      /\ tracker[s] # LostQuiz
      /\ inc[l].quiz = tracker[s].quiz
      /\ inc[l].idx \in 0 .. (Len(tracker[s].quiz) - 1)
      /\ inc[l].idx <= reached[s]
      /\ inc[l].idx \in Int
      /\ reached[s] \in Int
      /\ Len(tracker[s].quiz) \in Nat
  BY <1>1, Entries DEF TrackerInv, CallsInRange
<1>4. oq \in [idx : Int, quiz : Quizzes]
  <2>1. tracker[s].quiz \in Quizzes \cup {NoQuiz}
    BY <1>3, Entries DEF TrackerInv, OngoingQuiz
  <2>2. tracker[s].quiz # NoQuiz
    BY <1>3, QuizLen
  <2> QED BY <1>3, <2>1, <2>2
<1>5. IndexInRange' /\ AnswersSized' /\ NoFutureAnswers' /\ NotBeyond'
      /\ RecordingFits'
  BY <1>1 DEF TrackerInv, IndexInRange, AnswersSized, NoFutureAnswers,
              NotBeyond, RecordingFits
<1>6. TrackerTypeOK'
  <2>1. IsMap(quizState', Sessions, [idx : Int, quiz : Quizzes])
    BY <1>1, <1>3, <1>4 DEF TrackerInv, TrackerTypeOK, IsMap, Put
  <2> QED BY <1>1, <1>2, <2>1 DEF TrackerInv, TrackerTypeOK
<1>7. CacheNotAhead'
  <2>1. CASE quizState' = quizState
    BY <1>1, <2>1 DEF TrackerInv, CacheNotAhead
  <2>2. CASE quizState' = Put(quizState, s, oq)
    <3>1. /\ DOMAIN quizState' = (DOMAIN quizState) \cup {s}
          /\ quizState'[s] = oq
          /\ \A x \in DOMAIN quizState : x # s => quizState'[x] = quizState[x]
      BY <2>2 DEF Put
    <3>2. /\ oq.quiz = tracker[s].quiz /\ oq.idx = inc[l].idx
          /\ oq.idx \in -1 .. (Len(oq.quiz) - 1)
      BY <1>3
    <3> HIDE DEF oq
    <3> QED BY <1>1, <1>3, <3>1, <3>2 DEF TrackerInv, CacheNotAhead
  <2> QED BY <1>1, <2>1, <2>2
<1> QED BY <1>2, <1>5, <1>6, <1>7 DEF TrackerInv

\* A write of one array leaves everything else as it was: what AddParticipant
\* and the two steps of RecordAnswer have in common.
LEMMA ArrayWriteInv ==
    ASSUME TrackerInv, NEW s \in DOMAIN answers, NEW u \in Users, NEW row,
           row \in [0 .. (Len(tracker[s].quiz) - 1) -> Answer],
           \A q \in DOMAIN row : row[q].answered => q <= reached[s],
           DOMAIN answers' = DOMAIN answers,
           \A x \in DOMAIN answers : x # s => answers'[x] = answers[x],
           DOMAIN answers'[s] = (DOMAIN answers[s]) \cup {u},
           answers'[s][u] = row,
           \A v \in DOMAIN answers[s] : v # u => answers'[s][v] = answers[s][v],
           UNCHANGED <<tracker, nilTracker, quizState, inc, reached, raced>>,
           IsMap(answerHash', Sessions \X Users \X Int, Answer),
           recording' \subseteq Recording,
           \A r1, r2 \in recording' : r1 = r2,
           RecordingFits'
    PROVE  TrackerInv'
<1>1. TrackerTypeOK'
  BY DEF TrackerInv, TrackerTypeOK, IsMap
<1>2. IndexInRange' /\ CacheNotAhead'
  BY DEF TrackerInv, IndexInRange, CacheNotAhead
<1>3. AnswersSized'
  BY DEF TrackerInv, AnswersSized
<1>4. NoFutureAnswers'
  BY DEF TrackerInv, NoFutureAnswers
<1>5. CallsInRange' /\ NotBeyond' /\ OneByOne'
  BY DEF TrackerInv, CallsInRange, NotBeyond, OneByOne, CallsOf
<1> QED BY <1>1, <1>2, <1>3, <1>4, <1>5 DEF TrackerInv

\* A new array has one empty slot per question.
LEMMA NewArrayType ==
    ASSUME NEW quiz
    PROVE  /\ NewArray(quiz) \in [0 .. (Len(quiz) - 1) -> Answer]
           /\ \A q \in DOMAIN NewArray(quiz) : ~NewArray(quiz)[q].answered
BY ZeroValues DEF NewArray

\* The array RecordAnswer and AddParticipant use fits the quiz and holds no
\* answer to a question that was not opened.
LEMMA ArrayOfType ==
    ASSUME TrackerInv, NEW s \in DOMAIN answers, NEW u
    PROVE  /\ Tracked(s) = tracker[s]
           /\ ArrayOf(s, u) \in [0 .. (Len(tracker[s].quiz) - 1) -> Answer]
           /\ \A q \in DOMAIN ArrayOf(s, u) :
                 ArrayOf(s, u)[q].answered => q <= reached[s]
<1>1. Tracked(s) = tracker[s]
  BY DEF TrackerInv, AnswersSized, Tracked
<1>2. CASE u \in DOMAIN answers[s]
  BY <1>1, <1>2 DEF TrackerInv, AnswersSized, NoFutureAnswers, ArrayOf
<1>3. CASE u \notin DOMAIN answers[s]
  BY <1>1, <1>3, NewArrayType DEF ArrayOf
<1> QED BY <1>1, <1>2, <1>3

\* AddParticipant (quiz_tracker.go:119) keeps the invariant.
LEMMA AddParticipantInv ==
    ASSUME TrackerInv, NEW s \in Sessions, NEW u \in Users,
           AddParticipant(s, u)
    PROVE  TrackerInv'
<1>1. CASE u \in DOMAIN answers[s]
  <2>1. UNCHANGED trackerVars
    BY <1>1 DEF AddParticipant, trackerVars
  <2> QED BY <2>1, StutterInv
<1>2. CASE u \notin DOMAIN answers[s]
  <2> DEFINE row == NewArray(tracker[s].quiz)
  <2>1. /\ s \in DOMAIN answers
        /\ recording = {}
        /\ answers' = Put(answers, s, Put(answers[s], u, row))
        /\ UNCHANGED <<tracker, nilTracker, quizState, answerHash, inc,
                       recording, reached, raced>>
    BY <1>2, ArrayOfType DEF AddParticipant, Unlocked
  <2>2. /\ row \in [0 .. (Len(tracker[s].quiz) - 1) -> Answer]
        /\ \A q \in DOMAIN row : ~row[q].answered
    BY NewArrayType
  <2> HIDE DEF row
  <2>3. /\ DOMAIN answers' = DOMAIN answers
        /\ \A x \in DOMAIN answers : x # s => answers'[x] = answers[x]
        /\ DOMAIN answers'[s] = (DOMAIN answers[s]) \cup {u}
        /\ answers'[s][u] = row
        /\ \A v \in DOMAIN answers[s] : v # u => answers'[s][v] = answers[s][v]
    BY <2>1 DEF Put
  <2>4. /\ IsMap(answerHash', Sessions \X Users \X Int, Answer)
        /\ recording' \subseteq Recording
        /\ \A r1, r2 \in recording' : r1 = r2
        /\ RecordingFits'
    BY <2>1 DEF TrackerInv, TrackerTypeOK, IsMap, RecordingFits
  <2> QED BY <2>1, <2>2, <2>3, <2>4, ArrayWriteInv
<1> QED BY <1>1, <1>2

\* RecordAnswer's read of the index (quiz_tracker.go:103-111) keeps the
\* invariant.
LEMMA RecordAnswerReadsInv ==
    ASSUME TrackerInv, NEW s \in Sessions, NEW u \in Users, NEW a \in Answer,
           RecordAnswerReads(s, u, a)
    PROVE  TrackerInv'
<1> DEFINE row == ArrayOf(s, u)
           r == [session |-> s, user |-> u, qid |-> CurrentIdx(s), answer |-> a]
<1>1. /\ s \in DOMAIN answers
      /\ CurrentIdx(s) \in DOMAIN row
      /\ answers' = Put(answers, s, Put(answers[s], u, row))
      /\ recording' = {r}
      /\ UNCHANGED <<tracker, nilTracker, quizState, answerHash, inc, reached,
                     raced>>
  BY DEF RecordAnswerReads
<1>2. /\ s \in DOMAIN tracker
      /\ CurrentIdx(s) = tracker[s].idx
      /\ CurrentIdx(s) \in Int
      /\ CurrentIdx(s) <= reached[s]
      /\ row \in [0 .. (Len(tracker[s].quiz) - 1) -> Answer]
      /\ \A q \in DOMAIN row : row[q].answered => q <= reached[s]
  BY <1>1, ArrayOfType, Entries
     DEF TrackerInv, AnswersSized, CurrentIdx, NotBeyond
<1>3. r \in Recording
  BY <1>2 DEF Recording
<1>4. r.session = s /\ r.user = u /\ r.qid = CurrentIdx(s)
  OBVIOUS
<1> HIDE DEF row, r
<1>5. /\ DOMAIN answers' = DOMAIN answers
      /\ \A x \in DOMAIN answers : x # s => answers'[x] = answers[x]
      /\ DOMAIN answers'[s] = (DOMAIN answers[s]) \cup {u}
      /\ answers'[s][u] = row
      /\ \A v \in DOMAIN answers[s] : v # u => answers'[s][v] = answers[s][v]
  BY <1>1 DEF Put
<1>6. /\ IsMap(answerHash', Sessions \X Users \X Int, Answer)
      /\ recording' \subseteq Recording
      /\ \A r1, r2 \in recording' : r1 = r2
  BY <1>1, <1>3 DEF TrackerInv, TrackerTypeOK, IsMap
<1>7. RecordingFits'
  BY <1>1, <1>2, <1>4, <1>5 DEF RecordingFits
<1> QED BY <1>1, <1>2, <1>5, <1>6, <1>7, ArrayWriteInv

\* What the answer being recorded is, and the array it goes to.
LEMMA RecordingRow ==
    ASSUME TrackerInv, NEW r \in recording, NEW row,
           row = [answers[r.session][r.user] EXCEPT ![r.qid] = r.answer],
           answers' = [answers EXCEPT ![r.session][r.user][r.qid] = r.answer]
    PROVE  /\ r.session \in DOMAIN answers
           /\ r.session \in Sessions
           /\ r.session \in DOMAIN tracker
           /\ r.user \in Users
           /\ r.user \in DOMAIN answers[r.session]
           /\ r.answer \in Answer
           /\ r.qid \in Int
           /\ r.qid \in DOMAIN answers[r.session][r.user]
           /\ r.qid <= reached[r.session]
           /\ DOMAIN answers' = DOMAIN answers
           /\ \A x \in DOMAIN answers :
                 x # r.session => answers'[x] = answers[x]
           /\ DOMAIN answers'[r.session] = DOMAIN answers[r.session]
           /\ answers'[r.session][r.user] = row
           /\ \A v \in DOMAIN answers[r.session] :
                 v # r.user => answers'[r.session][v] = answers[r.session][v]
           /\ row \in [0 .. (Len(tracker[r.session].quiz) - 1) -> Answer]
<1>1. /\ r.session \in DOMAIN answers
      /\ r.session \in Sessions
      /\ r.session \in DOMAIN tracker
      /\ r.user \in Users
      /\ r.user \in DOMAIN answers[r.session]
      /\ r.answer \in Answer
      /\ r.qid \in Int
      /\ r.qid \in DOMAIN answers[r.session][r.user]
      /\ r.qid <= reached[r.session]
      /\ answers[r.session][r.user] \in
            [0 .. (Len(tracker[r.session].quiz) - 1) -> Answer]
  BY DEF TrackerInv, TrackerTypeOK, RecordingFits, AnswersSized, Recording
<1>2. row \in [0 .. (Len(tracker[r.session].quiz) - 1) -> Answer]
  BY <1>1
<1> QED BY <1>1, <1>2

\* Its write (quiz_tracker.go:112) keeps the invariant, whatever became of the
\* index meanwhile.
LEMMA RecordAnswerWritesInv ==
    ASSUME TrackerInv, RecordAnswerWrites
    PROVE  TrackerInv'
<1>1. PICK r \in recording :
        /\ answers' = [answers EXCEPT ![r.session][r.user][r.qid] = r.answer]
        /\ CacheRecordAnswer(r.session, r.user, r.qid, r.answer)
        /\ recording' = {}
        /\ UNCHANGED <<tracker, nilTracker, quizState, inc, reached, raced>>
  BY DEF RecordAnswerWrites
<1>2. PICK row : row = [answers[r.session][r.user] EXCEPT ![r.qid] = r.answer]
  OBVIOUS
<1>3. /\ r.session \in DOMAIN answers
      /\ r.session \in Sessions
      /\ r.session \in DOMAIN tracker
      /\ r.user \in Users
      /\ r.user \in DOMAIN answers[r.session]
      /\ r.answer \in Answer
      /\ r.qid \in Int
      /\ r.qid \in DOMAIN answers[r.session][r.user]
      /\ r.qid <= reached[r.session]
      /\ DOMAIN answers' = DOMAIN answers
      /\ \A x \in DOMAIN answers :
            x # r.session => answers'[x] = answers[x]
      /\ DOMAIN answers'[r.session] = DOMAIN answers[r.session]
      /\ answers'[r.session][r.user] = row
      /\ \A v \in DOMAIN answers[r.session] :
            v # r.user => answers'[r.session][v] = answers[r.session][v]
      /\ row \in [0 .. (Len(tracker[r.session].quiz) - 1) -> Answer]
  BY <1>1, <1>2, RecordingRow
<1>4. \A q \in DOMAIN row : row[q].answered => q <= reached[r.session]
  BY <1>2, <1>3 DEF TrackerInv, NoFutureAnswers
<1>5. IsMap(answerHash', Sessions \X Users \X Int, Answer)
  BY <1>1, <1>3 DEF TrackerInv, TrackerTypeOK, CacheRecordAnswer, IsMap, Put
<1>6. /\ recording' \subseteq Recording
      /\ \A r1, r2 \in recording' : r1 = r2
      /\ RecordingFits'
  BY <1>1 DEF RecordingFits
<1>7. DOMAIN answers'[r.session] = (DOMAIN answers[r.session]) \cup {r.user}
  BY <1>3
<1>8. UNCHANGED <<tracker, nilTracker, quizState, inc, reached, raced>>
  BY <1>1
<1>9. PICK s \in DOMAIN answers, u \in Users : s = r.session /\ u = r.user
  BY <1>3
<1>10. /\ row \in [0 .. (Len(tracker[s].quiz) - 1) -> Answer]
       /\ \A q \in DOMAIN row : row[q].answered => q <= reached[s]
       /\ DOMAIN answers' = DOMAIN answers
       /\ \A x \in DOMAIN answers : x # s => answers'[x] = answers[x]
       /\ DOMAIN answers'[s] = (DOMAIN answers[s]) \cup {u}
       /\ answers'[s][u] = row
       /\ \A v \in DOMAIN answers[s] : v # u => answers'[s][v] = answers[s][v]
  BY <1>3, <1>4, <1>7, <1>9
<1> QED BY <1>5, <1>6, <1>8, <1>10, ArrayWriteInv

\* Restore (NewQuizTracker, SetCache, restoreData) keeps the invariant: what a
\* new process starts with is what the cache held, less what was not read.
LEMMA RestoreInv ==
    ASSUME TrackerInv, Restore
    PROVE  TrackerInv'
<1>1. /\ answers' = EmptyMap
      /\ DOMAIN answers' = {}
      /\ quizState' = quizState
      /\ answerHash' = answerHash
      /\ inc' = EmptyMap
      /\ DOMAIN inc' = {}
      /\ recording' = {}
      /\ reached' = [s \in DOMAIN tracker' |-> tracker'[s].idx]
      /\ raced' = {}
  BY DEF Restore, StartsAnew, EmptyMap
<1>2. CASE tracker' \in AllSessions /\ nilTracker' = FALSE
  <2>1. PICK failed \in SUBSET DOMAIN quizState :
            tracker' = [s \in DOMAIN quizState |->
                          IF s \in failed THEN LostQuiz ELSE quizState[s]]
    BY <1>2 DEF AllSessions
  <2>2. /\ DOMAIN tracker' = DOMAIN quizState
        /\ \A s \in DOMAIN quizState : tracker'[s] \in {LostQuiz, quizState[s]}
    BY <2>1
  <2>3. \A s \in DOMAIN tracker' :
           tracker'[s] \in OngoingQuiz /\ tracker'[s].idx \in Int
    BY <2>2, Entries, ZeroValues DEF TrackerInv
  <2>4. TrackerTypeOK'
    <3>1. IsMap(tracker', Sessions, OngoingQuiz)
      BY <2>1, <2>2, <2>3, Entries DEF TrackerInv, IsMap
    <3>2. reached' \in [DOMAIN tracker' -> Int]
      BY <1>1, <2>3
    <3>3. IsMap(inc', Loops, Call)
      BY <1>1 DEF IsMap, EmptyMap
    <3> QED BY <1>1, <1>2, <3>1, <3>2, <3>3
            DEF TrackerInv, TrackerTypeOK, IsMap
  <2>5. IndexInRange'
    BY <2>2 DEF TrackerInv, IndexInRange, CacheNotAhead
  <2>6. AnswersSized' /\ NoFutureAnswers' /\ CallsInRange' /\ RecordingFits'
    BY <1>1 DEF AnswersSized, NoFutureAnswers, CallsInRange, RecordingFits
  <2>7. NotBeyond' /\ OneByOne'
    BY <1>1, <2>3 DEF NotBeyond, OneByOne, CallsOf
  <2>8. CacheNotAhead'
    BY <1>1, <2>2, <2>3, Entries DEF TrackerInv, CacheNotAhead
  <2> QED BY <2>4, <2>5, <2>6, <2>7, <2>8 DEF TrackerInv
<1>3. CASE tracker' = EmptyMap /\ nilTracker' = TRUE
  BY <1>1, <1>3 DEF TrackerInv, TrackerTypeOK, IndexInRange, AnswersSized,
                    NoFutureAnswers, CacheNotAhead, CallsInRange, NotBeyond,
                    OneByOne, RecordingFits, EmptyMap, IsMap
<1> QED BY <1>2, <1>3 DEF Restore

\* The expiry of a key keeps the invariant.
LEMMA ExpireInv ==
    ASSUME TrackerInv, NEW s \in Sessions, Expire(s)
    PROVE  TrackerInv'
<1>1. /\ quizState' = Delete(quizState, s)
      /\ UNCHANGED <<tracker, nilTracker, answers, answerHash, inc, recording,
                     reached, raced>>
  BY DEF Expire
<1>2. /\ DOMAIN quizState' \subseteq DOMAIN quizState
      /\ \A x \in DOMAIN quizState' : quizState'[x] = quizState[x]
  BY <1>1 DEF Delete
<1>3. TrackerTypeOK'
  BY <1>1, <1>2 DEF TrackerInv, TrackerTypeOK, IsMap, Delete
<1>4. IndexInRange' /\ AnswersSized' /\ NoFutureAnswers' /\ RecordingFits'
  BY <1>1 DEF TrackerInv, IndexInRange, AnswersSized, NoFutureAnswers,
              RecordingFits
<1>5. CacheNotAhead'
  BY <1>1, <1>2 DEF TrackerInv, CacheNotAhead
<1>6. CallsInRange' /\ NotBeyond' /\ OneByOne'
  BY <1>1 DEF TrackerInv, CallsInRange, NotBeyond, OneByOne, CallsOf
<1> QED BY <1>3, <1>4, <1>5, <1>6 DEF TrackerInv

\* What processAnswer records has the type of an answer.
LEMMA GivenAnswerType ==
    \A o \in Options, correct \in BOOLEAN : GivenAnswer(o, correct) \in Answer
BY DEF GivenAnswer, Answer

\* Every step of the specification keeps the invariant.
LEMMA NextInv ==
    ASSUME TrackerInv, [TrackerNext]_trackerVars
    PROVE  TrackerInv'
<1>1. CASE UNCHANGED trackerVars
  BY <1>1, StutterInv
<1>2. ASSUME NEW s \in Sessions, NEW quiz \in Quizzes, NewSession(s, quiz)
      PROVE  TrackerInv'
  BY <1>2, NewSessionInv
<1>3. ASSUME NEW l \in Loops, NEW s \in Sessions, IncReads(l, s)
      PROVE  TrackerInv'
  BY <1>3, IncReadsInv
<1>4. ASSUME NEW l \in DOMAIN inc, IncContinues(l)
      PROVE  TrackerInv'
  BY <1>4, IncWritesInv, IncGetsInv, IncSetsInv DEF IncContinues
<1>5. ASSUME NEW s \in Sessions, NEW u \in Users, AddParticipant(s, u)
      PROVE  TrackerInv'
  BY <1>5, AddParticipantInv
<1>6. ASSUME NEW s \in Sessions, NEW u \in Users, NEW o \in Options,
             NEW correct \in BOOLEAN,
             RecordAnswerReads(s, u, GivenAnswer(o, correct))
      PROVE  TrackerInv'
  BY <1>6, GivenAnswerType, RecordAnswerReadsInv
<1>7. CASE RecordAnswerWrites
  BY <1>7, RecordAnswerWritesInv
<1>8. CASE Restore
  BY <1>8, RestoreInv
<1>9. ASSUME NEW s \in Sessions, Expire(s)
      PROVE  TrackerInv'
  BY <1>9, ExpireInv
<1> QED BY <1>1, <1>2, <1>3, <1>4, <1>5, <1>6, <1>7, <1>8, <1>9
        DEF TrackerNext

\* The tracker's invariants hold in every state, however its methods are
\* called, however often the process restarts and whatever Redis loses.
THEOREM TrackerInvariant == TrackerSpec => []TrackerInv
<1>1. TrackerInit => TrackerInv
  BY InitInv
<1>2. TrackerInv /\ [TrackerNext]_trackerVars => TrackerInv'
  BY NextInv
<1> QED BY <1>1, <1>2, PTL DEF TrackerSpec

\* The maps of quiz_tracker.go and the keys of redis.go keep their types.
THEOREM TrackerTypeCorrect == TrackerSpec => []TrackerTypeOK
BY TrackerInvariant, PTL DEF TrackerInv

\* IncQuestionIdx never leaves the quiz, so the "end of game" index of
\* ConsumeQuestionStart only occurs for a quiz lost by a failed read.
THEOREM TrackerIndexInRange == TrackerSpec => []IndexInRange
BY TrackerInvariant, PTL DEF TrackerInv

\* Indexing an answers array with the current question or the previous one
\* never runs outside it.
THEOREM TrackerAnswersSized == TrackerSpec => []AnswersSized
BY TrackerInvariant, PTL DEF TrackerInv

\* RecordAnswer never stores an answer to a question not yet opened.
THEOREM TrackerNoFutureAnswers == TrackerSpec => []NoFutureAnswers
BY TrackerInvariant, PTL DEF TrackerInv

\* A restart can repeat questions and never skips one: the cached index is
\* never ahead, whatever writes and keys are lost.
THEOREM TrackerCacheNotAhead == TrackerSpec => []CacheNotAhead
BY TrackerInvariant, PTL DEF TrackerInv

-----------------------------------------------------------------------------
(* The copy in Redis.                                                      *)

\* The two halves of CacheIsCopy.
QuizIsCopied ==
    \A s \in (DOMAIN quizState) \ raced :
        s \in DOMAIN tracker /\ tracker[s] # LostQuiz /\ ~Saving(s) =>
            quizState[s] = tracker[s]

AnswersAreCopied ==
    \A s \in DOMAIN answers : \A u \in DOMAIN answers[s] :
        \A q \in DOMAIN answers[s][u] :
            answers[s][u][q].answered =>
                /\ <<s, u, q>> \in DOMAIN answerHash
                /\ answerHash[<<s, u, q>>] = answers[s][u][q]

\* A new call of IncQuestionIdx saves nothing yet, and may make its game a
\* contested one.
LEMMA QuizCopyReads ==
    ASSUME TrackerInv, QuizIsCopied, NEW l \in Loops, NEW s \in Sessions,
           IncReads(l, s)
    PROVE  QuizIsCopied'
<1>1. /\ l \notin DOMAIN inc
      /\ DOMAIN inc' = (DOMAIN inc) \cup {l}
      /\ inc'[l].pc = "write"
      /\ \A m \in DOMAIN inc : inc'[m] = inc[m]
      /\ raced \subseteq raced'
      /\ UNCHANGED <<tracker, quizState>>
  BY DEF IncReads, Put
<1>2. \A x : Saving(x) => Saving(x)'
  BY <1>1 DEF Saving, CallsOf
<1> QED BY <1>1, <1>2 DEF QuizIsCopied

\* A call past its write is saving, until it has written the key or found none.
LEMMA QuizCopyContinues ==
    ASSUME TrackerInv, QuizIsCopied, ~WriteFaults, NEW l \in DOMAIN inc,
           IncContinues(l)
    PROVE  QuizIsCopied'
<1> DEFINE s == inc[l].session
<1>1. CASE IncWrites(l)
  <2>1. /\ DOMAIN inc' = DOMAIN inc
        /\ inc[l] \in Call
        /\ inc'[l].session = s
        /\ inc'[l].pc = "get"
        /\ \A m \in DOMAIN inc : m # l => inc'[m] = inc[m]
        /\ raced' = raced
        /\ quizState' = quizState
        /\ s \in DOMAIN tracker
        /\ DOMAIN tracker' = DOMAIN tracker
        /\ \A x \in DOMAIN tracker : x # s => tracker'[x] = tracker[x]
    BY <1>1, Entries DEF IncWrites, TrackerInv, CallsInRange, Put, Call
  <2>2. Saving(s)'
    BY <2>1 DEF Saving, CallsOf
  <2>3. \A x : Saving(x) => Saving(x)'
    BY <1>1, <2>1 DEF Saving, CallsOf, IncWrites
  <2> QED BY <2>1, <2>2, <2>3 DEF QuizIsCopied
<1>2. CASE IncGets(l)
  <2>1. /\ UNCHANGED <<tracker, quizState, raced>>
        /\ inc[l].pc = "get"
        /\ inc[l] \in Call
    BY <1>2, Entries DEF IncGets, TrackerInv
  <2>2. CASE s \in DOMAIN quizState
    <3>1. inc' = [inc EXCEPT ![l].pc = "set", ![l].quiz = quizState[s].quiz]
      BY <1>2, <2>2 DEF IncGets
    <3>2. /\ DOMAIN inc' = DOMAIN inc
          /\ inc'[l].session = s
          /\ inc'[l].pc = "set"
          /\ \A m \in DOMAIN inc : m # l => inc'[m] = inc[m]
      BY <2>1, <3>1 DEF Call
    <3>3. \A x : Saving(x) => Saving(x)'
      BY <3>2 DEF Saving, CallsOf
    <3> QED BY <2>1, <3>3 DEF QuizIsCopied
  <2>3. CASE s \notin DOMAIN quizState
    <3>1. /\ DOMAIN inc' = (DOMAIN inc) \ {l}
          /\ \A m \in DOMAIN inc' : inc'[m] = inc[m]
      BY <1>2, <2>3 DEF IncGets, Delete
    <3>2. \A x : x # s /\ Saving(x) => Saving(x)'
      BY <3>1 DEF Saving, CallsOf
    <3> QED BY <2>1, <2>3, <3>2 DEF QuizIsCopied
  <2> QED BY <2>2, <2>3
<1>3. CASE IncSets(l)
  <2> DEFINE oq == [idx |-> inc[l].idx, quiz |-> inc[l].quiz]
  <2>1. /\ UNCHANGED <<tracker, raced>>
        /\ inc[l].pc = "set"
        /\ quizState' = Put(quizState, s, oq)
        /\ DOMAIN inc' = (DOMAIN inc) \ {l}
        /\ \A m \in DOMAIN inc' : inc'[m] = inc[m]
    BY <1>3 DEF IncSets, SetSessionQuiz, Delete
  <2>2. \A x : x # s /\ Saving(x) => Saving(x)'
    BY <2>1 DEF Saving, CallsOf
  <2>3. s \notin raced => oq = tracker[s]
    <3>1. /\ s \in DOMAIN tracker
          /\ tracker[s] \in OngoingQuiz
          /\ inc[l].quiz = tracker[s].quiz
      BY Entries DEF TrackerInv, CallsInRange
    <3>2. s \notin raced => inc[l].idx = tracker[s].idx
      BY <2>1, <3>1, Entries DEF TrackerInv, OneByOne, CallsOf
    <3> QED BY <3>1, <3>2 DEF OngoingQuiz
  <2> HIDE DEF oq
  <2> QED BY <2>1, <2>2, <2>3 DEF QuizIsCopied, Put
<1> QED BY <1>1, <1>2, <1>3 DEF IncContinues

\* A method that writes through the cache keeps the quiz copied.
LEMMA QuizCopyStep ==
    ASSUME TrackerInv, QuizIsCopied, ~WriteFaults, TrackerNext
    PROVE  QuizIsCopied'
<1>1. CASE UNCHANGED <<tracker, quizState, inc, raced>>
  BY <1>1 DEF QuizIsCopied, Saving, CallsOf
<1>2. ASSUME NEW s \in Sessions, NEW quiz \in Quizzes, NewSession(s, quiz),
             ~UNCHANGED trackerVars
      PROVE  QuizIsCopied'
  <2>1. /\ tracker' = Put(tracker, s, [idx |-> -1, quiz |-> quiz])
        /\ quizState' = Put(quizState, s, tracker'[s])
        /\ UNCHANGED <<inc, raced>>
    BY <1>2 DEF NewSession, SetSessionQuiz
  <2>2. \A x : Saving(x)' = Saving(x)
    BY <2>1 DEF Saving, CallsOf
  <2> QED BY <2>1, <2>2 DEF QuizIsCopied, Put
<1>3. ASSUME NEW l \in Loops, NEW s \in Sessions, IncReads(l, s)
      PROVE  QuizIsCopied'
  BY <1>3, QuizCopyReads
<1>4. ASSUME NEW l \in DOMAIN inc, IncContinues(l)
      PROVE  QuizIsCopied'
  BY <1>4, QuizCopyContinues
<1>5. CASE Restore
  <2>1. CASE tracker' = EmptyMap
    BY <2>1 DEF EmptyMap, QuizIsCopied
  <2>2. CASE tracker' \in AllSessions
    BY <1>5, <2>2 DEF AllSessions, QuizIsCopied, Restore
  <2> QED BY <1>5, <2>1, <2>2 DEF Restore
<1>6. ASSUME NEW s \in Sessions, Expire(s)
      PROVE  QuizIsCopied'
  <2>1. /\ quizState' = Delete(quizState, s)
        /\ UNCHANGED <<tracker, inc, raced>>
    BY <1>6 DEF Expire
  <2>2. \A x : Saving(x)' = Saving(x)
    BY <2>1 DEF Saving, CallsOf
  <2> QED BY <2>1, <2>2 DEF QuizIsCopied, Delete
<1> QED BY <1>1, <1>2, <1>3, <1>4, <1>5, <1>6
        DEF TrackerNext, AddParticipant, RecordAnswerReads,
            RecordAnswerWrites, trackerVars

\* Arrays made on the spot are empty.
LEMMA AnswersCopyNewArray ==
    ASSUME TrackerInv, AnswersAreCopied, NEW s \in DOMAIN answers, NEW u,
           NEW row, row = ArrayOf(s, u),
           answers' = Put(answers, s, Put(answers[s], u, row)),
           answerHash' = answerHash
    PROVE  AnswersAreCopied'
<1>1. \A q \in DOMAIN row : row[q].answered =>
         /\ <<s, u, q>> \in DOMAIN answerHash
         /\ answerHash[<<s, u, q>>] = row[q]
  <2>1. CASE u \in DOMAIN answers[s]
    BY <2>1 DEF ArrayOf, AnswersAreCopied
  <2>2. CASE u \notin DOMAIN answers[s]
    <3>1. row = NewArray(Tracked(s).quiz)
      BY <2>2 DEF ArrayOf
    <3>2. \A q \in DOMAIN row : ~row[q].answered
      BY <3>1, NewArrayType
    <3> QED BY <3>2
  <2> QED BY <2>1, <2>2
<1>2. /\ DOMAIN answers' = DOMAIN answers
      /\ \A x \in DOMAIN answers : x # s => answers'[x] = answers[x]
      /\ DOMAIN answers'[s] = (DOMAIN answers[s]) \cup {u}
      /\ answers'[s][u] = row
      /\ \A v \in DOMAIN answers[s] : v # u => answers'[s][v] = answers[s][v]
  BY DEF Put
<1> SUFFICES ASSUME NEW x \in DOMAIN answers, NEW v \in DOMAIN answers'[x],
                    NEW q \in DOMAIN answers'[x][v],
                    answers'[x][v][q].answered
             PROVE  /\ <<x, v, q>> \in DOMAIN answerHash
                    /\ answerHash[<<x, v, q>>] = answers'[x][v][q]
  BY <1>2 DEF AnswersAreCopied
<1>3. CASE x = s /\ v = u
  BY <1>1, <1>2, <1>3
<1>4. CASE x # s \/ v # u
  <2>1. /\ v \in DOMAIN answers[x]
        /\ answers'[x][v] = answers[x][v]
    BY <1>2, <1>4
  <2> QED BY <2>1 DEF AnswersAreCopied
<1> QED BY <1>3, <1>4

\* The answer recorded goes to its slot of the array and to its field of the
\* hash.
LEMMA AnswersCopyWrites ==
    ASSUME TrackerInv, AnswersAreCopied, ~WriteFaults, RecordAnswerWrites
    PROVE  AnswersAreCopied'
<1>1. PICK r \in recording :
        /\ answers' = [answers EXCEPT ![r.session][r.user][r.qid] = r.answer]
        /\ CacheRecordAnswer(r.session, r.user, r.qid, r.answer)
  BY DEF RecordAnswerWrites
<1>2. PICK row : row = [answers[r.session][r.user] EXCEPT ![r.qid] = r.answer]
  OBVIOUS
<1>3. PICK s, u, c : s = r.session /\ u = r.user /\ c = r.qid
  OBVIOUS
<1>4. /\ s \in DOMAIN answers
      /\ u \in DOMAIN answers[s]
      /\ DOMAIN answers' = DOMAIN answers
      /\ \A x \in DOMAIN answers : x # s => answers'[x] = answers[x]
      /\ DOMAIN answers'[s] = DOMAIN answers[s]
      /\ answers'[s][u] = row
      /\ \A v \in DOMAIN answers[s] : v # u => answers'[s][v] = answers[s][v]
  BY <1>1, <1>2, <1>3, RecordingRow
<1>5. /\ DOMAIN answerHash' = (DOMAIN answerHash) \cup {<<s, u, c>>}
      /\ answerHash'[<<s, u, c>>] = r.answer
      /\ \A k \in DOMAIN answerHash :
            k # <<s, u, c>> => answerHash'[k] = answerHash[k]
  BY <1>1, <1>3 DEF CacheRecordAnswer, Put
<1>6. \A q \in DOMAIN row :
         /\ q \in DOMAIN answers[s][u]
         /\ row[q] = IF q = c THEN r.answer ELSE answers[s][u][q]
  BY <1>2, <1>3
<1> SUFFICES ASSUME NEW x \in DOMAIN answers, NEW v \in DOMAIN answers'[x],
                    NEW q \in DOMAIN answers'[x][v],
                    answers'[x][v][q].answered
             PROVE  /\ <<x, v, q>> \in DOMAIN answerHash'
                    /\ answerHash'[<<x, v, q>>] = answers'[x][v][q]
  BY <1>4 DEF AnswersAreCopied
<1>7. CASE x = s /\ v = u /\ q = c
  BY <1>4, <1>5, <1>6, <1>7
<1>8. CASE ~(x = s /\ v = u /\ q = c)
  <2>1. /\ v \in DOMAIN answers[x]
        /\ q \in DOMAIN answers[x][v]
        /\ answers'[x][v][q] = answers[x][v][q]
    BY <1>4, <1>6, <1>8
  <2>2. /\ <<x, v, q>> \in DOMAIN answerHash
        /\ answerHash[<<x, v, q>>] = answers[x][v][q]
    BY <2>1 DEF AnswersAreCopied
  <2>3. <<x, v, q>> # <<s, u, c>>
    BY <1>8
  <2>4. answerHash'[<<x, v, q>>] = answerHash[<<x, v, q>>]
    BY <1>5, <2>2, <2>3
  <2> QED BY <1>5, <2>1, <2>2, <2>4
<1> QED BY <1>7, <1>8

\* A method that writes through the cache keeps the answers copied.
LEMMA AnswersCopyStep ==
    ASSUME TrackerInv, AnswersAreCopied, ~WriteFaults, TrackerNext
    PROVE  AnswersAreCopied'
<1>1. CASE UNCHANGED <<answers, answerHash>>
  BY <1>1 DEF AnswersAreCopied
<1>2. ASSUME NEW s \in Sessions, NEW quiz \in Quizzes, NewSession(s, quiz)
      PROVE  AnswersAreCopied'
  BY <1>2 DEF AnswersAreCopied, NewSession, Put, trackerVars, EmptyMap
<1>3. ASSUME NEW s \in Sessions, NEW u \in Users, AddParticipant(s, u),
             ~UNCHANGED answers
      PROVE  AnswersAreCopied'
  <2>1. /\ s \in DOMAIN answers
        /\ answers' = Put(answers, s, Put(answers[s], u, ArrayOf(s, u)))
        /\ answerHash' = answerHash
    BY <1>3 DEF AddParticipant, ArrayOf
  <2> QED BY <2>1, AnswersCopyNewArray
<1>4. ASSUME NEW s \in Sessions, NEW u \in Users, NEW a,
             RecordAnswerReads(s, u, a)
      PROVE  AnswersAreCopied'
  BY <1>4, AnswersCopyNewArray DEF RecordAnswerReads
<1>5. CASE RecordAnswerWrites
  BY <1>5, AnswersCopyWrites
<1>6. CASE Restore
  BY <1>6 DEF Restore, EmptyMap, AnswersAreCopied
<1> QED BY <1>1, <1>2, <1>3, <1>4, <1>5, <1>6
        DEF TrackerNext, IncReads, IncContinues, IncWrites, IncGets, IncSets,
            AddParticipant, Expire

\* With no write lost, Redis holds what the tracker would need after a crash,
\* the quiz at its current question once its increment is through, unless two
\* increments overlapped, and every answer given, although restoreData reads
\* only the former.
THEOREM TrackerCacheIsCopy == TrackerSpec => []CacheIsCopy
<1>1. TrackerInit => CacheIsCopy
  BY DEF TrackerInit, CacheIsCopy, EmptyMap
<1>2. TrackerInv /\ CacheIsCopy /\ [TrackerNext]_trackerVars => CacheIsCopy'
  <2> SUFFICES ASSUME TrackerInv, CacheIsCopy, [TrackerNext]_trackerVars,
                      ~WriteFaults
               PROVE  QuizIsCopied' /\ AnswersAreCopied'
    BY DEF CacheIsCopy, QuizIsCopied, AnswersAreCopied
  <2>1. QuizIsCopied /\ AnswersAreCopied
    BY DEF CacheIsCopy, QuizIsCopied, AnswersAreCopied
  <2>2. CASE TrackerNext
    BY <2>1, <2>2, QuizCopyStep, AnswersCopyStep
  <2>3. CASE UNCHANGED trackerVars
    BY <2>1, <2>3 DEF trackerVars, QuizIsCopied, AnswersAreCopied, Saving,
                      CallsOf
  <2> QED BY <2>2, <2>3
<1> QED BY <1>1, <1>2, TrackerInvariant, PTL DEF TrackerSpec

-----------------------------------------------------------------------------
(* The tracker implements QuizProgress, for every set of sessions, users,  *)
(* callers, quizzes and options and every combination of faults.  The      *)
(* refinement mapping needs TrackerInv: Begin must not meet a saved game,  *)
(* which is CacheNotAhead, an increment opens the next question only       *)
(* because of OneByOne, and the record it writes is the game being played  *)
(* because its call has the quiz of the game (CallsInRange).               *)

\* The values of QuizProgress's variables under the refinement mapping.
Games  == [s \in Playable |-> tracker[s]]
Opened == [s \in Playable |-> reached[s]]
progressVars == <<Games, Opened, raced, quizState>>

\* NewQuizTracker (quiz_tracker.go:26) starts with no game.
LEMMA ProgressInit == TrackerInit => Progress!Init
BY DEF TrackerInit, Playable, EmptyMap, Progress!Init, Progress!EmptyMap

\* What changes neither the games nor their copy is a stuttering step.
LEMMA ProgressStutter ==
    ASSUME UNCHANGED <<tracker, reached, raced, quizState>>
    PROVE  UNCHANGED progressVars
BY DEF progressVars, Games, Opened, Playable, LostQuiz, NoQuiz

\* NewSession (quiz_tracker.go:137) begins a game, or leaves all as it is.
LEMMA ProgressNewSession ==
    ASSUME TrackerInv, NEW s \in Sessions, NEW quiz \in Quizzes,
           NewSession(s, quiz), ~UNCHANGED trackerVars
    PROVE  Progress!Begin(s, quiz)
<1> DEFINE game == [idx |-> -1, quiz |-> quiz]
<1>1. /\ s \notin DOMAIN tracker
      /\ ~nilTracker
      /\ tracker' = Put(tracker, s, game)
      /\ reached' = Put(reached, s, -1)
      /\ SetSessionQuiz(s, tracker'[s])
      /\ raced' = raced
  BY DEF NewSession
<1>2. s \notin DOMAIN quizState
  BY <1>1 DEF TrackerInv, CacheNotAhead
<1>3. game # LostQuiz
  BY DEF LostQuiz
<1>4. tracker'[s] = game /\ reached'[s] = -1
  BY <1>1 DEF Put
<1>5. Playable' = Playable \cup {s}
  BY <1>1, <1>3 DEF Playable, Put, LostQuiz, NoQuiz
<1>6. Games' = Put(Games, s, game)
  BY <1>1, <1>4, <1>5 DEF Games, Put, Playable
<1>7. Opened' = Put(Opened, s, -1)
  <2>1. \A x \in Playable : x # s /\ x \in DOMAIN reached
    BY <1>1 DEF TrackerInv, TrackerTypeOK, Playable
  <2> QED BY <1>1, <1>4, <1>5, <2>1 DEF Opened, Put
<1>8. Games'[s] = game
  BY <1>6 DEF Put
<1>9. quizState' \in {quizState, Put(quizState, s, Games'[s])}
  BY <1>1, <1>4, <1>8 DEF SetSessionQuiz
<1>10. s \notin DOMAIN Games
  BY <1>1 DEF Games, Playable
<1> QED BY <1>1, <1>2, <1>6, <1>7, <1>9, <1>10
        DEF Progress!Begin, Progress!Put, Put, Games, Opened

\* The game of a call in progress.
LEMMA CallGame ==
    ASSUME TrackerInv, NEW l \in DOMAIN inc
    PROVE  LET s == inc[l].session
           IN  /\ s \in Playable
               /\ s \in DOMAIN tracker
               /\ Games[s] = tracker[s]
               /\ Opened[s] = reached[s]
               /\ inc[l].quiz = tracker[s].quiz
               /\ inc[l].idx \in Int
               /\ inc[l].idx \in 0 .. (Len(Games[s].quiz) - 1)
               /\ tracker[s] \in OngoingQuiz
               /\ reached[s] \in Int
BY Entries DEF TrackerInv, CallsInRange, Games, Opened, Playable

\* A read by a second caller makes the game a contested one.
LEMMA ProgressReads ==
    ASSUME TrackerInv, NEW l \in Loops, NEW s \in Sessions, IncReads(l, s),
           ~UNCHANGED progressVars
    PROVE  s \in DOMAIN Games /\ Progress!Contend(s)
<1>1. /\ s \in DOMAIN tracker
      /\ tracker[s] # LostQuiz
      /\ UNCHANGED <<tracker, reached, quizState>>
      /\ raced' \in {raced, raced \cup {s}}
  BY AdvanceNotLost DEF TrackerInv, IncReads, CanAdvance
<1>2. raced' # raced
  BY <1>1, ProgressStutter
<1>3. UNCHANGED <<Games, Opened, quizState>>
  BY <1>1 DEF Games, Opened, Playable, LostQuiz, NoQuiz
<1>4. s \in DOMAIN Games
  BY <1>1 DEF Games, Playable
<1> QED BY <1>1, <1>2, <1>3, <1>4 DEF Progress!Contend, Games, Opened

\* The write of the index (quiz_tracker.go:83) opens the next question, or, in
\* a contested game, one that is no further.
LEMMA ProgressWrites ==
    ASSUME TrackerInv, NEW l \in DOMAIN inc, IncWrites(l)
    PROVE  LET s == inc[l].session
           IN  /\ s \in DOMAIN Games
               /\ inc[l].idx \in 0 .. (Len(Games[s].quiz) - 1)
               /\ Progress!Open(s, inc[l].idx)
<1> DEFINE s == inc[l].session
           i == inc[l].idx
           game == [idx |-> i, quiz |-> inc[l].quiz]
<1>1. /\ inc[l].pc = "write"
      /\ tracker' = Put(tracker, s, game)
      /\ reached' = [reached EXCEPT ![s] = IF i > reached[s] THEN i
                                                            ELSE reached[s]]
      /\ UNCHANGED <<raced, quizState>>
  BY DEF IncWrites
<1>2. /\ s \in Playable
      /\ s \in DOMAIN tracker
      /\ Games[s] = tracker[s]
      /\ Opened[s] = reached[s]
      /\ inc[l].quiz = tracker[s].quiz
      /\ i \in Int
      /\ i \in 0 .. (Len(tracker[s].quiz) - 1)
      /\ tracker[s] \in OngoingQuiz
      /\ reached[s] \in Int
  BY CallGame
<1>3. /\ i <= reached[s] + 1
      /\ s \notin raced => i = tracker[s].idx + 1
  BY <1>1, <1>2 DEF TrackerInv, CallsInRange, OneByOne, CallsOf
<1>4. game = [tracker[s] EXCEPT !.idx = i]
  BY <1>2 DEF OngoingQuiz
<1>5. game # LostQuiz
  <2>1. Len(game.quiz) # 0
    BY <1>2
  <2> QED BY <2>1, ZeroValues, QuizLen
<1> HIDE DEF game
<1>6. /\ DOMAIN tracker' = DOMAIN tracker
      /\ tracker'[s] = game
      /\ \A x \in DOMAIN tracker : x # s => tracker'[x] = tracker[x]
      /\ DOMAIN reached = DOMAIN tracker
      /\ DOMAIN reached' = DOMAIN reached
      /\ reached'[s] = IF i > reached[s] THEN i ELSE reached[s]
      /\ \A x \in DOMAIN reached : x # s => reached'[x] = reached[x]
  BY <1>1, <1>2 DEF Put, TrackerInv, TrackerTypeOK
<1>7. Playable' = Playable
  BY <1>2, <1>5, <1>6 DEF Playable, LostQuiz, NoQuiz
<1>8. Games' = [Games EXCEPT ![s] = game]
  BY <1>2, <1>6, <1>7 DEF Games, Playable
<1>9. Games' = [Games EXCEPT ![s].idx = i]
  BY <1>2, <1>4, <1>8
<1>10. Opened' = [Opened EXCEPT ![s] = IF i > Opened[s] THEN i ELSE Opened[s]]
  BY <1>2, <1>6, <1>7 DEF Opened, Playable
<1>11. s \in DOMAIN Games
  BY <1>2 DEF Games
<1> QED BY <1>1, <1>2, <1>3, <1>9, <1>10, <1>11
        DEF Progress!Open, Games, Opened

\* The SET of a call (redis.go:132) saves the game, or, of a contested one,
\* some question that was opened.
LEMMA ProgressSets ==
    ASSUME TrackerInv, NEW l \in DOMAIN inc, IncSets(l),
           ~UNCHANGED progressVars
    PROVE  LET s == inc[l].session
           IN  /\ s \in DOMAIN Games
               /\ inc[l].idx \in 0 .. (Len(Games[s].quiz) - 1)
               /\ Progress!Save(s, inc[l].idx)
<1> DEFINE s == inc[l].session
           i == inc[l].idx
           game == [idx |-> i, quiz |-> inc[l].quiz]
<1>1. /\ inc[l].pc = "set"
      /\ quizState' = Put(quizState, s, game) \/ quizState' = quizState
      /\ UNCHANGED <<tracker, reached, raced>>
  BY DEF IncSets, SetSessionQuiz
<1>2. quizState' = Put(quizState, s, game)
  BY <1>1, ProgressStutter
<1>3. /\ s \in Playable
      /\ s \in DOMAIN tracker
      /\ Games[s] = tracker[s]
      /\ Opened[s] = reached[s]
      /\ inc[l].quiz = tracker[s].quiz
      /\ i \in Int
      /\ i \in 0 .. (Len(tracker[s].quiz) - 1)
      /\ tracker[s] \in OngoingQuiz
      /\ reached[s] \in Int
  BY CallGame
<1>4. /\ i <= reached[s]
      /\ s \notin raced => i = tracker[s].idx
  BY <1>1, <1>3, Entries DEF TrackerInv, CallsInRange, OneByOne, CallsOf
<1>5. game = [Games[s] EXCEPT !.idx = i]
  BY <1>3 DEF OngoingQuiz
<1> HIDE DEF game
<1>6. UNCHANGED <<Games, Opened>>
  BY <1>1 DEF Games, Opened, Playable, LostQuiz, NoQuiz
<1>7. s \in DOMAIN Games
  BY <1>3 DEF Games
<1> QED BY <1>1, <1>2, <1>3, <1>4, <1>5, <1>6, <1>7
        DEF Progress!Save, Progress!Put, Put, Games, Opened

\* restoreData (quiz_tracker.go:209) resumes some of the saved games.
LEMMA ProgressRestore ==
    ASSUME TrackerInv, Restore
    PROVE  Progress!Restart
<1> DEFINE known == Playable'
<1>1. /\ known \subseteq DOMAIN quizState
      /\ \A s \in known : tracker'[s] = quizState[s]
      /\ known \subseteq DOMAIN tracker'
  BY DEF Restore, AllSessions, Playable, EmptyMap, LostQuiz, NoQuiz
<1>2. Games' = [s \in known |-> quizState[s]]
  BY <1>1 DEF Games
<1>3. Opened' = [s \in DOMAIN Games' |-> Games'[s].idx]
  <2>1. reached' = [s \in DOMAIN tracker' |-> tracker'[s].idx]
    BY DEF Restore, StartsAnew
  <2>2. DOMAIN Games' = known /\ \A s \in known : Games'[s] = tracker'[s]
    BY DEF Games
  <2> QED BY <1>1, <2>1, <2>2 DEF Opened
<1>4. raced' = {} /\ UNCHANGED quizState
  BY DEF Restore, StartsAnew
<1> QED BY <1>1, <1>2, <1>3, <1>4 DEF Progress!Restart, Games, Opened

\* Opening or saving a question of a game being played is a step of it.
LEMMA ProgressStep ==
    ASSUME NEW s \in DOMAIN Games, NEW i \in 0 .. (Len(Games[s].quiz) - 1),
           Progress!Open(s, i) \/ Progress!Save(s, i)
    PROVE  Progress!Next
<1>1. Games = [x \in Playable |-> tracker[x]]
  BY DEF Games
<1>2. \E x \in DOMAIN Games : \E j \in 0 .. (Len(Games[x].quiz) - 1) :
         Progress!Open(x, j) \/ Progress!Save(x, j)
  OBVIOUS
<1> QED BY <1>1, <1>2 DEF Progress!Next

\* The tracker, whatever its callers do, with as many of them incrementing at
\* once as there may be, and whatever Redis loses, implements QuizProgress:
\* questions in order, none skipped, restarts only from saved games
\* (quiz_tracker.go with redis.go).
THEOREM TrackerImplementsProgress == TrackerSpec => ImplementsProgress
<1>1. TrackerInit => Progress!Init
  BY ProgressInit
<1>2. TrackerInv /\ [TrackerNext]_trackerVars
        => [Progress!Next]_progressVars
  <2> SUFFICES ASSUME TrackerInv, [TrackerNext]_trackerVars,
                      ~UNCHANGED progressVars
               PROVE  Progress!Next
    OBVIOUS
  <2>1. ~UNCHANGED <<tracker, reached, raced, quizState>>
    BY ProgressStutter
  <2>2. CASE \E s \in Sessions, quiz \in Quizzes : NewSession(s, quiz)
    BY <2>1, <2>2, ProgressNewSession DEF Progress!Next, trackerVars
  <2>3. CASE \E l \in Loops, s \in Sessions : IncReads(l, s)
    BY <2>3, ProgressReads DEF Progress!Next, Games
  <2>4. ASSUME NEW l \in DOMAIN inc, IncWrites(l)
        PROVE  Progress!Next
    <3>1. /\ inc[l].session \in DOMAIN Games
          /\ inc[l].idx \in 0 .. (Len(Games[inc[l].session].quiz) - 1)
          /\ Progress!Open(inc[l].session, inc[l].idx)
      BY <2>4, ProgressWrites
    <3>2. PICK s, i : s = inc[l].session /\ i = inc[l].idx
      OBVIOUS
    <3>3. /\ s \in DOMAIN Games
          /\ i \in 0 .. (Len(Games[s].quiz) - 1)
      BY <3>1, <3>2
    <3>4. Progress!Open(s, i)
      BY <3>1, <3>2 DEF Progress!Open
    <3> QED BY <3>3, <3>4, ProgressStep
  <2>5. ASSUME NEW l \in DOMAIN inc, IncSets(l)
        PROVE  Progress!Next
    <3>1. /\ inc[l].session \in DOMAIN Games
          /\ inc[l].idx \in 0 .. (Len(Games[inc[l].session].quiz) - 1)
          /\ Progress!Save(inc[l].session, inc[l].idx)
      BY <2>5, ProgressSets
    <3> QED BY <3>1, ProgressStep
  <2>6. CASE Restore
    BY <2>6, ProgressRestore DEF Progress!Next
  <2>7. CASE \E s \in Sessions : Expire(s)
    <3>1. PICK s \in Sessions : Expire(s)
      BY <2>7
    <3>2. UNCHANGED <<Games, Opened, raced>>
      BY <3>1 DEF Expire, Games, Opened, Playable, LostQuiz, NoQuiz
    <3>3. s \in DOMAIN quizState /\ Progress!Forget(s)
      BY <3>1, <3>2
         DEF Expire, Progress!Forget, Progress!Delete, Delete, Games, Opened
    <3> QED BY <3>3 DEF Progress!Next
  <2> QED BY <2>1, <2>2, <2>3, <2>4, <2>5, <2>6, <2>7
          DEF TrackerNext, IncContinues, IncGets, AddParticipant,
              RecordAnswerReads, RecordAnswerWrites, trackerVars
<1> QED BY <1>1, <1>2, TrackerInvariant, PTL
        DEF TrackerSpec, ImplementsProgress, Progress!Spec, Progress!vars,
            progressVars, Games, Opened
=============================================================================
