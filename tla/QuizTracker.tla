---------------------------- MODULE QuizTracker ----------------------------
(***************************************************************************)
(* QuizTracker (real_time/ws/quiz_tracker.go): the Real-Time service's     *)
(* record of every running quiz and of the answers given so far, and the   *)
(* copy of it that the cache (real_time/cache/redis/redis.go) keeps for    *)
(* the next process.                                                       *)
(*                                                                         *)
(* All methods but IncQuestionIdx hold the tracker's mutex for their whole *)
(* body, and each is one step, except RecordAnswer: it reads the index and *)
(* then writes the answer, and in between IncQuestionIdx, which takes no   *)
(* lock, can move the index.  IncQuestionIdx itself is four steps (it      *)
(* reads the index, writes it, and has the cache GET and SET its copy), of *)
(* which those of two callers may interleave.  Using the map without the   *)
(* lock can also be a fatal error in Go, which RealTime!Crash stands for.  *)
(* A crash inside a method that is one step leaves what a crash before or  *)
(* after it leaves, as each writes to Redis once, last.  Redis has done or *)
(* dropped a command before a later one of the same game reaches it.  The  *)
(* two methods nobody calls, SetCurrQuestionIdx and DeleteSession, are     *)
(* left out.  This module says what the tracker promises whoever calls it; *)
(* RealTime composes it with the goroutines that do.                       *)
(*                                                                         *)
(* Timestamps are left out: the tracker only copies them (LeaderBoard is   *)
(* about what they are used for).                                          *)
(***************************************************************************)
EXTENDS Integers, Sequences, GoMap, QuizData

CONSTANTS
    Sessions,     \* session codes
    Users,        \* ids of participants
    Loops,        \* ids of the goroutines that call IncQuestionIdx
    Quizzes,      \* the quizzes a session.start message may carry
    Options,      \* the option indexes a participant may send
    WriteFaults,  \* TRUE: a game's write to Redis, or the read before it, may
                  \* fail (every error is dropped)
    ReadFaults,   \* TRUE: reads from Redis may fail during restoreData
    Expiry        \* TRUE: the 24 h TTL of a quiz_state key may run out

ASSUME QuizzesAssumption == Quizzes \subseteq Seq(Question)
ASSUME OptionsAssumption == Options \subseteq Int
ASSUME FaultsAssumption  == /\ WriteFaults \in BOOLEAN
                            /\ ReadFaults \in BOOLEAN
                            /\ Expiry \in BOOLEAN

VARIABLES
    tracker,     \* sessionId -> [idx, quiz] (models.OngoingQuiz)
    nilTracker,  \* tracker is the nil map a failed restore leaves behind
    answers,     \* sessionId -> userId -> array of answers, one per question
    quizState,   \* Redis "session:<s>:quiz_state"
    answerHash,  \* Redis "session:<s>:user:<u>:answers", field q
    inc,         \* calls of IncQuestionIdx in progress, by caller
    recording,   \* the call of RecordAnswer in progress: it holds the mutex
    reached,     \* history: the highest index a game has had in this process
    raced        \* history: games two callers have incremented at once

trackerVars == <<tracker, nilTracker, answers, quizState, answerHash, inc,
                 recording, reached, raced>>

-----------------------------------------------------------------------------
\* models.UserAnswer and its zero value, "not answered".
Answer   == [answered : BOOLEAN, option : Options \cup {0}, correct : BOOLEAN]
NoAnswer == [answered |-> FALSE, option |-> 0, correct |-> FALSE]

\* models.OngoingQuiz and its zero value.
OngoingQuiz == [idx : Int, quiz : Quizzes \cup {NoQuiz}]
LostQuiz    == [idx |-> 0, quiz |-> NoQuiz]

\* IncQuestionIdx before its write, before the GET and before the SET.
Call == [session : Sessions, pc : {"write", "get", "set"}, idx : Int,
         quiz : Quizzes \cup {NoQuiz}]

\* RecordAnswer between its read of the index and its write.
Recording == [session : Sessions, user : Users, qid : Int, answer : Answer]

\* make([]models.UserAnswer, quiz.Len()).
NewArray(quiz) == [q \in 0 .. (Len(quiz) - 1) |-> NoAnswer]

\* q.tracker[s], the zero value for an unknown session.
Tracked(s) == IF s \in DOMAIN tracker THEN tracker[s] ELSE LostQuiz

\* GetCurrentQuestion(s): the index alone; -1 for an unknown session.
CurrentIdx(s) == IF s \in DOMAIN tracker THEN tracker[s].idx ELSE -1

\* Nobody holds the mutex from one step to the next.
Unlocked == recording = {}

\* The calls of IncQuestionIdx for a session.
CallsOf(s) == {l \in DOMAIN inc : inc[l].session = s}

\* The option processAnswer compares with: GetCorrectOption(s, q).
CorrectOption(s, q) == GetCorrectOption(GetQuestion(Tracked(s).quiz, q))

-----------------------------------------------------------------------------
(* The cache.                                                              *)

\* SetSessionQuiz: SET with a TTL; the tracker drops the error.
SetSessionQuiz(s, oq) ==
    \/ quizState' = Put(quizState, s, oq)
    \/ WriteFaults /\ UNCHANGED quizState

\* A mutant: the answer is filed under the next question.
CacheRecordAnswer_NextField(s, u, q, a) ==
    answerHash' = Put(answerHash, <<s, u, q + 1>>, a)

\* cache.RecordAnswer: HSET of one field.
CacheRecordAnswer(s, u, q, a) ==
    \/ answerHash' = Put(answerHash, <<s, u, q>>, a)
    \/ WriteFaults /\ UNCHANGED answerHash

-----------------------------------------------------------------------------
(* The tracker's methods.                                                  *)

TrackerInit ==
    /\ tracker = EmptyMap
    /\ nilTracker = FALSE
    /\ answers = EmptyMap
    /\ quizState = EmptyMap
    /\ answerHash = EmptyMap
    /\ inc = EmptyMap
    /\ recording = {}
    /\ reached = EmptyMap
    /\ raced = {}

\* NewSession: a session the tracker already knows is left as it is.
NewSession(s, quiz) ==
    /\ Unlocked
    /\ \/ /\ s \in DOMAIN tracker
          /\ UNCHANGED trackerVars
       \/ /\ s \notin DOMAIN tracker
          /\ ~nilTracker
          /\ tracker' = Put(tracker, s, [idx |-> -1, quiz |-> quiz])
          /\ answers' = Put(answers, s, EmptyMap)
          /\ SetSessionQuiz(s, tracker'[s])
          /\ reached' = Put(reached, s, -1)
          /\ UNCHANGED <<nilTracker, answerHash, inc, recording, raced>>

\* Writing to the nil map panics.
NewSessionPanics(s) == Unlocked /\ s \notin DOMAIN tracker /\ nilTracker

\* A mutant: the last question is passed.
CanAdvance_PastTheEnd(s) ==
    s \in DOMAIN tracker /\ tracker[s].idx + 1 <= Len(tracker[s].quiz)

\* Otherwise IncQuestionIdx returns false and changes nothing.
CanAdvance(s) ==
    s \in DOMAIN tracker /\ tracker[s].idx + 1 < Len(tracker[s].quiz)

\* A mutant: the new index is cached before it is stored.
IncReads_CacheFirst(l, s) ==
    /\ l \notin DOMAIN inc
    /\ CanAdvance(s)
    /\ inc' = Put(inc, l, [session |-> s, pc |-> "get",
                           idx |-> tracker[s].idx + 1,
                           quiz |-> tracker[s].quiz])
    /\ UNCHANGED <<tracker, nilTracker, answers, quizState, answerHash,
                   recording, reached, raced>>

\* IncQuestionIdx: the game is read and its index incremented in the copy.
IncReads(l, s) ==
    /\ l \notin DOMAIN inc
    /\ CanAdvance(s)
    /\ inc' = Put(inc, l, [session |-> s, pc |-> "write",
                           idx |-> tracker[s].idx + 1,
                           quiz |-> tracker[s].quiz])
    /\ raced' = IF CallsOf(s) = {} THEN raced ELSE raced \cup {s}
    /\ UNCHANGED <<tracker, nilTracker, answers, quizState, answerHash,
                   recording, reached>>

\* The copy is written back, whatever another caller wrote since.
IncWrites(l) ==
    LET s == inc[l].session
        i == inc[l].idx
    IN  /\ inc[l].pc = "write"
        /\ tracker' = Put(tracker, s, [idx |-> i, quiz |-> inc[l].quiz])
        /\ reached' = [reached EXCEPT ![s] = IF i > @ THEN i ELSE @]
        /\ inc' = [inc EXCEPT ![l].pc = "get"]
        /\ UNCHANGED <<nilTracker, answers, quizState, answerHash, recording,
                       raced>>

\* A mutant: an absent key is taken for an empty quiz.
IncGets_IgnoresMissing(l) ==
    LET s == inc[l].session
    IN  /\ inc[l].pc = "get"
        /\ inc' = [inc EXCEPT ![l].pc = "set",
                              ![l].quiz = IF s \in DOMAIN quizState
                                          THEN quizState[s].quiz ELSE NoQuiz]
        /\ UNCHANGED <<tracker, nilTracker, answers, quizState, answerHash,
                       recording, reached, raced>>

\* SetQuestionIndex reads the key; an absent one ends the call.
IncGets(l) ==
    LET s == inc[l].session
    IN  /\ inc[l].pc = "get"
        /\ \/ /\ s \in DOMAIN quizState
              /\ inc' = [inc EXCEPT ![l].pc = "set",
                                    ![l].quiz = quizState[s].quiz]
           \/ /\ s \notin DOMAIN quizState \/ WriteFaults
              /\ inc' = Delete(inc, l)
        /\ UNCHANGED <<tracker, nilTracker, answers, quizState, answerHash,
                       recording, reached, raced>>

\* It writes the key with the index of this call, and IncQuestionIdx returns.
IncSets(l) ==
    /\ inc[l].pc = "set"
    /\ SetSessionQuiz(inc[l].session,
                      [idx |-> inc[l].idx, quiz |-> inc[l].quiz])
    /\ inc' = Delete(inc, l)
    /\ UNCHANGED <<tracker, nilTracker, answers, answerHash, recording,
                   reached, raced>>

IncContinues(l) == IncWrites(l) \/ IncGets(l) \/ IncSets(l)

\* A mutant: the array is made with one slot too few.
AddParticipant_ShortArray(s, u) ==
    /\ Unlocked
    /\ s \in DOMAIN answers
    /\ answers' = Put(answers, s, Put(answers[s], u,
                      [q \in 0 .. (Len(Tracked(s).quiz) - 2) |-> NoAnswer]))
    /\ UNCHANGED <<tracker, nilTracker, quizState, answerHash, inc, recording,
                   reached, raced>>

\* AddParticipant: a participant who comes back keeps the answers given.
AddParticipant(s, u) ==
    /\ Unlocked
    /\ s \in DOMAIN answers
    /\ answers' = IF u \in DOMAIN answers[s] THEN answers
                  ELSE Put(answers, s,
                           Put(answers[s], u, NewArray(Tracked(s).quiz)))
    /\ UNCHANGED <<tracker, nilTracker, quizState, answerHash, inc, recording,
                   reached, raced>>

\* q.answers[s] is nil for a session without an entry: the write panics.
AddParticipantPanics(s) == Unlocked /\ s \notin DOMAIN answers

\* The array RecordAnswer writes to, made on the spot when there is none.
ArrayOf(s, u) == IF u \in DOMAIN answers[s] THEN answers[s][u]
                                            ELSE NewArray(Tracked(s).quiz)

\* A mutant: the answer is stored for the question that comes next.
RecordAnswerReads_NextQuestion(s, u, a) ==
    /\ Unlocked
    /\ s \in DOMAIN answers
    /\ CurrentIdx(s) + 1 \in DOMAIN ArrayOf(s, u)
    /\ answers' = Put(answers, s, Put(answers[s], u, ArrayOf(s, u)))
    /\ recording' = {[session |-> s, user |-> u, qid |-> CurrentIdx(s) + 1,
                      answer |-> a]}
    /\ UNCHANGED <<tracker, nilTracker, quizState, answerHash, inc, reached,
                   raced>>

\* RecordAnswer locks, makes the array when there is none, and reads the
\* index of the question that is current now.
RecordAnswerReads(s, u, a) ==
    /\ Unlocked
    /\ s \in DOMAIN answers
    /\ CurrentIdx(s) \in DOMAIN ArrayOf(s, u)
    /\ answers' = Put(answers, s, Put(answers[s], u, ArrayOf(s, u)))
    /\ recording' = {[session |-> s, user |-> u, qid |-> CurrentIdx(s),
                      answer |-> a]}
    /\ UNCHANGED <<tracker, nilTracker, quizState, answerHash, inc, reached,
                   raced>>

\* It stores the answer under that index, in the array and in the cache, and
\* unlocks.
RecordAnswerWrites ==
    \E r \in recording :
        /\ answers' = [answers EXCEPT ![r.session][r.user][r.qid] = r.answer]
        /\ CacheRecordAnswer(r.session, r.user, r.qid, r.answer)
        /\ recording' = {}
        /\ UNCHANGED <<tracker, nilTracker, quizState, inc, reached, raced>>

\* RecordAnswer panics: no answers map, or an index outside the array (the
\* index is -1 until the first question).
RecordAnswerPanics(s, u) ==
    /\ Unlocked
    /\ s \notin DOMAIN answers \/ CurrentIdx(s) \notin DOMAIN ArrayOf(s, u)

-----------------------------------------------------------------------------
(* A new process.                                                          *)

\* GetAllSessions: SCAN for the keys, then one GET per key; a GET that fails
\* yields the zero quiz.
AllSessions ==
    { [s \in DOMAIN quizState |-> IF s \in failed THEN LostQuiz
                                                  ELSE quizState[s]] :
        failed \in IF ReadFaults THEN SUBSET DOMAIN quizState ELSE {{}} }

\* What a new process has of the old one's calls, and where its games are.
StartsAnew ==
    /\ inc' = EmptyMap
    /\ recording' = {}
    /\ reached' = [s \in DOMAIN tracker' |-> tracker'[s].idx]
    /\ raced' = {}

\* A mutant: the question that was open is taken to have been played.
Restore_SkipsOpenOne ==
    /\ answers' = EmptyMap
    /\ tracker' = [s \in DOMAIN quizState |->
                      IF quizState[s].idx + 1 < Len(quizState[s].quiz)
                      THEN [quizState[s] EXCEPT !.idx = @ + 1] ELSE quizState[s]]
    /\ nilTracker' = FALSE
    /\ StartsAnew
    /\ UNCHANGED <<quizState, answerHash>>

\* NewQuizTracker and SetCache in a new process: the tracker's map is what
\* GetAllSessions returns, nil when the SCAN fails; answers start empty.
Restore ==
    /\ answers' = EmptyMap
    /\ \/ tracker' \in AllSessions /\ nilTracker' = FALSE
       \/ ReadFaults /\ tracker' = EmptyMap /\ nilTracker' = TRUE
    /\ StartsAnew
    /\ UNCHANGED <<quizState, answerHash>>

\* Redis drops a quiz_state key whose TTL has run out.
Expire(s) ==
    /\ Expiry
    /\ s \in DOMAIN quizState
    /\ quizState' = Delete(quizState, s)
    /\ UNCHANGED <<tracker, nilTracker, answers, answerHash, inc, recording,
                   reached, raced>>

\* What processAnswer hands to RecordAnswer.
GivenAnswer(o, correct) ==
    [answered |-> TRUE, option |-> o, correct |-> correct]

TrackerNext ==
    \/ \E s \in Sessions, quiz \in Quizzes : NewSession(s, quiz)
    \/ \E l \in Loops, s \in Sessions : IncReads(l, s)
    \/ \E l \in DOMAIN inc : IncContinues(l)
    \/ \E s \in Sessions, u \in Users : AddParticipant(s, u)
    \/ \E s \in Sessions, u \in Users, o \in Options, correct \in BOOLEAN :
          RecordAnswerReads(s, u, GivenAnswer(o, correct))
    \/ RecordAnswerWrites
    \/ Restore
    \/ \E s \in Sessions : Expire(s)

TrackerSpec == TrackerInit /\ [][TrackerNext]_trackerVars

-----------------------------------------------------------------------------
(* Properties.                                                             *)

\* The types of the maps of quiz_tracker.go, of the keys redis.go writes and
\* of the calls in progress.
TrackerTypeOK ==
    /\ IsMap(tracker, Sessions, OngoingQuiz)
    /\ nilTracker \in BOOLEAN
    /\ DOMAIN answers \subseteq Sessions
    /\ \A s \in DOMAIN answers : DOMAIN answers[s] \subseteq Users
    /\ IsMap(quizState, Sessions, [idx : Int, quiz : Quizzes])
    /\ IsMap(answerHash, Sessions \X Users \X Int, Answer)
    /\ IsMap(inc, Loops, Call)
    /\ recording \subseteq Recording
    /\ \A r1, r2 \in recording : r1 = r2
    /\ reached \in [DOMAIN tracker -> Int]
    /\ raced \subseteq DOMAIN tracker

\* The current index of a tracked quiz is -1 or the index of one of its
\* questions, whatever is called, by however many callers at once, and however
\* often the process restarts; only a quiz lost by a failed GET in
\* GetAllSessions has an index (0) equal to its length, the value
\* ConsumeQuestionStart takes for the end of the game.
IndexInRange ==
    \A s \in DOMAIN tracker :
        \/ tracker[s].idx \in -1 .. (Len(tracker[s].quiz) - 1)
        \/ tracker[s] = LostQuiz

\* Every answers array has exactly one slot per question of the session's
\* quiz, so GetLeaderboard and ConsumeQuestionStart, which index it with the
\* current question and the one before, never run outside it.
AnswersSized ==
    \A s \in DOMAIN answers :
        /\ s \in DOMAIN tracker
        /\ \A u \in DOMAIN answers[s] :
              answers[s][u] \in [0 .. (Len(tracker[s].quiz) - 1) -> Answer]

\* No answer is stored for a question that has not been opened, although
\* RecordAnswer takes the index at the time of the write, not at the time the
\* answer was judged, and an increment may be undone by another meanwhile.
NoFutureAnswers ==
    \A s \in DOMAIN answers : \A u \in DOMAIN answers[s] :
        \A q \in DOMAIN answers[s][u] :
            answers[s][u][q].answered => q <= reached[s]

\* The copy in Redis is never ahead of the questions opened and is always of
\* the same quiz; lost writes, expiry, restarts, and the SETs of two callers
\* that arrive in the wrong order included: a restart can repeat questions, it
\* can never skip one.
CacheNotAhead ==
    \A s \in DOMAIN quizState :
        /\ s \in DOMAIN tracker \/ nilTracker
        /\ quizState[s].idx \in -1 .. (Len(quizState[s].quiz) - 1)
        /\ s \in DOMAIN tracker /\ tracker[s] # LostQuiz =>
              /\ quizState[s].quiz = tracker[s].quiz
              /\ quizState[s].idx <= reached[s]

\* An increment that has not reached the SET.
Saving(s) == \E l \in CallsOf(s) : inc[l].pc # "write"

\* As long as no write fails, Redis holds what the tracker would need after a
\* crash, but for the increment in progress: the quiz with its current index,
\* unless two callers have incremented it at once and their SETs may have
\* come out of order; and every answer in the arrays.
CacheIsCopy ==
    ~WriteFaults =>
        /\ \A s \in (DOMAIN quizState) \ raced :
              s \in DOMAIN tracker /\ tracker[s] # LostQuiz /\ ~Saving(s) =>
                  quizState[s] = tracker[s]
        /\ \A s \in DOMAIN answers : \A u \in DOMAIN answers[s] :
              \A q \in DOMAIN answers[s][u] :
                  answers[s][u][q].answered =>
                      /\ <<s, u, q>> \in DOMAIN answerHash
                      /\ answerHash[<<s, u, q>>] = answers[s][u][q]

\* The games that can be played: all the tracker holds but those whose quiz a
\* failed GET in GetAllSessions has lost.
Playable == {s \in DOMAIN tracker : tracker[s] # LostQuiz}

Progress == INSTANCE QuizProgress
                WITH playing   <- [s \in Playable |-> tracker[s]],
                     opened    <- [s \in Playable |-> reached[s]],
                     contested <- raced,
                     saved     <- quizState

\* The tracker with its lossy copy in Redis implements QuizProgress: questions
\* come one by one, none is skipped, only two increments at once can take a
\* game back, a start message never replaces a game or its copy, and a restart
\* resumes saved games at the saved question (quiz_tracker.go's NewSession,
\* IncQuestionIdx and restoreData against redis.go).
ImplementsProgress == Progress!Spec
=============================================================================
