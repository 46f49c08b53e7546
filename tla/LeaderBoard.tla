---------------------------- MODULE LeaderBoard ----------------------------
(***************************************************************************)
(* The Leader Board service (LeaderBoardService/): one HTTP handler that   *)
(* turns the answers to a question into points, adds them to the session's *)
(* sorted set in Redis, and replies with the totals and the popularity of  *)
(* the options; and the client side of the call                            *)
(* (real_time/leaderboard/leaderboard.go), which gives up after 5 s while  *)
(* the handler goes on.                                                    *)
(*                                                                         *)
(* MaxRetries: 0 gives the Redis client its default of three repeats: a    *)
(* pipeline whose reply is lost or late is sent again, on a new            *)
(* connection, and what Redis has received of the abandoned one is still   *)
(* executed, before the next attempt or after it.                          *)
(*                                                                         *)
(* The answers of a request are a map from users to answers: the client    *)
(* builds the list by iterating over a map, so users are distinct and in   *)
(* no particular order.  Time is in whole seconds.                         *)
(***************************************************************************)
EXTENDS Integers, FiniteSets, FiniteSetsExt, SequencesExt, GoMap

CONSTANTS
    Sessions,  \* session codes
    Users,     \* user ids
    Times,     \* timestamps clients may send
    Options,   \* 1-based option numbers
    Amounts,   \* options_amount of a request
    Requests,  \* ids of requests; each is used once
    MaxSends   \* times a pipeline is sent, repeats included (4 in the code)

ASSUME TimesAssumption   == Times \subseteq {t \in Nat : t > 0}
ASSUME OptionsAssumption == Options \subseteq Nat
ASSUME AmountsAssumption == Amounts \subseteq Nat
ASSUME MaxSendsAssumption == MaxSends \in Nat

VARIABLES
    zset,    \* Redis "leaderboard:<s>": user -> total
    req,     \* requests sent: [session, answers, amount, pc, table, reply]
    added    \* the increments Redis has executed: <<request, user, send>>

vars == <<zset, req, added>>

-----------------------------------------------------------------------------
\* time.Time{}, the timestamp of a user who has not answered.
ZeroTime == 0

\* shared.Answer as GetLeaderboard builds it; an unanswered question is the
\* zero models.UserAnswer, whose option 0 becomes option 1.
Given   == [answered : {TRUE}, correct : BOOLEAN, option : Options,
            time : Times]
NotGiven == [answered |-> FALSE, correct |-> FALSE, option |-> 1,
             time |-> ZeroTime]
Answers == UNION {[U -> Given \cup {NotGiven}] :
                     U \in {V \in SUBSET Users : IsFiniteSet(V)}}

\* A mutant: the latest timestamp.
BestTime_Latest(a) == Max({a[u].time : u \in DOMAIN a})

\* GetEarliestTimestamp: over all answers, the ones not given included.
BestTime(a) == Min({a[u].time : u \in DOMAIN a})

\* Whole seconds for which 1000 * (1 - s/20) in floating point falls just
\* below the exact value, so that int() drops one point more.
RoundedDown == {11, 16, 18}

\* A mutant: a late answer is not clipped.
Points_Unclipped(seconds) == 1000 - 50 * seconds

\* int(1000 * (1 - min(1, elapsed / 20))), elapsed not negative.
Points(seconds) ==
    IF seconds >= 20 THEN 0
    ELSE 1000 - 50 * seconds - (IF seconds \in RoundedDown THEN 1 ELSE 0)

\* ComputeLeaderBoard, the points of one question.
CurrentPoints(a) ==
    [u \in DOMAIN a |->
        IF a[u].correct THEN Points(a[u].time - BestTime(a)) ELSE 0]

\* A mutant: users who did not answer are counted for their zero option.
Popular_CountsAll(a, amount) ==
    [o \in (1 .. amount) \cup {a[u].option : u \in DOMAIN a} |->
        Cardinality({u \in DOMAIN a : a[u].option = o})]

\* PopularAns: a counter per option of the question, and one for every other
\* option that was sent.
Popular(a, amount) ==
    LET given == {u \in DOMAIN a : a[u].answered}
    IN  [o \in (1 .. amount) \cup {a[u].option : u \in given} |->
            Cardinality({u \in given : a[u].option = o})]

\* SortUserScoresByScoreDesc: the orders an unstable sort may return.
SortedTables(totals) ==
    { order \in SetToSeqs(DOMAIN totals) :
        \A i \in 1 .. (Len(order) - 1) :
            totals[order[i]] >= totals[order[i + 1]] }

-----------------------------------------------------------------------------
Totals(s) == IF s \in DOMAIN zset THEN zset[s] ELSE EmptyMap

\* The sends of a pipeline; which of them is answered is left open.
Sends == 1 .. MaxSends

\* ZINCRBY in the members of one session; an absent member counts as 0.
Incremented(totals, u, points) ==
    Put(totals, u, points + IF u \in DOMAIN totals THEN totals[u] ELSE 0)

Init ==
    /\ zset = EmptyMap
    /\ req = EmptyMap
    /\ added = {}

\* GetResults: the client posts the answers to a question.
Post(r, s, a, amount) ==
    /\ r \notin DOMAIN req
    /\ req' = Put(req, r, [session |-> s, answers |-> a, amount |-> amount,
                           pc |-> "posted", table |-> EmptyMap,
                           order |-> <<>>, reply |-> "none"])
    /\ UNCHANGED <<zset, added>>

\* An error status reaches a client that is still waiting.
Refused(r) == IF req[r].reply = "none" THEN "error" ELSE req[r].reply

\* A mutant: the connection is left open.
EmptyPanics_Hangs(r) ==
    /\ req[r].pc = "posted"
    /\ req[r].answers = EmptyMap
    /\ req' = [req EXCEPT ![r].pc = "end"]
    /\ UNCHANGED <<zset, added>>

\* GetEarliestTimestamp indexes an empty list: the server recovers the panic
\* and closes the connection.
EmptyPanics(r) ==
    /\ req[r].pc = "posted"
    /\ req[r].answers = EmptyMap
    /\ req' = [req EXCEPT ![r].pc = "end", ![r].reply = Refused(r)]
    /\ UNCHANGED <<zset, added>>

\* A mutant: ZADD, which sets the score of this question.
ZIncrBy_Sets(r, u, k) ==
    LET s == req[r].session
        a == req[r].answers
    IN  /\ u \in DOMAIN a
        /\ <<r, u, k>> \notin added
        /\ zset' = Put(zset, s, Put(Totals(s), u, CurrentPoints(a)[u]))
        /\ added' = added \cup {<<r, u, k>>}
        /\ UNCHANGED req

\* Redis executes the increment of one user in a send of the pipeline: others
\* may run in between, and it may come when the handler has gone on.
ZIncrBy(r, u, k) ==
    LET s == req[r].session
        a == req[r].answers
    IN  /\ u \in DOMAIN a
        /\ <<r, u, k>> \notin added
        /\ zset' = Put(zset, s, Incremented(Totals(s), u, CurrentPoints(a)[u]))
        /\ added' = added \cup {<<r, u, k>>}
        /\ UNCHANGED req

\* AddScoresBatch returns: every command of one send was answered.
AddScoresBatch(r) ==
    /\ req[r].pc = "posted"
    /\ req[r].answers # EmptyMap
    /\ \E k \in Sends : \A u \in DOMAIN req[r].answers : <<r, u, k>> \in added
    /\ req' = [req EXCEPT ![r].pc = "added"]
    /\ UNCHANGED <<zset, added>>

\* A mutant: the error of the pipeline is ignored.
AddScoresFails_Ignored(r) ==
    /\ req[r].pc = "posted"
    /\ req[r].answers # EmptyMap
    /\ req' = [req EXCEPT ![r].pc = "added"]
    /\ UNCHANGED <<zset, added>>

\* The last repeat fails as well, whatever was executed; the handler
\* reports 400.
AddScoresFails(r) ==
    /\ req[r].pc = "posted"
    /\ req[r].answers # EmptyMap
    /\ req' = [req EXCEPT ![r].pc = "end", ![r].reply = Refused(r)]
    /\ UNCHANGED <<zset, added>>

\* LoadLeaderboard, the sort, PopularAns and the reply.
LoadLeaderboard(r) ==
    LET totals == Totals(req[r].session)
    IN  /\ req[r].pc = "added"
        /\ \E order \in SortedTables(totals) :
              req' = [req EXCEPT ![r].pc = "end", ![r].table = totals,
                                 ![r].order = order,
                                 ![r].reply = IF @ = "none" THEN "ok" ELSE @]
        /\ UNCHANGED <<zset, added>>

\* The read fails: status 400, with the points already added.
LoadFails(r) ==
    /\ req[r].pc = "added"
    /\ req' = [req EXCEPT ![r].pc = "end", ![r].reply = Refused(r)]
    /\ UNCHANGED <<zset, added>>

\* The client's 5 s run out; the handler does not notice.
ClientTimeout(r) ==
    /\ req[r].reply = "none"
    /\ req' = [req EXCEPT ![r].reply = "error"]
    /\ UNCHANGED <<zset, added>>

HandlerStep(r) == \/ EmptyPanics(r) \/ AddScoresBatch(r) \/ AddScoresFails(r)
                  \/ LoadLeaderboard(r) \/ LoadFails(r)

Next ==
    \/ \E r \in Requests, s \in Sessions, a \in Answers, n \in Amounts :
          Post(r, s, a, n)
    \/ \E r \in DOMAIN req : HandlerStep(r) \/ ClientTimeout(r)
    \/ \E r \in DOMAIN req, u \in Users, k \in Sends : ZIncrBy(r, u, k)

\* The HTTP server runs its handlers; nothing obliges a client to time out.
Fairness == \A r \in Requests : WF_vars(r \in DOMAIN req /\ HandlerStep(r))

Spec == Init /\ [][Next]_vars /\ Fairness

-----------------------------------------------------------------------------
(* Properties.                                                             *)

\* The totals, the requests in flight and what they have added.
TypeOK ==
    /\ DOMAIN zset \subseteq Sessions
    /\ \A s \in DOMAIN zset : IsMap(zset[s], Users, Nat)
    /\ DOMAIN req \subseteq Requests
    /\ \A r \in DOMAIN req :
          /\ req[r].session \in Sessions
          /\ req[r].pc \in {"posted", "added", "end"}
          /\ req[r].reply \in {"none", "ok", "error"}
          /\ req[r].amount \in Amounts
    /\ added \subseteq (DOMAIN req) \X Users \X Sends

\* A total is the points of the user's questions, each counted once per send
\* of its pipeline that Redis executed: no update is lost between concurrent
\* requests, failed pipelines, timeouts and replies that nobody waits for.
\* The repeats of the Redis client are not idempotent: a question may count up
\* to MaxSends times.
TotalsAreSums ==
    \A s \in DOMAIN zset : \A u \in DOMAIN zset[s] :
        zset[s][u] = MapThenSumSet(
            LAMBDA x : CurrentPoints(req[x[1]].answers)[u],
            {x \in added : req[x[1]].session = s /\ x[2] = u})

\* When a table is sent, the points of its question have been added for every
\* user scored in it, at least once, and the table lists the user with a total
\* that includes them, whatever other requests did between the increments and
\* the read.
TableIncludesOwnPoints ==
    \A r \in DOMAIN req : req[r].reply = "ok" =>
        \A u \in DOMAIN req[r].answers :
            /\ \E k \in Sends : <<r, u, k>> \in added
            /\ u \in DOMAIN req[r].table
            /\ req[r].table[u] >= CurrentPoints(req[r].answers)[u]

\* Points are between 0 and 1000, a wrong answer gets none, and of two correct
\* answers to a question the earlier one never gets fewer points.
FasterIsNotWorse ==
    \A r \in DOMAIN req :
        LET a == req[r].answers
            p == CurrentPoints(a)
        IN  \A u \in DOMAIN a :
                /\ p[u] \in 0 .. 1000
                /\ ~a[u].correct => p[u] = 0
                /\ \A v \in DOMAIN a :
                      a[u].correct /\ a[v].correct /\ a[u].time <= a[v].time =>
                          p[u] >= p[v]

\* Every answer given is counted once in the popularity of the options, and
\* every option of the question is listed.
PopularCountsGiven ==
    \A r \in DOMAIN req :
        LET a == req[r].answers
            p == Popular(a, req[r].amount)
        IN  /\ MapThenSumSet(LAMBDA o : p[o], DOMAIN p) =
                  Cardinality({u \in DOMAIN a : a[u].answered})
            /\ 1 .. req[r].amount \subseteq DOMAIN p

\* A request that has no answer yet has a handler that can go on, whatever
\* failed and whatever it was sent: with at most two steps to the end, every
\* client gets a table or an error without waiting for its timeout.
RequestsAnswered ==
    \A r \in DOMAIN req : req[r].reply = "none" => ENABLED HandlerStep(r)

\* "if it is false, other fields are not matter" (real_time/models/quiz.go:16,
\* of Answered): users who did not answer do not change the points of those
\* who did.
UnansweredDoNotMatter ==
    \A r \in DOMAIN req :
        LET a == req[r].answers
            given == {u \in DOMAIN a : a[u].answered}
        IN  \A u \in given :
                CurrentPoints(a)[u] = CurrentPoints([v \in given |-> a[v]])[u]
=============================================================================
