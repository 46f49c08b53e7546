# try-it: a verification project

TLA+ models of the back end of *try-it*, a live quiz game: a host (the *admin*)
creates a session of a quiz, participants join with a code, the admin opens the
questions one by one, participants answer over WebSockets, and scores, statistics
and leader boards are sent around. The models are checked with TLC on small
instances; their invariants and action properties, and the refinement of an
abstract game, are also proved with TLAPS, for every value of the constants.

`PROJECT.json` maps every definition to the lines it models and lists runs,
mutants, hazards, findings and theorems. This file says how it all fits together.

To check: `tlc -config X.cfg M` for the runs, `tlapm M_proofs.tla` for the proofs
about module `M`, and `tlapm FoldTheorems.tla` for the lemmas they share.

## 1. The system

| Part | Source | State | Operations | Module |
|---|---|---|---|---|
| Quiz tracker | `real_time/ws/quiz_tracker.go` | `tracker` (session -> quiz and current index), `answers` (session -> user -> array), one mutex | `NewSession`, `IncQuestionIdx`, `AddParticipant`, `RecordAnswer`, `GetLeaderboard`, readers, `restoreData` | `QuizTracker` |
| Its copy in Redis | `real_time/cache/redis/redis.go` | `session:<s>:quiz_state` (24 h TTL), `session:<s>:user:<u>:answers` | `SetSessionQuiz`, `SetQuestionIndex`, `RecordAnswer`, `GetAllSessions` | `QuizTracker` |
| Real-Time consumers | `real_time/rabbit/*.go` | broker queues, `QuestionStartedQsTags`, one goroutine per session | start, end and next-question events | `RealTime` |
| WebSocket handlers | `real_time/ws/handler.go`, `message.go`, `responses.go` | one reader per connection, one goroutine per answer | connect, join, answer, disconnect | `RealTime`, `Registry` |
| Connection registry | `real_time/ws/connections.go` | session -> user -> connection, a RWMutex | register, unregister, broadcast, send to admin | `Registry` |
| Leader Board service | `LeaderBoardService/`, client in `real_time/leaderboard/` | sorted set `leaderboard:<s>` | `POST /get-results` | `LeaderBoard` |
| Session Service | `SessionService/Game`, `Storage`, `Handlers`, `Rabbit` | session codes in Redis, published events, one AMQP channel | create, join, validate, start, next, end, health | `SessionService` |
| Lobby | `SessionService/Handlers/ws_list_handler.go` | waiting rooms, their connections, a RWMutex | join, leave, kick, broadcast of the list | `Lobby` |
| Auth service | `backend-python/auth_service` | users, refresh tokens | login, refresh, logout, logout of all; register, profile | `Auth` (tokens) |
| Quiz service | `backend-python/quiz_service` | quizzes, tags, images | CRUD, visibility, filters | |
| Front end | `frontend/app/src` | stage of player and admin | reacts to messages | |

How they interact. The Session Service publishes `session.start`,
`question.<s>.start` and `session.end` to a RabbitMQ topic exchange. The Real-Time
service consumes the first and the last with one goroutine each and starts a
goroutine per session for the middle one. A trigger makes that goroutine advance
the tracker, have the Leader Board service score the question that was open
(HTTP, 5 s timeout), and send results and the next question to the clients through
the registry. Answers arrive on WebSockets and are handled in goroutines of their
own, which share the tracker with the session goroutines. The tracker writes
through to Redis and reads Redis once, when a process starts. Before a game begins,
its participants wait in the lobby of the Session Service, over another WebSocket.

What is hard about it:

* the index moves while answers are judged and stored in separate locked sections;
* one method of the tracker, `IncQuestionIdx`, takes no lock, and saves the index with
  a read and a write of Redis: the calls of two callers can undo each other;
* start, end and question events travel in different queues, and clients may be
  faster than all of them;
* a question without consumer is dropped by the broker, without an error;
* errors of Redis are dropped; a restart resumes from whatever Redis has;
* a session code may be used again, and sessions are never removed from the tracker;
* the client of the Leader Board service gives up while the service goes on, and the
  service's Redis client sends again what was perhaps executed;
* both registries write to clients that may read no more, one of them with its lock
  held, and a user's connections remove each other;
* what a request has done before the step that fails stays done: a saved code, a
  deleted one, a player added;
* a refresh token is read, deleted and replaced in three statements.

## 2. Modules

| Module | Models | Extends |
|---|---|---|
| `GoMap` | Go maps and Redis keyspaces as functions on the keys present | |
| `QuizData` | `shared/quiz.go`: a question is the sequence of its `is_correct` flags | |
| `QuizProgress` | what players may rely on: the abstract game | `GoMap` |
| `QuizTracker` | the tracker and its Redis copy; what they promise to any callers; implements `QuizProgress` | `GoMap`, `QuizData` |
| `RealTime` | the goroutines of the Real-Time service, the broker, crashes and restarts, around the tracker | `QuizTracker` |
| `Registry` | connections, the RWMutex, and those who send | `GoMap` |
| `LeaderBoard` | the Leader Board service and its client | `GoMap` |
| `SessionService` | codes in Redis, published events, the HTTP handlers | `GoMap` |
| `Lobby` | a waiting room | `GoMap` |
| `Auth` | refresh tokens and the transactions that change them | `GoMap` |
| `QuizTracker_proofs` | theorems about `TrackerSpec`, and that it implements `QuizProgress` | `QuizTracker` |
| `RealTime_proofs` | theorems about `RealTime` | `RealTime`, `QuizTracker_proofs` |
| `Registry_proofs`, `LeaderBoard_proofs` | theorems about these | their module, `FoldTheorems` |
| `SessionService_proofs`, `Lobby_proofs`, `Auth_proofs` | theorems about these | their module |
| `FoldTheorems` | induction over data: least numbers, maxima, sums over finite sets | |
| `MCQuizTracker`, `MCRealTime`, `MCRegistry`, `MCLeaderBoard`, `MCLobby`, `MCAuth` | constants and symmetry for the model checker | their module |

`SessionService` needs no definitions of its own for the model checker and is run as
it is, and so is `LeaderBoard` where no symmetry is wanted.

### QuizProgress, QuizTracker and RealTime

`QuizProgress` knows a game that is being played and a record of it that may fall
behind or be lost. `Begin`, `Open`, `Save`, `Contend`, `Restart` and `Forget` are all
that may happen. A game that two callers advance at once is *contested*: it may go back
to a question that it has had, and its record with it, but it skips none. `QuizTracker`
implements this (`ImplementsProgress`): `playing` is the tracker without the quizzes
that a failed `GET` has replaced by a zero value, `saved` the keys in Redis.
`RealTime` extends `QuizTracker`, and its goroutines change the tracker only by calling
the tracker's operators, so what holds of the tracker whoever calls it holds in the
service. As this follows from the way the module is written, no run asks for it.

`QuizTracker`: `tracker`, `answers`, `quizState` and `answerHash` are the two maps
and the two kinds of keys. `nilTracker` tells the nil map that a failed `SCAN`
leaves behind (reads work, a write panics) from an empty one.

* `IncQuestionIdx` takes no lock and is four steps: `IncReads` (the game is read),
  `IncWrites` (it is written back with the index incremented), `IncGets` and `IncSets`
  (the cache's GET and SET). `inc` holds the calls in progress, one per caller
  (`Loops`), and the steps of different callers interleave: an increment may be lost,
  and a SET may put an older index on top of a newer one.
* `RecordAnswer` is two steps under the mutex, `RecordAnswerReads` (the index) and
  `RecordAnswerWrites` (the answer), as the index may move in between. `recording` is
  the call that holds the mutex; all other methods wait for `Unlocked`.
* Every other method is one step, since it holds the mutex for its whole body and writes
  to Redis once, last: a crash in the middle looks like a crash before or after.
* A method that panics is a separate predicate (`NewSessionPanics`,
  `AddParticipantPanics`, `RecordAnswerPanics`): what a panic does depends on who calls,
  and `RealTime` says so (in a consumer or an answer goroutine it ends the process; in
  an HTTP handler it is recovered). Go may also end a process that reads and writes a
  map at the same time; that is one of the crashes of `RealTime`.
* `reached` and `raced` are history variables: the furthest index a game has had in
  this process, and the games two callers have incremented at once.

Faults are constants: `WriteFaults` (a write to Redis may be lost, as every error
is dropped), `ReadFaults` (during a restore, a `GET` may yield the zero quiz and
the `SCAN` may fail), `Expiry` (a key may vanish). Redis is assumed to have executed or
dropped a command before a later command of the same game reaches it.

Left out: timestamps (copied only; `LeaderBoard` models their use), texts, the
methods without a caller (`SetCurrQuestionIdx`, `DeleteSession`, and of the cache
`GetQuestionIndex`, `GetAllAnswers`, `DeleteSession`).

`RealTime`: an action is what happens between two points where another goroutine can
observe or change shared state.

* The Session Service publishes (`PublishSessionStart`, `PublishSessionEnd`,
  `PublishQuestionStart`); without a bound queue a message is lost.
* `ReceiveSessionStart` is `RegisterSession`, `TrackSession` is `NewSession` and
  `go ConsumeQuestionStart`: other goroutines run in between.
* `ReceiveSessionEnd` is `CleanupQuestionConsumer`; `UnregisterSession` follows
  after the broadcast. Deliveries already made are still worked off.
* A session loop goes through `BindQueue`, `StoreTag`, and for each trigger
  `NextTrigger` and `Increment` (`IncQuestionIdx`), `ReadQuestion`, `GetLeaderboard`,
  `BoardReceived` and `SendStat`, or `BoardFails`, and `SendPayload`. A send may never
  return (`SendHangs`): there is no write deadline, and `SendMessage` can wait for a lock
  that it holds itself (`Registry`). Consuming with a tag that is in use makes the broker
  close the connection (`BindFails`), and the client library then drops deliveries that
  it has not handed over yet, all or some.
* `posted` has the requests that loops have made to the Leader Board service, `scored`
  the positions of those whose points have been added, in that order. `AddScores` is the
  service, whose handler has no deadline: it may add the points before the loop has its
  reply, after the loop has given up (`BoardFails`, which marks the request `lost`), after
  a later request, or never.
* A participant's connection goes through `OpenConnection`, `RegisterConnection`,
  `Join`, and stays until `Disconnect`; an answer through `ReceiveAnswer`,
  `JudgeAnswer`, `RecordAnswer`, `StoreAnswer`.
* `Crash` may happen at any time; `Boot` restores what Redis has.

`posted`, `scored` and the loop's `alone` are history variables, but for `BoardReceived`,
which needs the points to be in. JSON decoding errors (the message is skipped) are not
modelled. The Leader Board service appears as its possible outcomes; `LeaderBoard` has
its inside, repeats of its pipeline included. Who is connected, and what sending to them
can do to the sender, is the subject of `Registry`.

### Registry

`connections` is the map; `conns` holds, per connection, its user, where its handler
is, and its socket; `ops` what each sending goroutine is doing. A section under the
write lock is one step, because nothing in it waits. `SendToAdmin` is not: it keeps
the read lock while it writes, so the lock is explicit. `Readers` are the goroutines
that hold it for reading, `pending` the one whose `Lock()` waits and keeps new
readers out, as `sync.RWMutex` does.

`BeginWrite`/`WriteSucceeds`/`WriteFails` are `WriteMessage`: it returns when the
client reads, may succeed or fail when the client has left, and does not return
while the client reads no more. A failed write leads to `Drop`, which needs the
write lock. `RemoveAdmins` is the loop of `BroadcastToSession` on a slice that it
shortens, with the slice's array and length told apart. `WelcomePanics` and
`WritePanics` are the library's panic when two goroutines write at once (the welcome
takes no mutex); in the handler it is recovered, in a sender it ends the process.
`PrintFatal` is the map printed without the lock. The process is not started again:
a start is `Init`.

### SessionService

A request is a record with a program counter; every command to Redis, to the broker
or to the Quiz service is an action, so other requests, failures and crashes come in
between. `CodeExist` yields the set of possible answers: an error counts as "no".
A command that fails may have been executed all the same (`SaveFails`, `DeleteFails`).
The Redis client repeats commands; as each of them sets or deletes one key, a repeat
changes nothing, assuming that no command of another request on the same key comes
between a command and its repeat. Published means handed to the client library: the
code asks for no confirmation. The number of a create is its session's id. `luck` and `met` remember how a create
came by its code, for `OneGamePerCode`. A channel that has closed is never opened
again: `Publish` fails from then on, until the process is restarted, and `/healthz`
says so.

Left out: JSON and HTTP (bodies that cannot be decoded and other methods are refused
before anything happens), the content of tokens, the names of players.

### Lobby

One room, as rooms share nothing but the lock. `members` stands for the two maps,
which change together. A broadcast is `ReadList`, `ReadTargets`, and a `BeginWrite`
and `EndWrite` per connection. Removal (`Removed`) closes whatever connection the
user has by then. The read deadline of a minute is set before the handler sends its first
list and renewed only while it reads: `DeadlinePasses` lets it pass (`expired`) for a
client that works while its handler is held up in that list (`Held`), or while its pings
wait for the mutex of a request that panicked, and the next read fails. `cut` remembers
connections that worked when the server closed them. `BeginClose` and `EndClose` are a close message that cannot be
written at once, with the lock held meanwhile (`holder`); `CloseCollides` is that
message meeting a list or a ping on the same connection. A panic in a request is
recovered by the HTTP server with its locks still held (`"crashed"`); elsewhere it
ends the process.

### Auth

The table of refresh tokens, and requests as transactions of several statements:
`Login`, `Refresh`, `Logout`, `LogoutAll` begin one, `Revoke` and `Create` are its
statements, `Commit` or `Rollback` its end. The database is external: READ
COMMITTED, and a `DELETE` waits for another that has the same row. A row remembers
the login it goes back to, which the code does not store: the properties speak of
logins.

### LeaderBoard

`Post` and `ClientTimeout` are the client, the rest is the handler and Redis. The
handler's pipeline of ZINCRBYs is not a transaction, and `MaxRetries: 0` gives the Redis
client its default of three repeats, so it is sent up to `MaxSends` times (four). Redis
executes each increment of each send on its own (`ZIncrBy`), before or after the handler
has gone on, or never; `AddScoresBatch` is the reply to one complete send,
`AddScoresFails` the failure of the last, whatever was executed. `added` has the
increments executed. A request's answers are a map from users to answers, as the client
builds the list from one. Time is in whole seconds; `Points` is exact for those,
including the three values for which the floating-point product falls just below
an integer and `int()` drops a point (`RoundedDown`). The order of equal totals is
any order, as `sort.Slice` is not stable.

## 3. Runs

Passing runs, with their bounds and their distinct states:

* `tracker_faults` (0.1 million): `TrackerSpec` with all faults on, one session, one user,
  two callers of `IncQuestionIdx`, a quiz of two questions (one caller can advance twice
  while the increment of the other is under way) and one of a single question without
  options. Sessions and users do not interact in the tracker except through the maps, so
  one of each is enough here; the proofs lift the bound. Checks the invariants and the
  refinement of `QuizProgress`.
* `realtime_safety` (2.8 million): one session, two questions and two triggers, two
  loop ids and two start messages (a code used again, with the old loop still alive), one
  end, one crash, one answer in flight, keys that expire. Checks that loops and answers
  always find their session and array, that statistics agree with what was scored, that
  answers to closed questions stay, and that without lost writes Redis has a copy of
  everything, but for an increment in progress and for raced games.
* `realtime_faults` (0.4 million): the same service with three questions, one loop, reads
  that fail during a restore, one crash, points that come in late and sends that hang: the
  order in which questions are scored, and liveness: every delivered trigger and every
  answer read is dealt with. The fourth trigger meets the last question; triggers wait
  while a question is being scored.
* `leaderboard_scores` (2.3 million, up to symmetry): two concurrent requests of two users,
  every combination of answers, with an option outside the announced range (the count that
  is sent is that of another question, see below), and pipelines sent twice. Two sends are
  enough for points to count twice and for an increment to come late; the proofs are for
  any number. The times give differences of 0 and 11 (one of the rounded values), and more
  than 20 against the zero time of an answer that was not given. `RequestsAnswered` is
  the safety half of "every request is answered": until it is, the handler has an enabled
  step, and it has two steps at most.
* `registry_sends` (0.2 million): an admin and a participant in a session, a third
  connection that is a second one of the participant or that of a second admin, two
  senders with two operations between them (a broadcast beside a message to the
  admin, or beside an end), one client that stalls. Two admins are enough for the
  removal loop to go wrong, two connections of a user for one to remove the other.
* `session_codes` (0.7 million): three requests of any kinds on two codes, a Redis
  that may fail at every command, one closed channel or crash. Two creates and an end
  are the shortest history in which codes collide and are freed; three attempts on
  two codes run out.
* `lobby_room` (1.8 million): two connections, the second of either user, one request
  to remove a user, one client that stalls.
* `auth_tokens` (0.1 million, up to symmetry): two users, three tokens, two requests
  at a time, one failure. Three tokens are a login and two refreshes of it.

`CHECK_DEADLOCK FALSE` is set where publications, requests or tokens are bounded, or
clients may leave for good: the system may then be idle, which is no deadlock of the
program. Where a program can be stuck, a temporal property says when
(`HangsForAReason`, `HangsOnQuizService`, `GhostsLeave`).

Several properties hold only with an exception; the exception is in the property,
and is what the code really does:

* `ScoredInOrder`: every trigger after the last question scores the last but one again;
  the points of a request that the loop has given up may come in after later ones.
* `ClosedQuestionsFrozen`: between the increment and the moment the loop takes the lock, an
  answer to the question just closed may still be stored; not after the loop has gone on.
* `CacheIsCopy`: not for the index that is being saved, nor for games that two callers have
  raced on, whose SETs may have come in the wrong order.
* `TotalsAreSums`: a question counts once per send of its pipeline that Redis executed.
* `TriggersHandled`: a send that never returns, and a broker connection that is closed,
  leave triggers unhandled.
* `StatAgreesWithBoard` needs a loop that is `alone`: when a code is used again while
  the cancelled loop still works off its triggers, two loops advance one index.
* `ReaderIsRegistered`, `RemovedForAReason`: another connection of the same user
  removes this one when it ends.
* `RemovedForAReason`: a handler that sends its list for more than a minute fails its first
  read and removes a client that works.
* `HangsForAReason`: a failed write inside `SendToAdmin`, and a client that reads no
  more, stop senders.
* `OneGamePerCode`: codes are shared after three collisions, after an error of Redis,
  by creates that overlap, or when a session of that code has been ended.
* `OpenIsAnnounced`: what a failed create has saved stays, and lets players in.
* `ShownIsCurrent`: a list may be overtaken by an older one.
* `OneTokenPerLogin`, `LoggedOutStaysOut`: a refresh at the same time as another, or
  as a logout, leaves a token behind.

Runs that TLC finds violated, each a statement of the repository about itself:

| Run | What the code does |
|---|---|
| `realtime_judged` | an answer judged against one question is stored under the next |
| `realtime_earlyws` | a client that connects before the start message is handled makes the service ignore it |
| `leaderboard_unanswered` | one user who did not answer (zero time) takes the points from all who did |
| `registry_halts` | a failed write to the admin makes the sender wait for the lock that it holds |

Other disagreements of code and comments, which the models show and which have no
run of their own:

* `IncQuestionIdx` writes the map without the lock ("The tracker is thread-safe",
  `quiz_tracker.go:16`): besides the data race, two loops of a code used again can take
  the game, or its copy in Redis, back to an earlier question (`Contend`);
* points are added again when the reply to a pipeline is lost (`Storage/Redis.go:25`);
* a trigger after the last question scores the question before it again instead of
  ending the game (`question.go:92`; the exception of `ScoredInOrder`);
* a code used again plays the quiz of the ended session (`quiz_tracker.go:136`;
  `QuizProgress` has no `Begin` on top of a game for this reason);
* nobody can join a session restored after a restart: its answers map is nil
  (`quiz_tracker.go:41`, `AddParticipantPanics`);
* an end handled before the consumer tag is stored leaves queue and consumer behind
  (`question.go:17`);
* the `options_amount` sent with the answers is that of the *next* question
  (`quiz_tracker.go:191-193`), so the popularity lists the wrong options.

Every property of a passing run has a mutant: a definition changed the way a bug
would change it, with which TLC finds the property violated.

### Fairness

A goroutine that can run does run: handlers, senders, requests, those waiting for a
lock. Beyond that:

* `RealTime`: loops and answers share the tracker's mutex, which is handed to the goroutine
  that has waited longest, so theirs is strong fairness. The Leader Board client has a
  timeout, so a loop that waits for it comes back; the containers are started with
  `restart: unless-stopped`, so a dead process boots. Nothing is assumed of sends, which
  may hang, of the session consumers, which take the locks of the registry, of
  publications, participants or crashes.
* `LeaderBoard`: the HTTP server runs its handlers; the client need not time out.
  No property of the runs needs it, as `RequestsAnswered` is an invariant.
* `Registry`, `Lobby`: nothing is assumed of clients. In the lobby the read deadline
  passes (`SetReadDeadline`); the Real-Time service sets none.
* `SessionService`: Redis and the broker answer or fail; the Quiz service may never
  answer, as `http.Get` has no timeout.
* `Auth` states no fairness and has no liveness property.

## 4. Proofs

Every invariant and action property that a passing run checks, but `RequestsAnswered`, is
also a theorem, for all values of the constants: any number of sessions, users,
connections, requests, questions, callers and goroutines, any faults and any bounds. The
same holds for `ImplementsProgress`. The properties of the tracker alone, `CacheIsCopy`
among them, are theorems of `TrackerSpec`, whatever its callers do. The assumptions are the `ASSUME`s of the modules: the types of the
constants, that identifiers of different kinds differ, and that a process starts
with finitely many connections. TLC evaluates them in the runs.

Each module with proofs has an inductive invariant (`TrackerInv`, `RealTimeInv`,
`RegistryInv`, `BoardInv`, `SessionInv`, `LobbyInv` with `ReasonInv`, `AuthInv`), which TLC
has checked on the run's instance as well; a lemma per action, or per group of actions that do the same
to it; and a short proof of every property from it. None of the properties with an
exception is inductive alone. What had to be added, and why:

**QuizTracker.** `TrackerInv` is the run's invariants and what they need of the calls in
progress. With several callers the index may go back, so everything is stated against
`reached`, which does not:

* an index is in range although it is written some time after it was compared with the
  length, because a call carries an index that was in range for the quiz it was read from
  (`CallsInRange`), and the quiz of a session never changes while the process lives;
* after a restart it is in range because the *cached* index was in range and of the same
  quiz (`CacheNotAhead`), which follows even when writes are lost, as a SET only writes
  the index of a call and the quiz of the GET before it, and a missing key ends the call;
* no index is beyond `reached` (`NotBeyond`) and a game that nobody has raced on has one
  call at most, which is at its index or the next (`OneByOne`);
* an answer being recorded fits its array and is for a question that was reached
  (`RecordingFits`), so none is stored for a later one.

`CacheIsCopy` is inductive on top of it: in a game without races the call in progress is
the only one that may still have to write. For `TrackerImplementsProgress`, `NewSession` is
a `Begin` only because a session in Redis is also in the tracker, so no record is
overwritten; `IncReads` is a `Contend` when there is another call and a stutter otherwise;
`IncWrites` is an `Open` because of `OneByOne`, or in a contested game of `NotBeyond`;
`IncSets` is a `Save`; a restore is a `Restart` of the games whose `GET` succeeded; answers
are stutters.

**RealTime.** Every step of a goroutine is one step of the tracker, a restart, an
expiry, or leaves the tracker alone, so `RealTimeInv` may contain `TrackerInv`. On top of
it, a process that is down has no goroutines, and the calls of `IncQuestionIdx` are those of
the loops that are incrementing (`IncrementingLoops`). A loop that is `alone` is the only one
of its session (`AloneLoops`), so the index it has read is still current at every later
point, and the answers it has posted are those of a closed question, which cannot change
(`StatAgreesWithBoard`). An answer that is being recorded is for the current question or a
later one, unless a loop has just moved the index and has not had the lock since
(`RecordingStands`, for `ClosedQuestionsFrozen`). One start message is in one place at most:
the queue, the consumer's hands or the loop it has started (`OneStart`); the requests that
loop has made are in the order of the questions, and each that has not been scored was
given up or is the one the loop waits for (`PostedInOrder`); the service adds the points of
a request once (`ScoredOnce`); so what is scored after a later request was given up
(`LateAreLost`, for `ScoredInOrder`).

**Registry.** An entry is under its own user and session, so a handler that leaves
finds its own entry where it looks, or that of another connection of its user. A sender
writes only to connections that were accepted, and at a failed write the client has
left: a `Drop` therefore never removes the only connection of a client that still
reads (`ReaderIsRegistered`). `ParticipantsOnce` is about the loop of
`BroadcastToSession`, which removes from the slice that it ranges over. It is proved
by induction on the turns of the loop: until it panics, what is left of the slice holds
nobody twice and every participant; and when there is one admin, no other is met in
what is left of the array. That an enumeration of a finite set meets every member
is the pigeonhole principle.

**LeaderBoard.** A total is a sum over the increments that Redis has executed, which
changes by one term at a time (`SumTakeOut`); that a reply to a pipeline comes only when
all of one send was executed gives `TableIncludesOwnPoints`. `FasterIsNotWorse` covers the values
at which the floating-point product is rounded down; `PopularCountsGiven` is a sum
over options, which grows by one with every user who answered.

**SessionService.** An id in Redis is a create that has saved it, once and under its
own code (`IdsAreSaved`), so what an `end` has deleted does not come back
(`DeletedIsClosed`, from the `DEL` on; `EndClosesFirst`). A game can be joined from the
moment of the `HSET` on. Two creates that found one code free met on the way to saving
it (`SharersMet`, for `OneGamePerCode`).

**Lobby.** Without overlap one list at most is on its way, it is the list of those
present, and whoever has not been sent it is still in the sender's queue
(`QueueComplete`); so when it is sent, everybody has it (`ShownIsCurrent`). `ReasonInv` is a
second invariant, for `RemovedForAReason`: a user who is in the room has a connection of
their own there (`RoomOwned`), a handler reads the connection that it registered or another
of its user (`OwnMine`), and one that is leaving, unasked, has a socket that failed, a
deadline that has passed, or a second connection (`LeavesForAReason`).

**Auth.** A `DELETE` holds its rows until its transaction ends (`RowsLocked`), rows
never change (`RowsImmutable`), and a token that is not committed yet is in no other
place (`PendingIsNew`). As long as no revoke has found its row gone, a refresh that
issues a token holds the one it read (`HoldsOld`, for `OneTokenPerLogin`). A login that
was never raced has one token, which a logout of it has read (`Unraced`), and once ended
it is gone for good (`EndedIsGone`, for `LoggedOutStaysOut`).

**Induction over data.** The library's induction theorems have an operator as a
parameter, which the provers cannot instantiate. `FoldTheorems` does without them: the
strict subsets of finite sets are well-founded (a theorem without such a parameter),
so a set of counterexamples that has no minimal member is empty. From this follow least
natural numbers, the existence of the functions behind the folds of the community
modules, and what the proofs need of sums.

Changed for the proofs, with the same reachable states: the turn of the removal loop is
a definition of its own (`CutAt`); `SendQuestionStat` enumerates the participants
instead of filtering an enumeration of all; a request to the Leader Board service
lists finitely many users.

Only model-checked: liveness (`TriggersHandled`, `AnswersHandled`, `HangsForAReason`,
`HangsOnQuizService`, `GhostsLeave`) and `RequestsAnswered`, as the prover has no rules for
fairness and `ENABLED`.

## 5. Not modelled, and the plan

Not modelled:

* Quiz service: each request is one transaction with an ownership check; the
  concurrent creation of tags is guarded by a unique constraint of the database.
  Image upload and storage are pure I/O.
* Auth: `register` and `update_me` look a name up and then insert it; the unique
  constraints of the database decide races. Access tokens are not stored.
* Front end: views that follow messages; nothing of the back end depends on them.
* A composition of `SessionService` and `RealTime`: the first appears in the second
  as a publisher of any events in any order, which is more than it can do.
* `GetListOfUsersHandler`, `LoadSession`, `EditSessionState`: no route or caller.
* Monitoring, deployment, HTTP plumbing, generated API documentation.

What is left to prove: nothing that a run checks, except liveness and `ENABLED`. Worth
adding is the safety half of `HangsForAReason`: that a sender which waits for the lock
has a reader to wait for.
