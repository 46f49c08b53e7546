------------------------- MODULE LeaderBoard_proofs -------------------------
(***************************************************************************)
(* Proofs about LeaderBoard: its invariants hold for any sessions, users,  *)
(* timestamps, options and requests, however handlers and clients          *)
(* interleave and whichever of their calls fail.                           *)
(***************************************************************************)
EXTENDS LeaderBoard, FoldTheorems

-----------------------------------------------------------------------------
(* The points of a question.                                               *)

\* An answer of a request.
LEMMA AnswerFields ==
    ASSUME NEW a \in Answers
    PROVE  /\ a = [u \in DOMAIN a |-> a[u]]
           /\ DOMAIN a \subseteq Users
           /\ IsFiniteSet(DOMAIN a)
           /\ \A u \in DOMAIN a : /\ a[u].time \in Nat
                                  /\ a[u].correct \in BOOLEAN
                                  /\ a[u].answered \in BOOLEAN
                                  /\ a[u].answered => a[u].option \in Options
<1>1. PICK U \in SUBSET Users : IsFiniteSet(U) /\ a \in [U -> Given \cup {NotGiven}]
  BY DEF Answers
<1>2. DOMAIN a = U /\ \A u \in U : a[u] \in Given \cup {NotGiven}
  BY <1>1
<1>3. ASSUME NEW x \in Given \cup {NotGiven}
      PROVE  /\ x.time \in Nat
             /\ x.correct \in BOOLEAN /\ x.answered \in BOOLEAN
             /\ x.answered => x.option \in Options
  <2>1. CASE x \in Given
    BY <2>1, TimesAssumption DEF Given
  <2>2. CASE x = NotGiven
    BY <2>2 DEF NotGiven, ZeroTime
  <2> QED BY <2>1, <2>2
<1> QED BY <1>1, <1>2, <1>3

\* GetEarliestTimestamp: no answer is earlier.
LEMMA BestTimeIsFirst ==
    ASSUME NEW a \in Answers, NEW u \in DOMAIN a
    PROVE  BestTime(a) \in Nat /\ BestTime(a) <= a[u].time
<1> DEFINE T == {a[v].time : v \in DOMAIN a}
<1>1. T \in SUBSET Nat /\ a[u].time \in T
  BY AnswerFields
<1> HIDE DEF T
<1>2. Min(T) \in T /\ \A n \in T : Min(T) <= n
  BY <1>1, MinOfNaturals
<1> QED BY <1>1, <1>2 DEF BestTime, T

\* The formula: between 0 and 1000, and never more for a later answer, the
\* floating-point losses at 11, 16 and 18 seconds included.
LEMMA PointsFall ==
    ASSUME NEW m \in Nat, NEW n \in Nat, m <= n
    PROVE  /\ Points(m) \in 0 .. 1000
           /\ Points(m) >= Points(n)
<1>1. \A s \in Nat : Points(s) \in Int /\ (s >= 20 => Points(s) = 0)
                     /\ (s < 20 => /\ Points(s) <= 1000 - 50 * s
                                   /\ Points(s) >= 999 - 50 * s)
  BY DEF Points, RoundedDown
<1>2. CASE m = n
  BY <1>1, <1>2
<1>3. CASE m < n
  BY <1>1, <1>3
<1> QED BY <1>2, <1>3

\* ComputeLeaderBoard: a number of points for each user.
LEMMA CurrentPointsType ==
    ASSUME NEW a \in Answers
    PROVE  /\ DOMAIN CurrentPoints(a) = DOMAIN a
           /\ \A u \in DOMAIN a : CurrentPoints(a)[u] \in 0 .. 1000
<1> SUFFICES ASSUME NEW u \in DOMAIN a PROVE CurrentPoints(a)[u] \in 0 .. 1000
  BY DEF CurrentPoints
<1>1. a[u].time - BestTime(a) \in Nat
  BY AnswerFields, BestTimeIsFirst
<1>2. Points(a[u].time - BestTime(a)) \in 0 .. 1000
  BY <1>1, PointsFall
<1> QED BY <1>2 DEF CurrentPoints

\* So nothing is ever taken from a user's total.
LEMMA PointsAreNat ==
    ASSUME NEW a \in Answers, NEW u \in DOMAIN a
    PROVE  CurrentPoints(a)[u] \in Nat
<1>1. CurrentPoints(a)[u] \in 0 .. 1000
  BY CurrentPointsType
<1> QED BY <1>1

\* Of two correct answers the earlier one gets no fewer points.
LEMMA EarlierIsNotWorse ==
    ASSUME NEW a \in Answers, NEW u \in DOMAIN a, NEW v \in DOMAIN a,
           a[u].correct, a[v].correct, a[u].time <= a[v].time
    PROVE  CurrentPoints(a)[u] >= CurrentPoints(a)[v]
<1> DEFINE m == a[u].time - BestTime(a)
           n == a[v].time - BestTime(a)
<1>1. m \in Nat /\ n \in Nat /\ m <= n
  BY AnswerFields, BestTimeIsFirst
<1>2. CurrentPoints(a)[u] = Points(m) /\ CurrentPoints(a)[v] = Points(n)
  BY DEF CurrentPoints
<1> HIDE DEF m, n
<1> QED BY <1>1, <1>2, PointsFall

-----------------------------------------------------------------------------
(* The popularity of the options.                                          *)

\* Counting the members of a finite set by what a function maps them to
\* counts each of them once.
LEMMA SumOfFibres ==
    ASSUME NEW G, IsFiniteSet(G), NEW P, IsFiniteSet(P), NEW f,
           \A x \in G : f[x] \in P,
           NEW p \in [P -> Nat],
           \A o \in P : p[o] = Cardinality({x \in G : f[x] = o})
    PROVE  SumOver(p, P) = Cardinality(G)
<1> DEFINE In(Q) == {x \in G : f[x] \in Q}
           Bad == {Q \in SUBSET P : SumOver(p, Q) # Cardinality(In(Q))}
<1>1. \A Q : IsFiniteSet(In(Q))
  BY FS_Subset
<1>2. Bad = {}
  <2> SUFFICES ASSUME Bad # {} PROVE FALSE
    OBVIOUS
  <2>1. \A Q \in Bad : IsFiniteSet(Q)
    BY FS_Subset
  <2> HIDE DEF Bad
  <2>2. PICK Q \in Bad : \A R \in Bad : R \subseteq Q => R = Q
    BY <2>1, MinimalSet
  <2>3. Q \subseteq P /\ SumOver(p, Q) # Cardinality(In(Q))
    BY DEF Bad
  <2>4. Q # {}
    <3> SUFFICES ASSUME Q = {} PROVE FALSE
      OBVIOUS
    <3>1. In(Q) = {}
      OBVIOUS
    <3> QED BY <2>3, <3>1, SumEmpty, FS_EmptySet
  <2>5. PICK o \in Q : TRUE
    BY <2>4
  <2> DEFINE R == Q \ {o}
             F == {x \in G : f[x] = o}
  <2>6. SumOver(p, Q) = p[o] + SumOver(p, R)
    <3>1. IsFiniteSet(Q) /\ Q \in SUBSET P
      BY <2>1, <2>3
    <3> QED BY <3>1, SumTakeOut
  <2>7. SumOver(p, R) = Cardinality(In(R))
    BY <2>2, <2>3 DEF Bad
  <2>8. In(Q) = F \cup In(R) /\ F \cap In(R) = {} /\ IsFiniteSet(F)
    BY FS_Subset
  <2>9. Cardinality(In(Q)) = Cardinality(F) + Cardinality(In(R)) - 0
    <3> HIDE DEF F, In, R
    <3> QED BY <1>1, <2>8, FS_Union, FS_EmptySet
  <2>10. p[o] = Cardinality(F) /\ Cardinality(F) \in Nat
         /\ Cardinality(In(R)) \in Nat
    BY <1>1, <2>3, <2>8, FS_CardinalityType
  <2> HIDE DEF F, In, R
  <2> QED BY <2>3, <2>6, <2>7, <2>9, <2>10
<1>3. SumOver(p, P) = Cardinality(In(P))
  BY <1>2
<1>4. In(P) = G
  OBVIOUS
<1> QED BY <1>3, <1>4

-----------------------------------------------------------------------------
(* The inductive invariant.                                                *)

\* What the type invariant leaves open.
RequestShape ==
    /\ req = [r \in DOMAIN req |-> req[r]]
    /\ \A r \in DOMAIN req :
          /\ DOMAIN req[r] = {"session", "answers", "amount", "pc", "table",
                              "order", "reply"}
          /\ req[r].answers \in Answers

\* The increments executed are of users who were asked about, and are finitely
\* many.
AddedShape ==
    /\ IsFiniteSet(added)
    /\ \A x \in added : /\ x[1] \in DOMAIN req
                        /\ x[2] \in DOMAIN req[x[1]].answers

\* u has an entry in the sorted set of s.
Scored(s, u) == s \in DOMAIN zset /\ u \in DOMAIN zset[s]

\* What the execution x of an increment has added.
PointsOf(x) == CurrentPoints(req[x[1]].answers)[x[2]]

\* The increments of u in s, and their sum.
Adders(s, u) == {x \in added : req[x[1]].session = s /\ x[2] = u}

SumOf(s, u) ==
    SumOver([x \in Adders(s, u) |-> CurrentPoints(req[x[1]].answers)[u]], Adders(s, u))

\* Whoever was given points has an entry, of at least these points.
AddedIsScored ==
    \A x \in added : /\ Scored(req[x[1]].session, x[2])
                     /\ zset[req[x[1]].session][x[2]] >= PointsOf(x)

\* The entry is the sum of what was added: TotalsAreSums.
ScoredIsSum ==
    \A s \in Sessions, u \in Users : Scored(s, u) => zset[s][u] = SumOf(s, u)

\* Some send has incremented u for the request r.
Executed(r, u) == \E k \in Sends : <<r, u, k>> \in added

\* Between the increments and the read, the points of the question are in.
OwnPointsIn ==
    \A r \in DOMAIN req : req[r].pc = "added" =>
        \A u \in DOMAIN req[r].answers : Executed(r, u)

\* The handler replies when it is done.
RepliesAtEnd == \A r \in DOMAIN req : req[r].reply = "ok" => req[r].pc = "end"

BoardInv ==
    /\ TypeOK
    /\ RequestShape
    /\ AddedShape
    /\ AddedIsScored
    /\ ScoredIsSum
    /\ OwnPointsIn
    /\ RepliesAtEnd
    /\ TableIncludesOwnPoints

\* An increment is a request, a user and a send.
LEMMA AddedFields ==
    ASSUME BoardInv, NEW x \in added
    PROVE  /\ x[1] \in DOMAIN req /\ req[x[1]].answers \in Answers
           /\ req[x[1]].session \in Sessions
           /\ x[2] \in DOMAIN req[x[1]].answers /\ x[2] \in Users
           /\ PointsOf(x) \in Nat
<1>1. x[1] \in DOMAIN req /\ x[2] \in DOMAIN req[x[1]].answers
  BY DEF BoardInv, AddedShape
<1>2. req[x[1]].answers \in Answers /\ req[x[1]].session \in Sessions
  BY <1>1 DEF BoardInv, RequestShape, TypeOK
<1>3. PointsOf(x) \in Nat
  BY <1>1, <1>2, PointsAreNat DEF PointsOf
<1>4. x[2] \in Users
  BY <1>1, <1>2, AnswerFields
<1> QED BY <1>1, <1>2, <1>3, <1>4

\* The sum that TotalsAreSums is stated with.
LEMMA SumOfIsMapThenSum ==
    ASSUME NEW u, NEW S, IsFiniteSet(S)
    PROVE  MapThenSumSet(LAMBDA x : CurrentPoints(req[x[1]].answers)[u], S) =
               SumOver([x \in S |-> CurrentPoints(req[x[1]].answers)[u]], S)
<1> DEFINE a(x) == CurrentPoints(req[x[1]].answers)[u]
           g == [x \in S |-> a(x)]
           V(h, s) == IF s = {} THEN 0 ELSE a(AnyOf(s)) + h[s \ {AnyOf(s)}]
           H == CHOOSE h : h = [s \in SUBSET S |-> V(h, s)]
<1>1. ASSUME NEW h
      PROVE  Sums(h, g, SUBSET S) <=> h = [s \in SUBSET S |-> V(h, s)]
  <2>1. \A s \in SUBSET S : s # {} => g[AnyOf(s)] = a(AnyOf(s))
    BY AnyOfIsMember
  <2> HIDE DEF g
  <2>2. \A s \in SUBSET S :
           V(h, s) = IF s = {} THEN 0 ELSE g[AnyOf(s)] + h[s \ {AnyOf(s)}]
    BY <2>1
  <2>3. [s \in SUBSET S |-> V(h, s)] =
        [s \in SUBSET S |-> IF s = {} THEN 0 ELSE g[AnyOf(s)] + h[s \ {AnyOf(s)}]]
    BY <2>2
  <2> QED BY <2>3 DEF Sums
<1>2. MapThenSumSet(LAMBDA x : CurrentPoints(req[x[1]].answers)[u], S) = H[S]
  BY DEF MapThenSumSet, MapThenFoldSet, AnyOf
<1> HIDE DEF g, V
<1>3. \E h : Sums(h, g, SUBSET S)
  BY SumsExist
<1>4. H = [s \in SUBSET S |-> V(H, s)]
  BY <1>1, <1>3
<1> HIDE DEF H
<1>5. Sums(H, g, SUBSET S)
  BY <1>1, <1>4
<1>6. PICK h : Sums(h, g, SUBSET S) /\ SumOver(g, S) = h[S]
  BY SumIsSums
<1>7. BothSum(H, g, S, h, g, S, S)
  BY <1>5, <1>6 DEF BothSum
<1>8. H[S] = h[S]
  BY <1>7, SumsAgree
<1> QED BY <1>2, <1>6, <1>8 DEF g

-----------------------------------------------------------------------------
(* What a step does to the requests.                                       *)

\* A step of one request, which stays the same question of the same session.
Moves(r, pc, reply) ==
    /\ req' = [q \in DOMAIN req |-> req'[q]]
    /\ \A q \in DOMAIN req \ {r} : req'[q] = req[q]
    /\ DOMAIN req'[r] = DOMAIN req[r]
    /\ req'[r].session = req[r].session
    /\ req'[r].answers = req[r].answers
    /\ req'[r].amount = req[r].amount
    /\ req'[r].pc = pc
    /\ req'[r].reply = reply

\* The step that changes pc and reply.
LEMMA ReplyMoves ==
    ASSUME RequestShape, NEW r \in DOMAIN req, NEW pc, NEW reply,
           req' = [req EXCEPT ![r].pc = pc, ![r].reply = reply]
    PROVE  Moves(r, pc, reply) /\ req'[r].table = req[r].table
BY DEF RequestShape, Moves

\* The step that changes one of them.
LEMMA FieldMoves ==
    ASSUME RequestShape, NEW r \in DOMAIN req, NEW v
    PROVE  /\ req' = [req EXCEPT ![r].pc = v] =>
                Moves(r, v, req[r].reply) /\ req'[r].table = req[r].table
           /\ req' = [req EXCEPT ![r].reply = v] =>
                Moves(r, req[r].pc, v) /\ req'[r].table = req[r].table
BY DEF RequestShape, Moves

\* The step that also fills in the table.
LEMMA TableMoves ==
    ASSUME RequestShape, NEW r \in DOMAIN req, NEW pc, NEW table, NEW order, NEW reply,
           req' = [req EXCEPT ![r].pc = pc, ![r].table = table,
                              ![r].order = order, ![r].reply = reply]
    PROVE  Moves(r, pc, reply) /\ req'[r].table = table
<1> DEFINE x == req[r]
           x1 == [x EXCEPT !.pc = pc]
           x2 == [x1 EXCEPT !.table = table]
           x3 == [x2 EXCEPT !.order = order]
           y == [x3 EXCEPT !.reply = reply]
           Same(z) == /\ DOMAIN z = DOMAIN x /\ z.session = x.session
                      /\ z.answers = x.answers /\ z.amount = x.amount
<1>1. req' = [q \in DOMAIN req |-> IF q = r THEN y ELSE req[q]]
  BY DEF RequestShape
<1>2. DOMAIN x = {"session", "answers", "amount", "pc", "table", "order", "reply"}
  BY DEF RequestShape
<1>3. Same(x1) /\ x1.pc = pc
  BY <1>2
<1> HIDE DEF x1
<1>4. Same(x2) /\ x2.pc = pc /\ x2.table = table
  BY <1>2, <1>3
<1> HIDE DEF x2
<1>5. Same(x3) /\ x3.pc = pc /\ x3.table = table
  BY <1>2, <1>4
<1> HIDE DEF x3
<1>6. Same(y) /\ y.pc = pc /\ y.table = table /\ y.reply = reply
  BY <1>2, <1>5
<1> HIDE DEF y
<1> QED BY <1>1, <1>6 DEF Moves

-----------------------------------------------------------------------------
(* Steps that add no points.                                               *)

\* Nothing was asked and nothing is stored.
LEMMA InitInv == Init => BoardInv
<1> SUFFICES ASSUME Init PROVE BoardInv
  OBVIOUS
<1>1. /\ DOMAIN zset = {} /\ DOMAIN req = {} /\ added = {}
      /\ req = [r \in DOMAIN req |-> req[r]]
  BY DEF Init, EmptyMap
<1>2. IsFiniteSet(added)
  BY <1>1, FS_EmptySet
<1> QED
  BY <1>1, <1>2
  DEF Init, BoardInv, TypeOK, RequestShape, AddedShape, AddedIsScored, ScoredIsSum,
      Scored, OwnPointsIn, RepliesAtEnd, TableIncludesOwnPoints

\* The requests that have added points are what they were.
LEMMA SameSums ==
    ASSUME zset' = zset, added' = added,
           \A x \in added : /\ req'[x[1]].session = req[x[1]].session
                            /\ req'[x[1]].answers = req[x[1]].answers
    PROVE  \A s, u : /\ Scored(s, u)' <=> Scored(s, u)
                     /\ SumOf(s, u)' = SumOf(s, u)
<1> SUFFICES ASSUME NEW s, NEW u
             PROVE  /\ Scored(s, u)' <=> Scored(s, u)
                    /\ SumOf(s, u)' = SumOf(s, u)
  OBVIOUS
<1>1. (Scored(s, u)' <=> Scored(s, u)) /\ Adders(s, u)' = Adders(s, u)
  BY DEF Scored, Adders
<1>2. [x \in Adders(s, u)' |-> CurrentPoints(req'[x[1]].answers)[u]] =
      [x \in Adders(s, u) |-> CurrentPoints(req[x[1]].answers)[u]]
  BY <1>1 DEF Adders
<1>3. SumOf(s, u)' = SumOf(s, u)
  BY <1>1, <1>2, Zenon DEF SumOf
<1> QED BY <1>1, <1>3

\* A step of a handler or a client leaves the sorted sets what they were: the
\* sums of the increments.
LEMMA SumsKept ==
    ASSUME BoardInv, zset' = zset, added' = added,
           \A q \in DOMAIN req : /\ q \in DOMAIN req'
                                 /\ req'[q].session = req[q].session
                                 /\ req'[q].answers = req[q].answers
    PROVE  AddedShape' /\ AddedIsScored' /\ ScoredIsSum'
<1>1. ASSUME NEW x \in added
      PROVE  /\ x[1] \in DOMAIN req /\ x[1] \in DOMAIN req'
             /\ req'[x[1]].session = req[x[1]].session
             /\ req'[x[1]].answers = req[x[1]].answers
             /\ PointsOf(x)' = PointsOf(x)
  BY AddedFields DEF PointsOf
<1>2. \A s, u : /\ Scored(s, u)' <=> Scored(s, u)
                /\ SumOf(s, u)' = SumOf(s, u)
  BY <1>1, SameSums
<1>3. AddedShape'
  BY <1>1 DEF BoardInv, AddedShape
<1>4. AddedIsScored'
  <2> SUFFICES ASSUME NEW x \in added, NEW s, s = req[x[1]].session
               PROVE  Scored(s, x[2]) /\ zset[s][x[2]] >= PointsOf(x)
    BY <1>1 DEF AddedIsScored, Scored
  <2> QED BY DEF BoardInv, AddedIsScored
<1>5. ScoredIsSum'
  BY <1>2 DEF BoardInv, ScoredIsSum
<1> QED BY <1>3, <1>4, <1>5

\* A handler or a client goes on: what was loaded is what is stored.
LEMMA MovesInv ==
    ASSUME BoardInv, NEW r \in DOMAIN req,
           NEW pc \in {"posted", "added", "end"}, NEW reply \in {"none", "ok", "error"},
           Moves(r, pc, reply), UNCHANGED <<zset, added>>,
           pc = "added" => \/ req[r].pc = "added"
                           \/ \A u \in DOMAIN req[r].answers : Executed(r, u),
           reply = "ok" => /\ pc = "end"
                           /\ \/ /\ req[r].reply = "ok"
                                 /\ req'[r].table = req[r].table
                              \/ /\ req[r].pc = "added"
                                 /\ req'[r].table = Totals(req[r].session)
    PROVE  BoardInv'
<1> USE DEF BoardInv
<1>1. /\ DOMAIN req' = DOMAIN req
      /\ \A q \in DOMAIN req : /\ req'[q].session = req[q].session
                               /\ req'[q].answers = req[q].answers
                               /\ req'[q].amount = req[q].amount
      /\ \A q \in DOMAIN req \ {r} : req'[q] = req[q]
      /\ req'[r].pc = pc /\ req'[r].reply = reply
      /\ zset' = zset /\ added' = added
  BY DEF Moves
<1>2. TypeOK'
  BY <1>1 DEF TypeOK
<1>3. RequestShape'
  BY <1>1 DEF RequestShape, Moves
<1>4. AddedShape' /\ AddedIsScored' /\ ScoredIsSum'
  BY <1>1, SumsKept
<1>5. \A q, u : Executed(q, u)' <=> Executed(q, u)
  BY <1>1 DEF Executed
<1>6. OwnPointsIn'
  <2> SUFFICES ASSUME NEW q \in DOMAIN req, req'[q].pc = "added",
                      NEW u \in DOMAIN req[q].answers
               PROVE  Executed(q, u)
    BY <1>1, <1>5 DEF OwnPointsIn
  <2> QED BY <1>1 DEF OwnPointsIn
<1>7. RepliesAtEnd'
  BY <1>1 DEF RepliesAtEnd
<1>8. TableIncludesOwnPoints'
  <2> SUFFICES ASSUME NEW q \in DOMAIN req, req'[q].reply = "ok",
                      NEW u \in DOMAIN req[q].answers
               PROVE  /\ Executed(q, u)
                      /\ u \in DOMAIN req'[q].table
                      /\ req'[q].table[u] >= CurrentPoints(req[q].answers)[u]
    BY <1>1, <1>5 DEF TableIncludesOwnPoints, Executed
  <2>1. CASE req[q].reply = "ok" /\ req'[q].table = req[q].table
    BY <2>1 DEF TableIncludesOwnPoints, Executed
  <2>2. CASE req[q].pc = "added" /\ req'[q].table = Totals(req[q].session)
    <3>1. PICK k \in Sends : <<q, u, k>> \in added
      BY <2>2 DEF OwnPointsIn, Executed
    <3>2. PICK x \in added : x[1] = q /\ x[2] = u
      BY <3>1
    <3>3. Scored(req[q].session, u)
          /\ zset[req[q].session][u] >= CurrentPoints(req[q].answers)[u]
      BY <3>2 DEF AddedIsScored, PointsOf
    <3> QED BY <2>2, <3>1, <3>3 DEF Totals, Scored, Executed
  <2> QED BY <1>1, <2>1, <2>2
<1> QED BY <1>2, <1>3, <1>4, <1>6, <1>7, <1>8

\* GetResults: a new request has added nothing.
LEMMA PostInv ==
    ASSUME BoardInv, NEW r \in Requests, NEW s \in Sessions, NEW a \in Answers,
           NEW amount \in Amounts, Post(r, s, a, amount)
    PROVE  BoardInv'
<1> USE DEF BoardInv
<1> DEFINE x == [session |-> s, answers |-> a, amount |-> amount, pc |-> "posted",
                 table |-> EmptyMap, order |-> <<>>, reply |-> "none"]
<1>1. /\ DOMAIN req' = DOMAIN req \cup {r} /\ r \notin DOMAIN req
      /\ req' = [q \in DOMAIN req' |-> req'[q]]
      /\ \A q \in DOMAIN req : req'[q] = req[q]
      /\ req'[r] = x
      /\ zset' = zset /\ added' = added
  BY DEF Post, Put
<1>2. /\ req'[r].session = s /\ req'[r].answers = a /\ req'[r].amount = amount
      /\ req'[r].pc = "posted" /\ req'[r].reply = "none"
      /\ DOMAIN req'[r] = {"session", "answers", "amount", "pc", "table", "order",
                           "reply"}
  BY <1>1
<1> HIDE DEF x
<1>3. TypeOK'
  BY <1>1, <1>2 DEF TypeOK
<1>4. RequestShape'
  BY <1>1, <1>2 DEF RequestShape
<1>5. AddedShape' /\ AddedIsScored' /\ ScoredIsSum'
  BY <1>1, SumsKept
<1>6. OwnPointsIn'
  BY <1>1, <1>2 DEF OwnPointsIn, Executed
<1>7. RepliesAtEnd'
  BY <1>1, <1>2 DEF RepliesAtEnd
<1>8. TableIncludesOwnPoints'
  BY <1>1, <1>2 DEF TableIncludesOwnPoints
<1> QED BY <1>3, <1>4, <1>5, <1>6, <1>7, <1>8

-----------------------------------------------------------------------------
(* The increments.                                                         *)

\* ZINCRBY of n for one user: what changes in the sorted sets.
Increments(s, v, n) ==
    /\ DOMAIN zset' \subseteq Sessions
    /\ \A t \in DOMAIN zset' : IsMap(zset'[t], Users, Nat)
    /\ \A t, u : Scored(t, u)' <=> Scored(t, u) \/ (t = s /\ u = v)
    /\ \A t, u : Scored(t, u) /\ ~(t = s /\ u = v) => zset'[t][u] = zset[t][u]
    /\ zset'[s][v] = n + IF Scored(s, v) THEN zset[s][v] ELSE 0

\* The command is such a change, for any user and points.
LEMMA IncrementEffect ==
    ASSUME BoardInv, NEW s \in Sessions, NEW v \in Users, NEW n \in Nat,
           zset' = Put(zset, s, Incremented(Totals(s), v, n))
    PROVE  Increments(s, v, n)
<1> DEFINE T == Totals(s)
           I == Incremented(T, v, n)
<1>1. /\ DOMAIN T \subseteq Users /\ \A u \in DOMAIN T : T[u] \in Nat
      /\ \A u : u \in DOMAIN T <=> Scored(s, u)
      /\ \A u \in DOMAIN T : T[u] = zset[s][u]
  BY DEF BoardInv, TypeOK, IsMap, Totals, EmptyMap, Scored
<1> HIDE DEF T
<1>2. /\ DOMAIN I = DOMAIN T \cup {v}
      /\ I[v] = n + IF v \in DOMAIN T THEN T[v] ELSE 0
      /\ \A u \in DOMAIN I \ {v} : I[u] = T[u]
      /\ I = [u \in DOMAIN I |-> I[u]]
  BY DEF Incremented, Put
<1> HIDE DEF I
<1>3. I[v] \in Nat
  BY <1>1, <1>2
<1>4. IsMap(I, Users, Nat)
  BY <1>1, <1>2, <1>3 DEF IsMap
<1>5. /\ DOMAIN zset' = DOMAIN zset \cup {s}
      /\ zset'[s] = I
      /\ \A t \in DOMAIN zset \ {s} : zset'[t] = zset[t]
  BY DEF I, T, Put
<1>6. /\ DOMAIN zset' \subseteq Sessions
      /\ \A t \in DOMAIN zset' : IsMap(zset'[t], Users, Nat)
  BY <1>4, <1>5 DEF BoardInv, TypeOK
<1>7. \A t, u : Scored(t, u)' <=> Scored(t, u) \/ (t = s /\ u = v)
  BY <1>1, <1>2, <1>5 DEF Scored
<1>8. ASSUME NEW t, NEW u, Scored(t, u), ~(t = s /\ u = v)
      PROVE  zset'[t][u] = zset[t][u]
  <2>1. CASE t = s
    BY <1>1, <1>2, <1>5, <1>8, <2>1
  <2>2. CASE t # s
    BY <1>5, <1>8, <2>2 DEF Scored
  <2> QED BY <2>1, <2>2
<1>9. zset'[s][v] = n + IF Scored(s, v) THEN zset[s][v] ELSE 0
  <2>1. v \in DOMAIN T => T[v] = zset[s][v]
    BY <1>1
  <2>2. CASE Scored(s, v)
    BY <1>1, <1>2, <1>5, <2>1, <2>2
  <2>3. CASE ~Scored(s, v)
    BY <1>1, <1>2, <1>5, <2>3
  <2> QED BY <2>2, <2>3
<1> QED BY <1>6, <1>7, <1>8, <1>9 DEF Increments

\* The sums grow by an increment that was not executed before.
LEMMA SumOfGrows ==
    ASSUME BoardInv, NEW e, e \notin added, added' = added \cup {e}, req' = req,
           NEW s, s = req[e[1]].session, NEW v, v = e[2],
           NEW n \in Nat, n = CurrentPoints(req[e[1]].answers)[v]
    PROVE  \A t, u :
              /\ u = v /\ t = s => SumOf(t, u)' = n + SumOf(t, u)
              /\ ~(u = v /\ t = s) => SumOf(t, u)' = SumOf(t, u)
              /\ SumOf(t, u) \in Nat
<1> SUFFICES ASSUME NEW t, NEW u
             PROVE  /\ u = v /\ t = s => SumOf(t, u)' = n + SumOf(t, u)
                    /\ ~(u = v /\ t = s) => SumOf(t, u)' = SumOf(t, u)
                    /\ SumOf(t, u) \in Nat
  OBVIOUS
<1>0. PICK A, B, g, h :
         /\ A = Adders(t, u) /\ B = Adders(t, u)'
         /\ g = [x \in A |-> CurrentPoints(req[x[1]].answers)[u]]
         /\ h = [x \in B |-> CurrentPoints(req'[x[1]].answers)[u]]
  OBVIOUS
<1>1. SumOf(t, u) = SumOver(g, A) /\ SumOf(t, u)' = SumOver(h, B)
  BY <1>0 DEF SumOf
<1>2. /\ A \subseteq added
      /\ u = v /\ t = s => B = A \cup {e} /\ e \notin A
      /\ ~(u = v /\ t = s) => B = A
  BY <1>0 DEF Adders
<1>3. IsFiniteSet(A) /\ IsFiniteSet(A \cup {e})
  BY <1>2, FS_Subset, FS_AddElement DEF BoardInv, AddedShape
<1>4. g \in [A -> Nat]
  <2> SUFFICES ASSUME NEW x \in A PROVE CurrentPoints(req[x[1]].answers)[u] \in Nat
    BY <1>0
  <2>1. x \in added /\ x[2] = u
    BY <1>0 DEF Adders
  <2> QED BY <2>1, AddedFields DEF PointsOf
<1>5. \A x \in A : x \in B /\ h[x] = g[x]
  BY <1>0, <1>2
<1>6. SumOver(h, A) = SumOver(g, A)
  BY <1>3, <1>5, SumSame
<1>7. CASE u = v /\ t = s
  <2>1. h[e] = n
    BY <1>0, <1>2, <1>7
  <2>2. h \in [B -> Nat]
    <3>1. ASSUME NEW x \in B PROVE h[x] \in Nat
      BY <1>2, <1>4, <1>5, <1>7, <2>1
    <3> QED BY <1>0, <3>1
  <2>3. B \in SUBSET B /\ IsFiniteSet(B) /\ e \in B /\ B \ {e} = A
    BY <1>2, <1>3, <1>7
  <2>4. /\ SumOver(h, B) = h[e] + SumOver(h, B \ {e})
        /\ SumOver(h, B \ {e}) \in Nat
    BY <2>2, <2>3, SumTakeOut
  <2> QED BY <1>1, <1>6, <1>7, <2>1, <2>3, <2>4
<1>8. CASE ~(u = v /\ t = s)
  <2>1. SumOver(g, A) \in Nat
    <3>1. CASE A = {}
      BY <3>1, SumEmpty
    <3>2. CASE A # {}
      <4>1. PICK x \in A : TRUE
        BY <3>2
      <4>2. A \in SUBSET A
        OBVIOUS
      <4> QED BY <1>3, <1>4, <4>1, <4>2, SumTakeOut
    <3> QED BY <3>1, <3>2
  <2> QED BY <1>1, <1>2, <1>6, <1>8, <2>1
<1> QED BY <1>7, <1>8

\* Redis executes an increment, of whichever send and however late.
LEMMA ZIncrByInv ==
    ASSUME BoardInv, NEW r \in DOMAIN req, NEW v \in Users, NEW k \in Sends,
           ZIncrBy(r, v, k)
    PROVE  BoardInv'
<1> USE DEF BoardInv
<1> PICK e, s, a, n : /\ e = <<r, v, k>> /\ s = req[r].session
                      /\ a = req[r].answers /\ n = CurrentPoints(a)[v]
  OBVIOUS
<1>1. /\ v \in DOMAIN a /\ e \notin added /\ added' = added \cup {e} /\ req' = req
      /\ zset' = Put(zset, s, Incremented(Totals(s), v, n))
      /\ e[1] = r /\ e[2] = v
  BY DEF ZIncrBy
<1>2. s \in Sessions /\ a \in Answers
  BY DEF TypeOK, RequestShape
<1>3. n \in Nat
  BY <1>1, <1>2, PointsAreNat
<1>4. /\ DOMAIN zset' \subseteq Sessions
      /\ \A t \in DOMAIN zset' : IsMap(zset'[t], Users, Nat)
      /\ \A t, u : Scored(t, u)' <=> Scored(t, u) \/ (t = s /\ u = v)
      /\ \A t, u : Scored(t, u) /\ ~(t = s /\ u = v) => zset'[t][u] = zset[t][u]
      /\ zset'[s][v] = n + IF Scored(s, v) THEN zset[s][v] ELSE 0
  <2>1. Increments(s, v, n)
    BY <1>1, <1>2, <1>3, IncrementEffect
  <2> QED BY <2>1 DEF Increments
<1>5. \A t, u : /\ u = v /\ t = s => SumOf(t, u)' = n + SumOf(t, u)
                /\ ~(u = v /\ t = s) => SumOf(t, u)' = SumOf(t, u)
                /\ SumOf(t, u) \in Nat
  BY <1>1, <1>3, SumOfGrows
<1>6. TypeOK'
  BY <1>1, <1>4 DEF TypeOK
<1>7. RequestShape'
  BY <1>1 DEF RequestShape
<1>8. AddedShape'
  BY <1>1, FS_AddElement DEF AddedShape
<1>9. AddedIsScored'
  <2> SUFFICES ASSUME NEW x \in added \cup {e}, NEW t, t = req[x[1]].session
               PROVE  Scored(t, x[2])' /\ zset'[t][x[2]] >= PointsOf(x)
    BY <1>1 DEF AddedIsScored, Scored, PointsOf
  <2>1. Scored(s, v) => zset[s][v] \in Nat
    BY DEF TypeOK, IsMap, Scored
  <2>2. CASE x = e
    <3>1. PointsOf(x) = n /\ t = s /\ x[2] = v
      BY <1>1, <2>2 DEF PointsOf
    <3> QED BY <1>3, <1>4, <2>1, <3>1
  <2>3. CASE x \in added
    <3>1. /\ Scored(t, x[2]) /\ zset[t][x[2]] >= PointsOf(x)
          /\ PointsOf(x) \in Nat
      BY <2>3, AddedFields DEF AddedIsScored
    <3>2. CASE t = s /\ x[2] = v
      BY <1>3, <1>4, <2>1, <3>1, <3>2
    <3>3. CASE ~(t = s /\ x[2] = v)
      BY <1>4, <3>1, <3>3
    <3> QED BY <3>2, <3>3
  <2> QED BY <2>2, <2>3
<1>10. \A t \in Sessions, u \in Users : ~Scored(t, u) => SumOf(t, u) = 0
  <2> SUFFICES ASSUME NEW t \in Sessions, NEW u \in Users, ~Scored(t, u)
               PROVE  SumOf(t, u) = 0
    OBVIOUS
  <2>1. Adders(t, u) = {}
    BY DEF AddedIsScored, Adders
  <2> QED BY <2>1, SumEmpty DEF SumOf
<1>11. ScoredIsSum'
  <2> SUFFICES ASSUME NEW t \in Sessions, NEW u \in Users, Scored(t, u)'
               PROVE  zset'[t][u] = SumOf(t, u)'
    BY DEF ScoredIsSum
  <2>1. CASE u = v /\ t = s
    <3>1. (IF Scored(s, v) THEN zset[s][v] ELSE 0) = SumOf(s, v)
      BY <1>2, <1>10 DEF ScoredIsSum
    <3> QED BY <1>4, <1>5, <2>1, <3>1
  <2>2. CASE ~(u = v /\ t = s)
    BY <1>4, <1>5, <2>2 DEF ScoredIsSum
  <2> QED BY <2>1, <2>2
<1>12. OwnPointsIn' /\ TableIncludesOwnPoints'
  BY <1>1 DEF OwnPointsIn, Executed, TableIncludesOwnPoints
<1>13. RepliesAtEnd'
  BY <1>1 DEF RepliesAtEnd
<1> QED BY <1>6, <1>7, <1>8, <1>9, <1>11, <1>12, <1>13

-----------------------------------------------------------------------------
(* Every step.                                                             *)

\* The handler of a request.
LEMMA HandlerStepInv ==
    ASSUME BoardInv, NEW r \in DOMAIN req, HandlerStep(r)
    PROVE  BoardInv'
<1> USE DEF BoardInv
<1>1. /\ req[r].reply \in {"none", "ok", "error"}
      /\ Refused(r) \in {"ok", "error"}
      /\ Refused(r) = "ok" => req[r].reply = "ok"
      /\ req[r].pc # "end" => req[r].reply # "ok"
      /\ req[r].answers \in Answers
  BY DEF TypeOK, Refused, RepliesAtEnd, RequestShape
<1>2. CASE EmptyPanics(r) \/ AddScoresFails(r) \/ LoadFails(r)
  <2>1. /\ Moves(r, "end", Refused(r)) /\ UNCHANGED <<zset, added>>
        /\ req[r].pc # "end"
    BY <1>2, ReplyMoves DEF EmptyPanics, AddScoresFails, LoadFails
  <2> QED BY <1>1, <2>1, MovesInv
<1>3. CASE LoadLeaderboard(r)
  <2> DEFINE T == Totals(req[r].session)
             reply == IF req[r].reply = "none" THEN "ok" ELSE req[r].reply
  <2>1. PICK order :
           req' = [req EXCEPT ![r].pc = "end", ![r].table = T, ![r].order = order,
                              ![r].reply = reply]
    BY <1>3 DEF LoadLeaderboard
  <2>2. Moves(r, "end", reply) /\ req'[r].table = T
    <3> HIDE DEF T, reply
    <3> QED BY <2>1, TableMoves
  <2>3. UNCHANGED <<zset, added>> /\ req[r].pc = "added"
    BY <1>3 DEF LoadLeaderboard
  <2>4. reply \in {"none", "ok", "error"}
    BY <1>1
  <2> HIDE DEF reply
  <2> QED BY <2>2, <2>3, <2>4, MovesInv
<1>4. CASE AddScoresBatch(r)
  <2>1. /\ Moves(r, "added", req[r].reply) /\ UNCHANGED <<zset, added>>
        /\ req[r].pc = "posted"
        /\ \A u \in DOMAIN req[r].answers : Executed(r, u)
    BY <1>4, FieldMoves DEF AddScoresBatch, Executed
  <2> QED BY <1>1, <2>1, MovesInv
<1> QED BY <1>2, <1>3, <1>4 DEF HandlerStep

\* Every step keeps the invariant.
LEMMA NextInv == BoardInv /\ [Next]_vars => BoardInv'
<1> SUFFICES ASSUME BoardInv, [Next]_vars PROVE BoardInv'
  OBVIOUS
<1>1. ASSUME NEW r \in Requests, NEW s \in Sessions, NEW a \in Answers,
             NEW n \in Amounts, Post(r, s, a, n)
      PROVE  BoardInv'
  BY <1>1, PostInv
<1>2. ASSUME NEW r \in DOMAIN req, HandlerStep(r) PROVE BoardInv'
  BY <1>2, HandlerStepInv
<1>3. ASSUME NEW r \in DOMAIN req, ClientTimeout(r) PROVE BoardInv'
  <2>1. Moves(r, req[r].pc, "error") /\ UNCHANGED <<zset, added>>
    BY <1>3, FieldMoves DEF ClientTimeout, BoardInv
  <2>2. req[r].pc \in {"posted", "added", "end"}
    BY DEF BoardInv, TypeOK
  <2> QED BY <2>1, <2>2, MovesInv
<1>4. ASSUME NEW r \in DOMAIN req, NEW u \in Users, NEW k \in Sends, ZIncrBy(r, u, k)
      PROVE  BoardInv'
  BY <1>4, ZIncrByInv
<1>5. CASE UNCHANGED vars
  <2>1. zset' = zset /\ req' = req /\ added' = added
    BY <1>5 DEF vars
  <2>2. AddedShape' /\ AddedIsScored' /\ ScoredIsSum'
    BY <2>1, SumsKept
  <2> QED
    BY <2>1, <2>2
    DEF BoardInv, TypeOK, RequestShape, OwnPointsIn, Executed, RepliesAtEnd,
        TableIncludesOwnPoints
<1> QED BY <1>1, <1>2, <1>3, <1>4, <1>5 DEF Next

-----------------------------------------------------------------------------
(* Theorems.                                                               *)

\* The inductive invariant: the sorted sets hold the sums of the increments
\* executed, and a request that goes on after its pipeline has been executed.
THEOREM BoardInvariant == Spec => []BoardInv
BY InitInv, NextInv, PTL DEF Spec

\* The totals and the requests have their types.
THEOREM LeaderBoardTyped == Spec => []TypeOK
<1>1. BoardInv => TypeOK
  BY DEF BoardInv
<1> QED BY <1>1, BoardInvariant, PTL

\* The sorted set holds exactly the sum of the increments executed, for any
\* number of concurrent, failing, repeated and abandoned pipelines of any
\* requests (AddScoresBatch).
THEOREM TotalsAreSumsHolds == Spec => []TotalsAreSums
<1>1. BoardInv => TotalsAreSums
  <2> SUFFICES ASSUME BoardInv, NEW s \in DOMAIN zset, NEW u \in DOMAIN zset[s]
               PROVE  zset[s][u] = MapThenSumSet(
                          LAMBDA x : CurrentPoints(req[x[1]].answers)[u],
                          {x \in added : req[x[1]].session = s /\ x[2] = u})
    BY DEF TotalsAreSums
  <2>1. s \in Sessions /\ u \in Users /\ Scored(s, u)
    BY DEF BoardInv, TypeOK, IsMap, Scored
  <2>2. IsFiniteSet(Adders(s, u))
    BY FS_Subset DEF BoardInv, AddedShape, Adders
  <2>3. MapThenSumSet(LAMBDA x : CurrentPoints(req[x[1]].answers)[u], Adders(s, u))
           = SumOf(s, u)
    BY <2>2, SumOfIsMapThenSum DEF SumOf
  <2> QED BY <2>1, <2>3 DEF BoardInv, ScoredIsSum, Adders
<1> QED BY <1>1, BoardInvariant, PTL

\* A table that is sent includes the points of its own question, which have
\* been added at least once for each of its users.
THEOREM TableIncludesOwnPointsHolds == Spec => []TableIncludesOwnPoints
<1>1. BoardInv => TableIncludesOwnPoints
  BY DEF BoardInv
<1> QED BY <1>1, BoardInvariant, PTL

\* ComputeLeaderBoard: for any timestamps, points are between 0 and 1000, none
\* for a wrong answer, and never fewer for the earlier of two correct ones.
THEOREM FasterIsNotWorseHolds == Spec => []FasterIsNotWorse
<1>1. BoardInv => FasterIsNotWorse
  <2> SUFFICES ASSUME BoardInv, NEW r \in DOMAIN req,
                      NEW a, a = req[r].answers, NEW u \in DOMAIN a
               PROVE  /\ CurrentPoints(a)[u] \in 0 .. 1000
                      /\ ~a[u].correct => CurrentPoints(a)[u] = 0
                      /\ \A v \in DOMAIN a :
                            a[u].correct /\ a[v].correct /\ a[u].time <= a[v].time =>
                                CurrentPoints(a)[u] >= CurrentPoints(a)[v]
    BY ZenonT(40) DEF FasterIsNotWorse
  <2>1. a \in Answers
    BY DEF BoardInv, RequestShape
  <2>2. CurrentPoints(a)[u] \in 0 .. 1000
    BY <2>1, CurrentPointsType
  <2>3. ~a[u].correct => CurrentPoints(a)[u] = 0
    BY DEF CurrentPoints
  <2>4. ASSUME NEW v \in DOMAIN a,
               a[u].correct, a[v].correct, a[u].time <= a[v].time
        PROVE  CurrentPoints(a)[u] >= CurrentPoints(a)[v]
    BY <2>1, <2>4, EarlierIsNotWorse
  <2> QED BY <2>2, <2>3, <2>4
<1> QED BY <1>1, BoardInvariant, PTL

\* PopularAns counts every answer that was given once, whatever the options.
THEOREM PopularCountsGivenHolds == Spec => []PopularCountsGiven
<1>1. BoardInv => PopularCountsGiven
  <2> SUFFICES ASSUME BoardInv, NEW r \in DOMAIN req, NEW a, a = req[r].answers,
                      NEW n, n = req[r].amount
               PROVE  /\ MapThenSumSet(LAMBDA o : Popular(a, n)[o],
                                       DOMAIN Popular(a, n)) =
                            Cardinality({u \in DOMAIN a : a[u].answered})
                      /\ 1 .. n \subseteq DOMAIN Popular(a, n)
    BY DEF PopularCountsGiven
  <2>1. a \in Answers /\ n \in Nat
    BY AmountsAssumption DEF BoardInv, RequestShape, TypeOK
  <2>2. PICK G, f, P, p : /\ G = {u \in DOMAIN a : a[u].answered}
                          /\ f = [u \in G |-> a[u].option]
                          /\ P = (1 .. n) \cup {a[u].option : u \in G}
                          /\ p = Popular(a, n)
    OBVIOUS
  <2>3. IsFiniteSet(G)
    BY <2>1, <2>2, AnswerFields, FS_Subset
  <2>4. /\ p = [o \in P |-> Cardinality({u \in G : a[u].option = o})]
        /\ \A u \in G : f[u] = a[u].option /\ f[u] \in P
    BY <2>2 DEF Popular
  <2>5. \A o \in P : p[o] = Cardinality({u \in G : f[u] = o})
    BY <2>4
  <2>6. IsFiniteSet(P)
    <3> DEFINE R == {a[u].option : u \in G}
    <3>1. f \in Surjection(G, R)
      BY <2>2 DEF Surjection
    <3>2. IsFiniteSet(R) /\ IsFiniteSet(1 .. n)
      BY <2>1, <2>3, <3>1, FS_Surjection, FS_Interval
    <3> QED BY <2>2, <3>2, FS_Union
  <2>7. p \in [P -> Nat]
    <3>1. \A o : Cardinality({u \in G : a[u].option = o}) \in Nat
      <4> SUFFICES ASSUME NEW o
                   PROVE  Cardinality({u \in G : a[u].option = o}) \in Nat
        OBVIOUS
      <4>1. IsFiniteSet({u \in G : a[u].option = o})
        BY <2>3, FS_Subset
      <4> QED BY <4>1, FS_CardinalityType
    <3>2. \A o \in P : p[o] \in Nat
      BY <2>4, <3>1
    <3> QED BY <2>4, <3>2
  <2>8. SumOver(p, P) = Cardinality(G)
    <3>1. \A u \in G : f[u] \in P
      BY <2>4
    <3> QED BY <2>3, <2>5, <2>6, <2>7, <3>1, SumOfFibres
  <2>9. MapThenSumSet(LAMBDA o : Popular(a, n)[o], DOMAIN Popular(a, n)) =
        SumOver(Popular(a, n), DOMAIN Popular(a, n))
    BY Zenon DEF SumOver
  <2>10. DOMAIN Popular(a, n) = P /\ 1 .. n \subseteq P
    BY <2>2, <2>4
  <2> QED BY <2>2, <2>8, <2>9, <2>10, Zenon
<1> QED BY <1>1, BoardInvariant, PTL
=============================================================================
