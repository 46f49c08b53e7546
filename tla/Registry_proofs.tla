-------------------------- MODULE Registry_proofs --------------------------
(***************************************************************************)
(* Proofs about Registry: who is registered, and to whom a broadcast goes, *)
(* for any sessions, users, connections and goroutines.                    *)
(***************************************************************************)
EXTENDS Registry, FoldTheorems

-----------------------------------------------------------------------------
(* RemoveAdmins.                                                           *)

\* What the loop of BroadcastToSession starts from.
Uncut(q) == [array |-> q, len |-> Len(q), ok |-> TRUE]

\* The function that the fold behind RemoveAdmins computes, on the sets D of
\* indices.
Cuts(h, q, D) ==
    h = [s \in D |-> IF s = {} THEN Uncut(q)
                     ELSE CutAt(h[s \ {Max(s)}], Max(s))]

\* t[k] is what the loop has made of q after k turns.
Turns(t, q) ==
    /\ t[0] = Uncut(q)
    /\ \A k \in 1 .. Len(q) : t[k] = CutAt(t[k - 1], k)

\* The fold is defined, for any number of indices.
LEMMA CutsExist ==
    ASSUME NEW q, NEW N \in Nat
    PROVE  \E h : Cuts(h, q, SUBSET (1 .. N))
<1> DEFINE D(n) == SUBSET (1 .. n)
           Bad == {n \in Nat : ~ \E h : Cuts(h, q, D(n))}
<1>1. 0 \notin Bad
  <2> DEFINE h == [s \in D(0) |-> Uncut(q)]
  <2>1. \A s \in D(0) : s = {}
    OBVIOUS
  <2>2. Cuts(h, q, D(0))
    BY <2>1 DEF Cuts
  <2> QED BY <2>2
<1>2. ASSUME NEW n \in Nat, n \notin Bad PROVE n + 1 \notin Bad
  <2>1. PICK h : Cuts(h, q, D(n))
    BY <1>2
  <2> DEFINE V(f, s) == IF s = {} THEN Uncut(q)
                        ELSE CutAt(f[s \ {Max(s)}], Max(s))
             k == [s \in D(n + 1) |-> V(h, s)]
  <2>2. \A s \in D(n) : s \in D(n + 1) /\ h[s] = k[s]
    <3> SUFFICES ASSUME NEW s \in D(n) PROVE s \in D(n + 1) /\ h[s] = k[s]
      OBVIOUS
    <3>1. s \in D(n + 1)
      OBVIOUS
    <3>2. h[s] = V(h, s)
      <4> HIDE DEF D
      <4> QED BY <2>1 DEF Cuts
    <3> QED BY <3>1, <3>2
  <2>3. \A s \in D(n + 1) : s # {} => s \ {Max(s)} \in D(n)
    <3> SUFFICES ASSUME NEW s \in D(n + 1), s # {}
                 PROVE  s \ {Max(s)} \in D(n)
      OBVIOUS
    <3>1. n + 1 \in Nat /\ s \in SUBSET (1 .. (n + 1))
      OBVIOUS
    <3>2. PICK m : m = Max(s)
      OBVIOUS
    <3>3. m \in s /\ \A i \in s : i <= m
      BY <3>1, <3>2, MaxOfNaturals
    <3>4. s \ {m} \subseteq 1 .. n
      BY <3>1, <3>3
    <3> QED BY <3>2, <3>4
  <2> HIDE DEF D
  <2>4. \A s \in D(n + 1) : V(h, s) = V(k, s)
    BY <2>2, <2>3
  <2>5. k = [s \in D(n + 1) |-> V(k, s)]
    BY <2>4
  <2> HIDE DEF k
  <2>6. Cuts(k, q, D(n + 1))
    BY <2>5 DEF Cuts
  <2> QED BY <2>6
<1>3. Bad = {}
  <2> SUFFICES ASSUME Bad # {} PROVE FALSE
    OBVIOUS
  <2> HIDE DEF Bad
  <2>1. Bad \in SUBSET Nat
    BY DEF Bad
  <2>2. PICK k \in Bad : \A n \in Bad : k <= n
    BY <2>1, LeastNatural
  <2>3. k - 1 \in Nat /\ k - 1 \notin Bad
    BY <1>1, <2>1, <2>2
  <2> QED BY <1>2, <2>1, <2>3
<1> QED BY <1>3

\* RemoveAdmins is the loop, turn by turn from the first index to the last.
LEMMA LoopInTurns ==
    ASSUME NEW S, NEW q \in Seq(S)
    PROVE  \E t : /\ Turns(t, q)
                  /\ RemoveAdmins(q).ok = t[Len(q)].ok
                  /\ RemoveAdmins(q).list = SubSeq(t[Len(q)].array, 1, t[Len(q)].len)
<1> DEFINE N == Len(q)
           H == CHOOSE h : Cuts(h, q, SUBSET (1 .. N))
           t == [k \in 0 .. N |-> H[1 .. k]]
<1>1. N \in Nat /\ DOMAIN q = 1 .. N
  OBVIOUS
<1>2. Cuts(H, q, SUBSET (1 .. N))
  BY <1>1, CutsExist
<1>3. FoldLeftDomain(CutAt, Uncut(q), q) = H[1 .. N]
  <2> DEFINE id == [i \in DOMAIN q |-> i]
             W(h, s) == IF s = {} THEN Uncut(q)
                        ELSE CutAt(h[s \ {Max(s)}], id[Max(s)])
  <2>1. FoldLeftDomain(CutAt, Uncut(q), q)
          = (CHOOSE h : h = [s \in SUBSET (DOMAIN q) |-> W(h, s)])[DOMAIN q]
    BY <1>1 DEF FoldLeftDomain, FoldLeft, MapThenFoldSet
  <2>2. ASSUME NEW h
        PROVE  h = [s \in SUBSET (DOMAIN q) |-> W(h, s)]
                 <=> Cuts(h, q, SUBSET (1 .. N))
    <3>1. \A s \in SUBSET (1 .. N) : s # {} => id[Max(s)] = Max(s)
      <4> SUFFICES ASSUME NEW s \in SUBSET (1 .. N), s # {}
                   PROVE  id[Max(s)] = Max(s)
        OBVIOUS
      <4>1. Max(s) \in s
        BY <1>1, MaxOfNaturals
      <4> QED BY <1>1, <4>1
    <3> QED BY <1>1, <3>1 DEF Cuts
  <2> QED BY <1>1, <2>1, <2>2
<1>4. t[0] = Uncut(q)
  <2> HIDE DEF H
  <2>1. t[0] = H[{}]
    <3>1. 1 .. 0 = {}
      OBVIOUS
    <3> QED BY <1>1, <3>1
  <2> QED BY <1>2, <2>1 DEF Cuts
<1>5. ASSUME NEW k \in 1 .. N PROVE t[k] = CutAt(t[k - 1], k)
  <2> HIDE DEF H
  <2> DEFINE s == 1 .. k
  <2>1. s \in SUBSET (1 .. N) /\ s # {} /\ k \in s
    BY <1>1
  <2>2. Max(s) = k
    <3>1. Max(s) \in s /\ \A i \in s : i <= Max(s)
      BY <1>1, <2>1, MaxOfNaturals
    <3> QED BY <2>1, <3>1
  <2>3. s \ {k} = 1 .. (k - 1)
    BY <1>1
  <2>4. H[s] = CutAt(H[s \ {Max(s)}], Max(s))
    BY <1>2, <2>1 DEF Cuts
  <2>5. t[k] = H[s] /\ t[k - 1] = H[1 .. (k - 1)]
    BY <1>1
  <2> QED BY <2>2, <2>3, <2>4, <2>5
<1>6. t[N] = FoldLeftDomain(CutAt, Uncut(q), q)
  <2> HIDE DEF H
  <2> QED BY <1>1, <1>3
<1> HIDE DEF t
<1>7. Turns(t, q)
  BY <1>4, <1>5 DEF Turns
<1>8. RemoveAdmins(q).ok = t[N].ok /\ RemoveAdmins(q).list = SubSeq(t[N].array, 1, t[N].len)
  BY <1>6 DEF RemoveAdmins, Uncut
<1> QED BY <1>7, <1>8

\* The fields of what the loop works on.
State(q) == [array : [1 .. Len(q) -> ToSet(q)], len : 0 .. Len(q), ok : BOOLEAN]

\* Until the loop panics, the slice holds nobody twice and every participant.
Keeps(st, q) ==
    /\ \A i, j \in 1 .. st.len : st.array[i] = st.array[j] => i = j
    /\ \A c \in ToSet(q) : ~IsAdmin(c) => \E i \in 1 .. st.len : st.array[i] = c

\* q[j] is the one admin in q.
OneAdminAt(q, j) == \A i \in 1 .. Len(q) : IsAdmin(q[i]) <=> i = j

\* Then the loop passes over the others, removes that one, and meets no other
\* in what is left of the array.
Cut(st, q, j, k) ==
    /\ k < j => st = Uncut(q)
    /\ k >= j => \A i \in 1 .. Len(q) :
                     i <= st.len \/ i > k => ~IsAdmin(st.array[i])

\* A turn of the loop changes nothing, panics, or removes the element at i.
LEMMA CutAtEffect ==
    ASSUME NEW S, NEW q \in Seq(S), NEW st \in State(q), NEW i \in 1 .. Len(q)
    PROVE  /\ CutAt(st, i) \in State(q)
           /\ \/ (~st.ok \/ ~IsAdmin(st.array[i])) /\ CutAt(st, i) = st
              \/ st.ok /\ IsAdmin(st.array[i]) /\ i > st.len /\ ~CutAt(st, i).ok
              \/ /\ st.ok /\ IsAdmin(st.array[i])
                 /\ i <= st.len
                 /\ CutAt(st, i).len = st.len - 1
                 /\ CutAt(st, i).ok
                 /\ \A j \in 1 .. Len(q) :
                       CutAt(st, i).array[j] =
                           IF j >= i /\ j < st.len THEN st.array[j + 1]
                                                   ELSE st.array[j]
<1> DEFINE N == Len(q)
           R == ToSet(q)
           shifted == [j \in DOMAIN st.array |->
                         IF j >= i /\ j < st.len THEN st.array[j + 1]
                                                 ELSE st.array[j]]
<1>1. N \in Nat /\ i \in 1 .. N
  OBVIOUS
<1> HIDE DEF N, R
<1>2. /\ st \in [array : [1 .. N -> R], len : 0 .. N, ok : BOOLEAN]
      /\ st.array \in [1 .. N -> R] /\ DOMAIN st.array = 1 .. N
      /\ st.len \in 0 .. N
  BY DEF State, N, R
<1>3. CASE ~st.ok \/ ~IsAdmin(st.array[i])
  BY <1>3 DEF CutAt
<1>4. CASE st.ok /\ IsAdmin(st.array[i]) /\ i > st.len
  <2>1. CutAt(st, i) = [st EXCEPT !.ok = FALSE]
    BY <1>4, Zenon DEF CutAt
  <2>2. [st EXCEPT !.ok = FALSE] \in [array : [1 .. N -> R], len : 0 .. N, ok : BOOLEAN]
    BY <1>2
  <2>3. [st EXCEPT !.ok = FALSE].ok = FALSE
    BY <1>2
  <2> QED BY <1>4, <2>1, <2>2, <2>3 DEF State, N, R
<1>5. CASE st.ok /\ IsAdmin(st.array[i]) /\ ~(i > st.len)
  <2>1. CutAt(st, i) = [st EXCEPT !.len = @ - 1, !.array = shifted]
    BY <1>5, Zenon DEF CutAt
  <2>2. shifted \in [1 .. N -> R]
    BY <1>1, <1>2
  <2>3. \A j \in 1 .. N : shifted[j] = IF j >= i /\ j < st.len THEN st.array[j + 1]
                                                               ELSE st.array[j]
    BY <1>2
  <2> HIDE DEF shifted
  <2>4. PICK w : w = [st EXCEPT !.len = @ - 1, !.array = shifted]
    OBVIOUS
  <2>5. /\ w \in [array : [1 .. N -> R], len : 0 .. N, ok : BOOLEAN]
        /\ w.array = shifted /\ w.len = st.len - 1 /\ w.ok = st.ok
    <3>1. PICK l : l = st.len - 1
      OBVIOUS
    <3>2. PICK v : v = [st EXCEPT !.len = l]
      OBVIOUS
    <3>3. l \in 0 .. N
      BY <1>1, <1>2, <1>5, <3>1
    <3>4. /\ v \in [array : [1 .. N -> R], len : 0 .. N, ok : BOOLEAN]
          /\ v.len = l /\ v.ok = st.ok
      BY <1>2, <3>2, <3>3
    <3>5. w = [v EXCEPT !.array = shifted]
      BY <1>2, <2>4, <3>1, <3>2
    <3> QED BY <2>2, <3>1, <3>4, <3>5
  <2> QED BY <1>1, <1>2, <1>5, <2>1, <2>3, <2>4, <2>5 DEF State, N, R
<1> QED BY <1>3, <1>4, <1>5

\* A turn of the loop loses no participant and doubles nobody.
LEMMA KeepsStep ==
    ASSUME NEW S, NEW q \in Seq(S), NEW st \in State(q), NEW i \in 1 .. Len(q),
           st.ok => Keeps(st, q)
    PROVE  CutAt(st, i).ok => Keeps(CutAt(st, i), q)
<1> SUFFICES ASSUME CutAt(st, i).ok PROVE Keeps(CutAt(st, i), q)
  OBVIOUS
<1>1. PICK w : w = CutAt(st, i)
  OBVIOUS
<1>2. CASE CutAt(st, i) = st
  BY <1>2
<1>3. CASE CutAt(st, i) # st
  <2> DEFINE N == Len(q)
             a == st.array
             l == st.len
  <2>1. /\ N \in Nat /\ i \in 1 .. N /\ l \in 0 .. N
        /\ st.ok /\ IsAdmin(a[i]) /\ i <= l
        /\ w.len = l - 1
        /\ \A j \in 1 .. N : w.array[j] = IF j >= i /\ j < l THEN a[j + 1] ELSE a[j]
    BY <1>1, <1>3, CutAtEffect DEF State
  <2>2. /\ \A j, k \in 1 .. l : a[j] = a[k] => j = k
        /\ \A c \in ToSet(q) : ~IsAdmin(c) => \E j \in 1 .. l : a[j] = c
    BY <2>1 DEF Keeps
  <2> HIDE DEF N, a, l
  <2>3. ASSUME NEW j \in 1 .. w.len, NEW k \in 1 .. w.len, w.array[j] = w.array[k]
        PROVE  j = k
    BY <2>1, <2>2, <2>3
  <2>4. ASSUME NEW c \in ToSet(q), ~IsAdmin(c)
        PROVE  \E k \in 1 .. w.len : w.array[k] = c
    <3>1. PICK j \in 1 .. l : a[j] = c
      BY <2>2, <2>4
    <3>2. j # i
      BY <2>1, <2>4, <3>1
    <3>3. CASE j < i
      <4>1. j \in 1 .. w.len /\ w.array[j] = c
        BY <2>1, <3>1, <3>3
      <4> QED BY <4>1
    <3>4. CASE j > i
      <4>1. j - 1 \in 1 .. w.len /\ w.array[j - 1] = c
        BY <2>1, <3>1, <3>4
      <4> QED BY <4>1
    <3> QED BY <2>1, <3>2, <3>3, <3>4
  <2> QED BY <1>1, <2>3, <2>4 DEF Keeps
<1> QED BY <1>2, <1>3

\* A turn of the loop with one admin: it is passed over, removed, or gone.
LEMMA CutStep ==
    ASSUME NEW S, NEW q \in Seq(S), NEW st \in State(q), NEW k \in 1 .. Len(q),
           NEW j \in 1 .. Len(q), OneAdminAt(q, j), Cut(st, q, j, k - 1)
    PROVE  CutAt(st, k).ok => Cut(CutAt(st, k), q, j, k)
<1> SUFFICES ASSUME CutAt(st, k).ok PROVE Cut(CutAt(st, k), q, j, k)
  OBVIOUS
<1> DEFINE N == Len(q)
<1>1. PICK w : w = CutAt(st, k)
  OBVIOUS
<1>2. N \in Nat /\ j \in 1 .. N /\ k \in 1 .. N /\ st.len \in 0 .. N
  BY DEF State
<1>3. CASE k < j
  <2>1. st = Uncut(q) /\ ~IsAdmin(q[k])
    BY <1>2, <1>3 DEF Cut, OneAdminAt
  <2>2. st.array = q
    BY <2>1 DEF Uncut
  <2>3. CutAt(st, k) = st
    BY <2>1, <2>2 DEF CutAt
  <2> QED BY <1>2, <1>3, <2>1, <2>3 DEF Cut
<1>4. CASE k = j
  <2>1. st = Uncut(q) /\ \A i \in 1 .. N : IsAdmin(q[i]) <=> i = j
    BY <1>2, <1>4 DEF Cut, OneAdminAt
  <2>2. st.array = q /\ st.len = N /\ st.ok
    BY <2>1 DEF Uncut
  <2>3. /\ w.len = N - 1
        /\ \A i \in 1 .. N : w.array[i] = IF i >= j /\ i < N THEN q[i + 1] ELSE q[i]
    BY <1>1, <1>2, <1>4, <2>1, <2>2, CutAtEffect, SMTT(30)
  <2> HIDE DEF N
  <2>4. \A i \in 1 .. N : i <= w.len \/ i > j => ~IsAdmin(w.array[i])
    <3> SUFFICES ASSUME NEW i \in 1 .. N, i <= w.len \/ i > j
                 PROVE  ~IsAdmin(w.array[i])
      OBVIOUS
    <3>1. CASE i >= j /\ i < N
      <4>1. w.array[i] = q[i + 1] /\ i + 1 \in 1 .. N /\ i + 1 # j
        BY <1>2, <2>3, <3>1
      <4> QED BY <2>1, <4>1
    <3>2. CASE ~(i >= j /\ i < N)
      <4>1. w.array[i] = q[i] /\ i # j
        BY <1>2, <2>3, <3>2
      <4> QED BY <2>1, <4>1
    <3> QED BY <3>1, <3>2
  <2> QED BY <1>1, <1>2, <1>4, <2>4 DEF Cut, N
<1>5. CASE k > j
  <2>1. \A i \in 1 .. N : i <= st.len \/ i > k - 1 => ~IsAdmin(st.array[i])
    BY <1>2, <1>5 DEF Cut
  <2>2. ~IsAdmin(st.array[k])
    BY <1>2, <2>1
  <2>3. CutAt(st, k) = st
    BY <2>2 DEF CutAt
  <2> QED BY <1>2, <1>5, <2>1, <2>3 DEF Cut
<1> QED BY <1>2, <1>3, <1>4, <1>5

\* What holds after k turns.
Turn(st, q, k) ==
    /\ st \in State(q)
    /\ st.ok => /\ Keeps(st, q)
                /\ \A j \in 1 .. Len(q) : OneAdminAt(q, j) => Cut(st, q, j, k)

\* Every turn, by induction on their number.
LEMMA EveryTurn ==
    ASSUME NEW S, NEW q \in Seq(S), IsInjective(q), NEW t, Turns(t, q)
    PROVE  \A k \in 0 .. Len(q) : Turn(t[k], q, k)
<1> DEFINE N == Len(q)
           Bad == {k \in 0 .. N : ~Turn(t[k], q, k)}
<1>1. N \in Nat /\ q \in [1 .. N -> ToSet(q)] /\ DOMAIN q = 1 .. N
  BY DEF ToSet
<1>2. 0 \notin Bad
  <2>1. t[0] = Uncut(q)
    BY DEF Turns
  <2>2. Uncut(q) \in State(q)
    BY <1>1 DEF Uncut, State
  <2>3. Keeps(Uncut(q), q)
    BY <1>1 DEF Keeps, Uncut, IsInjective, ToSet
  <2>4. \A j \in 1 .. N : Cut(Uncut(q), q, j, 0)
    BY <1>1 DEF Cut
  <2>5. Turn(Uncut(q), q, 0)
    BY <2>2, <2>3, <2>4 DEF Turn
  <2> QED BY <2>1, <2>5
<1>3. ASSUME NEW k \in 1 .. N, k - 1 \notin Bad PROVE k \notin Bad
  <2>1. PICK st : st = t[k - 1]
    OBVIOUS
  <2>2. k - 1 \in 0 .. N
    BY <1>1
  <2>3. t[k] = CutAt(st, k)
    BY <2>1 DEF Turns
  <2>4. Turn(st, q, k - 1)
    BY <1>3, <2>1, <2>2
  <2>5. st \in State(q)
    BY <2>4 DEF Turn
  <2>6. CutAt(st, k) \in State(q) /\ (CutAt(st, k).ok => st.ok)
    BY <2>5, CutAtEffect
  <2>7. CutAt(st, k).ok => Keeps(CutAt(st, k), q)
    <3>1. st.ok => Keeps(st, q)
      BY <2>4 DEF Turn
    <3> QED BY <2>5, <3>1, KeepsStep
  <2>8. ASSUME CutAt(st, k).ok, NEW j \in 1 .. N, OneAdminAt(q, j)
        PROVE  Cut(CutAt(st, k), q, j, k)
    <3>1. Cut(st, q, j, k - 1)
      BY <2>4, <2>6, <2>8 DEF Turn
    <3> QED BY <2>5, <2>8, <3>1, CutStep
  <2>9. Turn(CutAt(st, k), q, k)
    BY <2>6, <2>7, <2>8 DEF Turn
  <2> QED BY <2>3, <2>9
<1>4. Bad = {}
  <2> SUFFICES ASSUME Bad # {} PROVE FALSE
    OBVIOUS
  <2>1. Bad \in SUBSET Nat /\ Bad \subseteq 0 .. N
    BY <1>1
  <2> HIDE DEF Bad
  <2>2. PICK k \in Bad : \A n \in Bad : k <= n
    BY <2>1, LeastNatural
  <2>3. k \in 1 .. N /\ k - 1 \notin Bad
    BY <1>1, <1>2, <2>1, <2>2
  <2> QED BY <1>3, <2>3
<1> QED BY <1>4

\* What is left of q holds nobody twice, nobody new, every participant, and
\* no admin if q had one.
Participants(list, q) ==
    /\ list \in Seq(ToSet(q))
    /\ IsInjective(list)
    /\ \A c \in ToSet(q) : ~IsAdmin(c) => c \in ToSet(list)
    /\ \A j \in 1 .. Len(q) : OneAdminAt(q, j) => \A c \in ToSet(list) : ~IsAdmin(c)

\* If the loop does not panic, it leaves the participants.
LEMMA RemoveAdminsEffect ==
    ASSUME NEW S, NEW q \in Seq(S), IsInjective(q), RemoveAdmins(q).ok
    PROVE  Participants(RemoveAdmins(q).list, q)
<1> DEFINE N == Len(q)
<1>1. PICK t : /\ Turns(t, q)
               /\ RemoveAdmins(q).ok = t[N].ok
               /\ RemoveAdmins(q).list = SubSeq(t[N].array, 1, t[N].len)
  BY LoopInTurns
<1>2. PICK st : st = t[N]
  OBVIOUS
<1>3. PICK list : list = SubSeq(st.array, 1, st.len)
  OBVIOUS
<1>4. N \in Nat
  OBVIOUS
<1>5. Turn(st, q, N)
  BY <1>1, <1>2, <1>4, EveryTurn
<1>6. st.array \in [1 .. N -> ToSet(q)] /\ st.len \in 0 .. N
  BY <1>5 DEF Turn, State
<1>7. /\ Keeps(st, q)
      /\ \A j \in 1 .. N : OneAdminAt(q, j) => Cut(st, q, j, N)
  BY <1>1, <1>2, <1>5 DEF Turn
<1>8. /\ list \in Seq(ToSet(q)) /\ Len(list) = st.len /\ DOMAIN list = 1 .. st.len
      /\ \A i \in 1 .. st.len : list[i] = st.array[i]
  <2> HIDE DEF N
  <2>1. st.array \in Seq(ToSet(q)) /\ Len(st.array) = N
    BY <1>4, <1>6
  <2> QED BY <1>3, <1>4, <1>6, <2>1
<1>9. IsInjective(list)
  BY <1>7, <1>8 DEF Keeps, IsInjective
<1>10. ASSUME NEW c \in ToSet(q), ~IsAdmin(c) PROVE c \in ToSet(list)
  <2>1. PICK i \in 1 .. st.len : st.array[i] = c
    BY <1>7, <1>10 DEF Keeps
  <2>2. c = list[i] /\ i \in DOMAIN list
    BY <1>8, <2>1
  <2> QED BY <2>2 DEF ToSet
<1>11. ASSUME NEW j \in 1 .. N, OneAdminAt(q, j), NEW c \in ToSet(list)
       PROVE  ~IsAdmin(c)
  <2>1. PICK i \in 1 .. st.len : c = st.array[i]
    BY <1>8 DEF ToSet
  <2>2. Cut(st, q, j, N)
    BY <1>7, <1>11
  <2> QED BY <1>4, <1>6, <2>1, <2>2 DEF Cut
<1>12. Participants(list, q)
  BY <1>8, <1>9, <1>10, <1>11 DEF Participants
<1> QED BY <1>1, <1>2, <1>3, <1>12

\* The orders in which a finite set can be enumerated.
LEMMA Enumerations ==
    ASSUME NEW S, IsFiniteSet(S), NEW q \in SetToSeqs(S)
    PROVE  q \in Seq(S) /\ IsInjective(q) /\ ToSet(q) = S
<1>1. PICK n : n = Cardinality(S)
  OBVIOUS
<1>2. n \in Nat
  BY <1>1, FS_CardinalityType
<1>3. q \in [1 .. n -> S] /\ \A i, j \in 1 .. n : i # j => q[i] # q[j]
  BY <1>1 DEF SetToSeqs
<1>4. q \in Seq(S) /\ DOMAIN q = 1 .. n
  BY <1>2, <1>3
<1>5. IsInjective(q)
  BY <1>3, <1>4 DEF IsInjective
<1>6. IsFiniteSet(1 .. n) /\ Cardinality(1 .. n) = n
  BY <1>2, FS_Interval
<1>7. \A c \in S : \E i \in 1 .. n : q[i] = c
  <2>1. q \in Injection(1 .. n, S)
    BY <1>3, <1>5 DEF Injection
  <2>2. q \in Surjection(1 .. n, S)
    BY <1>1, <1>6, <2>1, FS_Injection
  <2> QED BY <2>2 DEF Surjection
<1>8. ToSet(q) = S
  BY <1>3, <1>4, <1>7 DEF ToSet
<1> QED BY <1>4, <1>5, <1>8

-----------------------------------------------------------------------------
(* The inductive invariant.                                                *)

\* The connection of user u of session s in the registry is c.
Entry(s, u, c) == /\ s \in DOMAIN connections
                  /\ u \in DOMAIN connections[s]
                  /\ connections[s][u] = c

\* The registry's map is typed, and a session has finitely many connections.
MapTyped ==
    /\ DOMAIN connections \subseteq Sessions
    /\ \A s \in DOMAIN connections :
          /\ IsMap(connections[s], Users, Conns)
          /\ IsFiniteSet(DOMAIN connections[s])

\* The types of everything else.
RestTyped ==
    /\ pending \in Conns \cup Senders \cup {Nobody}
    /\ IsMap(conns, Conns, Conn)
    /\ IsMap(ops, Senders, Op)
    /\ opCount \in 0 .. MaxOps
    /\ stalls \in 0 .. MaxStalls
    /\ alive \in BOOLEAN
    /\ ended \subseteq Sessions

\* RegisteredIsServed, and a registered connection has been accepted.
Served ==
    \A s \in Sessions, u \in Users, c \in Conns :
        Entry(s, u, c) =>
            /\ c \in DOMAIN conns
            /\ conns[c].user = u
            /\ SessionOf[u] = s
            /\ conns[c].pc \in {"welcoming", "reading", "stuck"}

\* Why a connection that is served may not be registered.
Excused(c) ==
    \/ \E d \in DOMAIN conns \ {c} : conns[d].user = conns[c].user
    \/ SessionOf[conns[c].user] \in ended

\* ReaderIsRegistered holds from RegisterConnection on.
WelcomedIsRegistered ==
    \A c \in DOMAIN conns :
        conns[c].pc \in {"welcoming", "reading"} /\ conns[c].sock = "open" =>
            Entry(SessionOf[conns[c].user], conns[c].user, c) \/ Excused(c)

\* An operation writes to connections that were accepted, and there is one
\* left to write to.
WritesToSomebody ==
    \A g \in DOMAIN ops :
        /\ ops[g].pc \in {"send", "write", "drop"} => ops[g].receivers # <<>>
        /\ ToSet(ops[g].receivers) \subseteq DOMAIN conns

\* A write fails only when the client has left, or the handler closed the
\* connection.
DroppedHasLeft ==
    \A g \in DOMAIN ops :
        ops[g].pc = "drop" =>
            conns[Head(ops[g].receivers)].sock \in {"gone", "closed"}

RegistryInv ==
    /\ MapTyped
    /\ RestTyped
    /\ Served
    /\ WelcomedIsRegistered
    /\ WritesToSomebody
    /\ DroppedHasLeft

-----------------------------------------------------------------------------
(* The registry's methods, entry by entry.                                 *)

\* RegisterSession changes no entry: an existing session is left alone.
LEMMA RegisterSessionEffect ==
    ASSUME MapTyped, NEW s \in Sessions, RegisterSession(s)
    PROVE  MapTyped' /\ \A t, u, c : Entry(t, u, c)' <=> Entry(t, u, c)
<1>1. CASE s \in DOMAIN connections
  <2>1. connections' = connections
    BY <1>1 DEF RegisterSession
  <2> QED BY <2>1 DEF MapTyped, Entry
<1>2. CASE s \notin DOMAIN connections
  <2>1. /\ DOMAIN connections' = (DOMAIN connections) \cup {s}
        /\ connections'[s] = EmptyMap
        /\ \A t \in DOMAIN connections : connections'[t] = connections[t]
    BY <1>2 DEF RegisterSession, Put
  <2>2. DOMAIN EmptyMap = {} /\ IsMap(EmptyMap, Users, Conns)
    BY DEF EmptyMap, IsMap
  <2>3. MapTyped'
    BY <2>1, <2>2, FS_EmptySet DEF MapTyped
  <2>4. \A t, u, c : Entry(t, u, c)' <=> Entry(t, u, c)
    BY <1>2, <2>1, <2>2 DEF Entry
  <2> QED BY <2>3, <2>4
<1> QED BY <1>1, <1>2

\* UnregisterConnection removes the user's entry, whichever connection it is.
LEMMA UnregisterConnectionEffect ==
    ASSUME MapTyped, NEW s, NEW u, UnregisterConnection(s, u)
    PROVE  /\ MapTyped'
           /\ \A t, v, c : Entry(t, v, c)' <=> Entry(t, v, c) /\ ~(t = s /\ v = u)
<1>1. CASE s \notin DOMAIN connections
  <2>1. connections' = connections
    BY <1>1 DEF UnregisterConnection
  <2> QED BY <1>1, <2>1 DEF MapTyped, Entry
<1>2. CASE s \in DOMAIN connections
  <2>1. PICK m : m = connections[s]
    OBVIOUS
  <2>2. /\ DOMAIN connections' = DOMAIN connections
        /\ connections'[s] = Delete(m, u)
        /\ \A t \in DOMAIN connections : t # s => connections'[t] = connections[t]
    BY <1>2, <2>1 DEF UnregisterConnection, Put
  <2>3. /\ DOMAIN Delete(m, u) = DOMAIN m \ {u}
        /\ \A v \in DOMAIN m : v # u => Delete(m, u)[v] = m[v]
    BY DEF Delete
  <2>4. IsMap(m, Users, Conns) /\ IsFiniteSet(DOMAIN m)
    BY <1>2, <2>1 DEF MapTyped
  <2>5. IsMap(Delete(m, u), Users, Conns)
    BY <2>4 DEF IsMap, Delete
  <2>6. IsFiniteSet(DOMAIN Delete(m, u))
    BY <2>3, <2>4, FS_Subset
  <2>7. MapTyped'
    BY <2>2, <2>5, <2>6 DEF MapTyped
  <2>8. \A t, v, c : Entry(t, v, c)' <=> Entry(t, v, c) /\ ~(t = s /\ v = u)
    BY <1>2, <2>1, <2>2, <2>3 DEF Entry
  <2> QED BY <2>7, <2>8
<1> QED BY <1>1, <1>2

\* RegisterConnection makes c the user's entry, whatever it was.
LEMMA PutConnectionEffect ==
    ASSUME MapTyped, NEW s \in DOMAIN connections, NEW u \in Users, NEW c \in Conns,
           connections' = Put(connections, s, Put(connections[s], u, c))
    PROVE  /\ MapTyped'
           /\ \A t, v, d : Entry(t, v, d)' <=> \/ t = s /\ v = u /\ d = c
                                               \/ Entry(t, v, d) /\ ~(t = s /\ v = u)
<1>1. PICK m : m = connections[s]
  OBVIOUS
<1>2. /\ DOMAIN connections' = DOMAIN connections
      /\ connections'[s] = Put(m, u, c)
      /\ \A t \in DOMAIN connections : t # s => connections'[t] = connections[t]
  BY <1>1 DEF Put
<1>3. /\ DOMAIN Put(m, u, c) = DOMAIN m \cup {u}
      /\ Put(m, u, c)[u] = c
      /\ \A v \in DOMAIN m : v # u => Put(m, u, c)[v] = m[v]
  BY DEF Put
<1>4. IsMap(m, Users, Conns) /\ IsFiniteSet(DOMAIN m)
  BY <1>1 DEF MapTyped
<1>5. IsMap(Put(m, u, c), Users, Conns)
  BY <1>4 DEF IsMap, Put
<1>6. IsFiniteSet(DOMAIN Put(m, u, c))
  BY <1>3, <1>4, FS_AddElement
<1>7. MapTyped'
  BY <1>2, <1>5, <1>6 DEF MapTyped
<1>8. \A t, v, d : Entry(t, v, d)' <=> \/ t = s /\ v = u /\ d = c
                                       \/ Entry(t, v, d) /\ ~(t = s /\ v = u)
  BY <1>1, <1>2, <1>3 DEF Entry
<1> QED BY <1>7, <1>8

\* UnregisterSession removes the session's entries.
LEMMA DeleteSessionEffect ==
    ASSUME MapTyped, NEW s, connections' = Delete(connections, s)
    PROVE  /\ MapTyped'
           /\ \A t, v, c : Entry(t, v, c)' <=> Entry(t, v, c) /\ t # s
<1>1. /\ DOMAIN connections' = DOMAIN connections \ {s}
      /\ \A t \in DOMAIN connections : t # s => connections'[t] = connections[t]
  BY DEF Delete
<1> QED BY <1>1 DEF MapTyped, Entry

-----------------------------------------------------------------------------
(* The handlers' steps.                                                    *)

\* The handler or the client of c moves on: a socket that the client has left
\* is not opened again, and nobody else is concerned.
Moves(c, pc, sock) ==
    /\ DOMAIN conns' = DOMAIN conns
    /\ IsMap(conns', Conns, Conn)
    /\ \A d \in DOMAIN conns : d # c => conns'[d] = conns[d]
    /\ conns'[c].user = conns[c].user
    /\ conns'[c].pc = pc
    /\ conns'[c].sock = sock

\* The handler goes on.
LEMMA MovesPc ==
    ASSUME IsMap(conns, Conns, Conn), NEW c \in DOMAIN conns,
           NEW pc \in {"accepted", "registering", "welcoming", "reading",
                       "closed", "stuck"},
           conns' = [conns EXCEPT ![c].pc = pc]
    PROVE  Moves(c, pc, conns[c].sock)
<1>1. conns[c] \in Conn /\ conns \in [DOMAIN conns -> Conn]
  BY DEF IsMap
<1>2. PICK r : r = [conns[c] EXCEPT !.pc = pc]
  OBVIOUS
<1>3. /\ r \in Conn /\ r.pc = pc
      /\ r.user = conns[c].user /\ r.sock = conns[c].sock
  BY <1>1, <1>2 DEF Conn
<1>4. conns' = [conns EXCEPT ![c] = r]
  BY <1>2
<1> QED BY <1>1, <1>3, <1>4 DEF Moves, IsMap

\* The client stalls or leaves.
LEMMA MovesSock ==
    ASSUME IsMap(conns, Conns, Conn), NEW c \in DOMAIN conns,
           NEW sock \in {"open", "stalled", "gone", "closed"},
           conns' = [conns EXCEPT ![c].sock = sock]
    PROVE  Moves(c, conns[c].pc, sock)
<1>1. conns[c] \in Conn /\ conns \in [DOMAIN conns -> Conn]
  BY DEF IsMap
<1>2. PICK r : r = [conns[c] EXCEPT !.sock = sock]
  OBVIOUS
<1>3. /\ r \in Conn /\ r.sock = sock
      /\ r.user = conns[c].user /\ r.pc = conns[c].pc
  BY <1>1, <1>2 DEF Conn
<1>4. conns' = [conns EXCEPT ![c] = r]
  BY <1>2
<1> QED BY <1>1, <1>3, <1>4 DEF Moves, IsMap

\* The handler closes its connection.
LEMMA MovesClosed ==
    ASSUME IsMap(conns, Conns, Conn), NEW c \in DOMAIN conns,
           conns' = [conns EXCEPT ![c].pc = "closed", ![c].sock = "closed"]
    PROVE  Moves(c, "closed", "closed")
<1>1. conns[c] \in Conn /\ conns \in [DOMAIN conns -> Conn]
  BY DEF IsMap
<1>2. PICK r : r = [[conns[c] EXCEPT !.pc = "closed"] EXCEPT !.sock = "closed"]
  OBVIOUS
<1>3. /\ r \in Conn /\ r.pc = "closed" /\ r.sock = "closed"
      /\ r.user = conns[c].user
  <2>1. PICK v : v = [conns[c] EXCEPT !.pc = "closed"]
    OBVIOUS
  <2>2. v \in Conn /\ v.pc = "closed" /\ v.user = conns[c].user
    BY <1>1, <2>1 DEF Conn
  <2>3. r = [v EXCEPT !.sock = "closed"]
    BY <1>2, <2>1
  <2> QED BY <2>2, <2>3 DEF Conn
<1>4. conns' = [conns EXCEPT ![c] = r]
  BY <1>2, Zenon
<1> QED BY <1>1, <1>3, <1>4 DEF Moves, IsMap

\* Senders wait for a socket they write to, or find it left, as before.
LEMMA SendersUnmoved ==
    ASSUME RegistryInv, ops' = ops, DOMAIN conns \subseteq DOMAIN conns',
           \A d \in DOMAIN conns : conns[d].sock \in {"gone", "closed"} =>
                                       conns'[d].sock \in {"gone", "closed"}
    PROVE  WritesToSomebody' /\ DroppedHasLeft'
<1>1. WritesToSomebody'
  BY DEF RegistryInv, WritesToSomebody
<1>2. ASSUME NEW g \in DOMAIN ops, ops[g].pc = "drop"
      PROVE  conns'[Head(ops[g].receivers)].sock \in {"gone", "closed"}
  <2>1. ops[g].receivers \in Seq(Conns) /\ ops[g].receivers # <<>>
    BY <1>2 DEF RegistryInv, RestTyped, IsMap, Op, WritesToSomebody
  <2>2. Head(ops[g].receivers) \in ToSet(ops[g].receivers)
    BY <2>1 DEF ToSet
  <2>3. Head(ops[g].receivers) \in DOMAIN conns
    BY <2>2 DEF RegistryInv, WritesToSomebody
  <2> QED BY <1>2, <2>3 DEF RegistryInv, DroppedHasLeft
<1>3. DroppedHasLeft'
  BY <1>2 DEF DroppedHasLeft
<1> QED BY <1>1, <1>3

\* A step that leaves the registry's map alone: those it concerns keep what
\* they are registered for, and nobody else is let through to a welcome.
LEMMA MapUnmoved ==
    ASSUME RegistryInv, NEW c \in DOMAIN conns, NEW pc, NEW sock, Moves(c, pc, sock),
           \A s, u, d : Entry(s, u, d)' <=> Entry(s, u, d), ended' = ended,
           conns[c].pc \in {"welcoming", "reading", "stuck"} =>
               pc \in {"welcoming", "reading", "stuck"},
           pc \in {"welcoming", "reading"} /\ sock = "open" =>
               conns[c].pc \in {"welcoming", "reading"} /\ conns[c].sock = "open"
    PROVE  Served' /\ WelcomedIsRegistered'
<1>1. Served'
  BY DEF RegistryInv, Served, Moves
<1>2. ASSUME NEW d \in DOMAIN conns', NEW u, u = conns'[d].user,
             conns'[d].pc \in {"welcoming", "reading"}, conns'[d].sock = "open"
      PROVE  Entry(SessionOf[u], u, d)' \/ Excused(d)'
  <2>1. /\ d \in DOMAIN conns /\ u = conns[d].user
        /\ conns[d].pc \in {"welcoming", "reading"} /\ conns[d].sock = "open"
    BY <1>2 DEF Moves
  <2>2. Entry(SessionOf[u], u, d) \/ Excused(d)
    BY <2>1 DEF RegistryInv, WelcomedIsRegistered
  <2>3. CASE Entry(SessionOf[u], u, d)
    BY <2>3
  <2>4. CASE Excused(d)
    BY <1>2, <2>1, <2>4 DEF Excused, Moves
  <2> QED BY <2>2, <2>3, <2>4
<1>3. WelcomedIsRegistered'
  BY <1>2 DEF WelcomedIsRegistered
<1> QED BY <1>1, <1>3

\* Users do not change and sessions that have ended stay so.
LEMMA ExcusedStays ==
    ASSUME DOMAIN conns \subseteq DOMAIN conns', ended \subseteq ended',
           \A d \in DOMAIN conns : conns'[d].user = conns[d].user,
           NEW c \in DOMAIN conns, Excused(c)
    PROVE  Excused(c)'
BY DEF Excused

\* The types after a handler's step.
LEMMA MovesRest ==
    ASSUME RegistryInv, NEW c, NEW pc, NEW sock, Moves(c, pc, sock),
           pending' \in {pending, Nobody}, HandlerFrame
    PROVE  RestTyped'
BY DEF RegistryInv, RestTyped, Moves, HandlerFrame

\* The senders after a handler's step.
LEMMA MovesOps ==
    ASSUME RegistryInv, NEW c \in DOMAIN conns, NEW pc, NEW sock, Moves(c, pc, sock),
           conns[c].sock \in {"gone", "closed"} => sock \in {"gone", "closed"},
           ops' = ops
    PROVE  WritesToSomebody' /\ DroppedHasLeft'
<1>1. /\ DOMAIN conns \subseteq DOMAIN conns'
      /\ \A d \in DOMAIN conns : conns[d].sock \in {"gone", "closed"} =>
                                     conns'[d].sock \in {"gone", "closed"}
  BY DEF Moves
<1> QED BY <1>1, SendersUnmoved

\* A new connection is not registered yet.
LEMMA AcceptInv ==
    ASSUME RegistryInv, NEW c \in Conns, NEW u \in Users, Accept(c, u)
    PROVE  RegistryInv'
<1> DEFINE r == [user |-> u, pc |-> "accepted", sock |-> "open"]
<1>1. /\ DOMAIN conns' = DOMAIN conns \cup {c} /\ c \notin DOMAIN conns
      /\ conns'[c] = r
      /\ \A d \in DOMAIN conns : conns'[d] = conns[d]
      /\ UNCHANGED <<connections, pending, ops, opCount, stalls, alive, ended>>
  BY DEF Accept, Put, HandlerFrame
<1>2. r \in Conn /\ r.pc = "accepted"
  BY DEF Conn
<1> HIDE DEF r
<1>3. IsMap(conns', Conns, Conn)
  BY <1>2 DEF RegistryInv, RestTyped, IsMap, Accept, Put, r
<1>4. MapTyped' /\ RestTyped'
  BY <1>1, <1>3 DEF RegistryInv, MapTyped, RestTyped
<1>5. Served'
  BY <1>1 DEF RegistryInv, Served, Entry
<1>6. WelcomedIsRegistered'
  <2>1. ASSUME NEW d \in DOMAIN conns', NEW v, v = conns'[d].user,
               conns'[d].pc \in {"welcoming", "reading"}, conns'[d].sock = "open"
        PROVE  Entry(SessionOf[v], v, d)' \/ Excused(d)'
    <3>1. d \in DOMAIN conns /\ conns'[d] = conns[d]
      BY <1>1, <1>2, <2>1
    <3>2. Entry(SessionOf[v], v, d) \/ Excused(d)
      BY <2>1, <3>1 DEF RegistryInv, WelcomedIsRegistered
    <3>3. Entry(SessionOf[v], v, d) => Entry(SessionOf[v], v, d)'
      BY <1>1 DEF Entry
    <3>4. Excused(d) => Excused(d)'
      BY <1>1, <3>1, ExcusedStays
    <3> QED BY <3>2, <3>3, <3>4
  <2> QED BY <2>1 DEF WelcomedIsRegistered
<1>7. WritesToSomebody' /\ DroppedHasLeft'
  BY <1>1, SendersUnmoved
<1> QED BY <1>4, <1>5, <1>6, <1>7 DEF RegistryInv

\* The session is there, with the entries it had.
LEMMA EnsureSessionInv ==
    ASSUME RegistryInv, NEW c \in DOMAIN conns, EnsureSession(c)
    PROVE  RegistryInv'
<1>1. Moves(c, "registering", conns[c].sock) /\ conns[c].pc = "accepted"
  BY MovesPc DEF RegistryInv, RestTyped, EnsureSession
<1>2. SessionOf[conns[c].user] \in Sessions
  BY TokensAssumption DEF RegistryInv, RestTyped, IsMap, Conn
<1>3. MapTyped' /\ \A s, u, d : Entry(s, u, d)' <=> Entry(s, u, d)
  BY <1>2, RegisterSessionEffect DEF RegistryInv, EnsureSession
<1>4. RestTyped'
  BY <1>1, MovesRest DEF EnsureSession, Locked
<1>5. Served' /\ WelcomedIsRegistered'
  BY <1>1, <1>3, MapUnmoved DEF EnsureSession, HandlerFrame
<1>6. WritesToSomebody' /\ DroppedHasLeft'
  BY <1>1, MovesOps DEF EnsureSession, HandlerFrame
<1> QED BY <1>3, <1>4, <1>5, <1>6 DEF RegistryInv

\* The entry becomes this connection; one that it replaces is excused, because
\* the user now has two.  Without the session the connection is closed.
LEMMA RegisterConnectionInv ==
    ASSUME RegistryInv, NEW c \in DOMAIN conns, RegisterConnection(c)
    PROVE  RegistryInv'
<1>1. PICK u : u = conns[c].user
  OBVIOUS
<1>2. PICK s : s = SessionOf[u]
  OBVIOUS
<1>3. c \in Conns /\ u \in Users /\ s \in Sessions /\ conns[c].pc = "registering"
  BY <1>1, <1>2, TokensAssumption
     DEF RegistryInv, RestTyped, IsMap, Conn, RegisterConnection
<1>4. CASE s \in DOMAIN connections
  <2>1. Moves(c, "welcoming", conns[c].sock)
    BY <1>1, <1>2, <1>4, MovesPc DEF RegistryInv, RestTyped, RegisterConnection
  <2>2. connections' = Put(connections, s, Put(connections[s], u, c))
    BY <1>1, <1>2, <1>4 DEF RegisterConnection
  <2>3. /\ MapTyped'
        /\ \A t, v, d : Entry(t, v, d)' <=> \/ t = s /\ v = u /\ d = c
                                            \/ Entry(t, v, d) /\ ~(t = s /\ v = u)
    BY <1>3, <1>4, <2>2, PutConnectionEffect DEF RegistryInv
  <2>4. Served'
    BY <1>1, <1>2, <2>1, <2>3 DEF RegistryInv, Served, Moves
  <2>5. ASSUME NEW d \in DOMAIN conns', NEW v, v = conns'[d].user,
               conns'[d].pc \in {"welcoming", "reading"}, conns'[d].sock = "open"
        PROVE  Entry(SessionOf[v], v, d)' \/ Excused(d)'
    <3>1. CASE d = c
      BY <1>1, <1>2, <2>1, <2>3, <2>5, <3>1 DEF Moves
    <3>2. CASE d # c /\ v = u
      BY <1>1, <2>1, <2>5, <3>2 DEF Excused, Moves
    <3>3. CASE d # c /\ v # u
      <4>1. d \in DOMAIN conns /\ conns'[d] = conns[d]
        BY <2>1, <3>3 DEF Moves
      <4>2. Entry(SessionOf[v], v, d) \/ Excused(d)
        BY <2>5, <4>1 DEF RegistryInv, WelcomedIsRegistered
      <4>3. Excused(d) => Excused(d)'
        BY <2>1, <4>1, ExcusedStays DEF Moves, RegisterConnection, HandlerFrame
      <4> QED BY <2>3, <3>3, <4>2, <4>3
    <3> QED BY <3>1, <3>2, <3>3
  <2>6. WelcomedIsRegistered'
    BY <2>5 DEF WelcomedIsRegistered
  <2>7. RestTyped'
    BY <2>1, MovesRest DEF RegisterConnection, Locked
  <2>8. WritesToSomebody' /\ DroppedHasLeft'
    BY <2>1, MovesOps DEF RegisterConnection, HandlerFrame
  <2> QED BY <2>3, <2>4, <2>6, <2>7, <2>8 DEF RegistryInv
<1>5. CASE s \notin DOMAIN connections
  <2>1. Moves(c, "closed", "closed")
    BY <1>1, <1>2, <1>5, MovesClosed DEF RegistryInv, RestTyped, RegisterConnection
  <2>2. connections' = connections
    BY <1>1, <1>2, <1>5 DEF RegisterConnection
  <2>3. MapTyped' /\ \A t, v, d : Entry(t, v, d)' <=> Entry(t, v, d)
    BY <2>2 DEF RegistryInv, MapTyped, Entry
  <2>4. Served' /\ WelcomedIsRegistered'
    BY <1>3, <2>1, <2>3, MapUnmoved DEF RegisterConnection, HandlerFrame
  <2>5. RestTyped'
    BY <2>1, MovesRest DEF RegisterConnection, Locked
  <2>6. WritesToSomebody' /\ DroppedHasLeft'
    BY <2>1, MovesOps DEF RegisterConnection, HandlerFrame
  <2> QED BY <2>3, <2>4, <2>5, <2>6 DEF RegistryInv
<1> QED BY <1>4, <1>5

\* The welcome ends, or the library panics: registered as before.
LEMMA EndWelcomeInv ==
    ASSUME RegistryInv, NEW c \in DOMAIN conns, EndWelcome(c) \/ WelcomePanics(c)
    PROVE  RegistryInv'
<1>1. PICK pc \in {"reading", "stuck"} :
          /\ conns' = [conns EXCEPT ![c].pc = pc]
          /\ conns[c].pc = "welcoming"
          /\ UNCHANGED <<connections, pending>> /\ HandlerFrame
  BY DEF EndWelcome, WelcomePanics
<1>2. Moves(c, pc, conns[c].sock)
  BY <1>1, MovesPc DEF RegistryInv, RestTyped
<1>3. MapTyped' /\ \A s, u, d : Entry(s, u, d)' <=> Entry(s, u, d)
  BY <1>1 DEF RegistryInv, MapTyped, Entry
<1>4. RestTyped'
  BY <1>1, <1>2, MovesRest
<1>5. Served' /\ WelcomedIsRegistered'
  BY <1>1, <1>2, <1>3, MapUnmoved DEF HandlerFrame
<1>6. WritesToSomebody' /\ DroppedHasLeft'
  BY <1>1, <1>2, MovesOps DEF HandlerFrame
<1> QED BY <1>3, <1>4, <1>5, <1>6 DEF RegistryInv

\* Whatever connection of the user is removed, it is another one, or this one,
\* which is not read from any longer.
LEMMA LeaveInv ==
    ASSUME RegistryInv, NEW c \in DOMAIN conns, Leave(c)
    PROVE  RegistryInv'
<1>1. PICK u : u = conns[c].user
  OBVIOUS
<1>2. PICK s : s = SessionOf[u]
  OBVIOUS
<1>3. Moves(c, "closed", "closed") /\ ended' = ended /\ ops' = ops
  BY MovesClosed DEF RegistryInv, RestTyped, Leave, HandlerFrame
<1>4. /\ MapTyped'
      /\ \A t, v, d : Entry(t, v, d)' <=> Entry(t, v, d) /\ ~(t = s /\ v = u)
  BY <1>1, <1>2, UnregisterConnectionEffect DEF RegistryInv, Leave
<1>5. Served'
  <2>1. ASSUME NEW t \in Sessions, NEW v \in Users, NEW d \in Conns, Entry(t, v, d)'
        PROVE  /\ d \in DOMAIN conns' /\ conns'[d].user = v /\ SessionOf[v] = t
               /\ conns'[d].pc \in {"welcoming", "reading", "stuck"}
    <3>1. Entry(t, v, d) /\ ~(t = s /\ v = u)
      BY <1>4, <2>1
    <3>2. /\ d \in DOMAIN conns /\ conns[d].user = v /\ SessionOf[v] = t
          /\ conns[d].pc \in {"welcoming", "reading", "stuck"}
      BY <3>1 DEF RegistryInv, Served
    <3>3. d # c
      BY <1>1, <1>2, <3>1, <3>2
    <3> QED BY <1>3, <3>2, <3>3 DEF Moves
  <2> QED BY <2>1 DEF Served
<1>6. WelcomedIsRegistered'
  <2>1. ASSUME NEW d \in DOMAIN conns', NEW v, v = conns'[d].user,
               conns'[d].pc \in {"welcoming", "reading"}, conns'[d].sock = "open"
        PROVE  Entry(SessionOf[v], v, d)' \/ Excused(d)'
    <3>1. d # c /\ d \in DOMAIN conns /\ conns'[d] = conns[d]
      BY <1>3, <2>1 DEF Moves
    <3>2. CASE v = u
      BY <1>1, <1>3, <2>1, <3>1, <3>2 DEF Excused, Moves
    <3>3. CASE v # u
      <4>1. Entry(SessionOf[v], v, d) \/ Excused(d)
        BY <2>1, <3>1 DEF RegistryInv, WelcomedIsRegistered
      <4>2. Excused(d) => Excused(d)'
        BY <1>3, <3>1, ExcusedStays DEF Moves
      <4> QED BY <1>4, <3>3, <4>1, <4>2
    <3> QED BY <3>2, <3>3
  <2> QED BY <2>1 DEF WelcomedIsRegistered
<1>7. RestTyped'
  BY <1>3, MovesRest DEF Leave, Locked
<1>8. WritesToSomebody' /\ DroppedHasLeft'
  BY <1>3, MovesOps
<1> QED BY <1>4, <1>5, <1>6, <1>7, <1>8 DEF RegistryInv

\* The client stalls or leaves: registered as before, and promised less.
LEMMA ClientInv ==
    ASSUME RegistryInv, NEW c \in DOMAIN conns, ClientStalls(c) \/ ClientLeaves(c)
    PROVE  RegistryInv'
<1>1. PICK sock \in {"stalled", "gone"} :
          /\ conns' = [conns EXCEPT ![c].sock = sock]
          /\ conns[c].sock \in {"open", "stalled"}
          /\ UNCHANGED <<connections, pending, ops, opCount, alive, ended>>
  BY DEF ClientStalls, ClientLeaves, HandlerFrame
<1>2. Moves(c, conns[c].pc, sock)
  BY <1>1, MovesSock DEF RegistryInv, RestTyped
<1>3. MapTyped' /\ \A s, u, d : Entry(s, u, d)' <=> Entry(s, u, d)
  BY <1>1 DEF RegistryInv, MapTyped, Entry
<1>4. RestTyped'
  <2>1. stalls' \in 0 .. MaxStalls
    BY BoundsAssumption
       DEF RegistryInv, RestTyped, ClientStalls, ClientLeaves, HandlerFrame
  <2> QED BY <1>1, <1>2, <2>1 DEF RegistryInv, RestTyped, Moves
<1>5. Served' /\ WelcomedIsRegistered'
  BY <1>1, <1>2, <1>3, MapUnmoved
<1>6. WritesToSomebody' /\ DroppedHasLeft'
  BY <1>1, <1>2, MovesOps
<1> QED BY <1>3, <1>4, <1>5, <1>6 DEF RegistryInv

-----------------------------------------------------------------------------
(* The senders' steps.                                                     *)

\* What an operation may look like.
Sound(op) ==
    /\ op \in Op
    /\ op.pc \in {"send", "write", "drop"} => op.receivers # <<>>
    /\ ToSet(op.receivers) \subseteq DOMAIN conns
    /\ op.pc = "drop" => conns[Head(op.receivers)].sock \in {"gone", "closed"}

\* One sender moves on or has done, and nobody else is concerned.
SenderMoves(g) ==
    /\ DOMAIN ops' \subseteq DOMAIN ops \cup {g}
    /\ ops' = [h \in DOMAIN ops' |-> ops'[h]]
    /\ \A h \in DOMAIN ops' : h # g => ops'[h] = ops[h]
    /\ g \in DOMAIN ops' => Sound(ops'[g])

\* The senders after one of them has moved.
LEMMA SenderMovesInv ==
    ASSUME RegistryInv, NEW g \in Senders, SenderMoves(g), conns' = conns
    PROVE  IsMap(ops', Senders, Op) /\ WritesToSomebody' /\ DroppedHasLeft'
<1>1. \A h \in DOMAIN ops : Sound(ops[h])
  BY DEF RegistryInv, RestTyped, IsMap, WritesToSomebody, DroppedHasLeft, Sound
<1>2. \A h \in DOMAIN ops' : h \in Senders /\ Sound(ops'[h])
  BY <1>1 DEF SenderMoves, RegistryInv, RestTyped, IsMap
<1>3. IsMap(ops', Senders, Op)
  BY <1>2 DEF SenderMoves, IsMap, Sound
<1>4. WritesToSomebody' /\ DroppedHasLeft'
  BY <1>2 DEF WritesToSomebody, DroppedHasLeft, Sound
<1> QED BY <1>3, <1>4

\* A sender moves on and the registry's map stays as it is.
LEMMA SendingInv ==
    ASSUME RegistryInv, NEW g \in Senders, SenderMoves(g), MapTyped',
           \A s, u, c : Entry(s, u, c)' <=> Entry(s, u, c),
           pending' \in Conns \cup Senders \cup {Nobody}, opCount' \in 0 .. MaxOps,
           UNCHANGED <<conns, stalls, alive, ended>>
    PROVE  RegistryInv'
<1>1. IsMap(ops', Senders, Op) /\ WritesToSomebody' /\ DroppedHasLeft'
  BY SenderMovesInv
<1>2. RestTyped'
  BY <1>1 DEF RegistryInv, RestTyped
<1>3. Served'
  BY DEF RegistryInv, Served
<1>4. WelcomedIsRegistered'
  <2>1. ASSUME NEW d \in DOMAIN conns', NEW v, v = conns'[d].user,
               conns'[d].pc \in {"welcoming", "reading"}, conns'[d].sock = "open"
        PROVE  Entry(SessionOf[v], v, d)' \/ Excused(d)'
    <3>1. Entry(SessionOf[v], v, d) \/ Excused(d)
      BY <2>1 DEF RegistryInv, WelcomedIsRegistered
    <3>2. Excused(d) => Excused(d)'
      BY DEF Excused
    <3> QED BY <3>1, <3>2
  <2> QED BY <2>1 DEF WelcomedIsRegistered
<1> QED BY <1>1, <1>2, <1>3, <1>4 DEF RegistryInv

\* An operation at pc, with the writes in rest before it.
LEMMA OpMoves ==
    ASSUME IsMap(ops, Senders, Op), NEW g \in DOMAIN ops,
           NEW rest \in Seq(Conns), ToSet(rest) \subseteq DOMAIN conns,
           NEW pc \in {"send", "unregister"}, pc = "send" => rest # <<>>,
           ops' = [ops EXCEPT ![g].pc = pc, ![g].receivers = rest]
    PROVE  /\ SenderMoves(g)
           /\ ops'[g].receivers = rest
<1>1. ops[g] \in Op /\ ops \in [DOMAIN ops -> Op]
  BY DEF IsMap
<1>2. PICK v : v = [ops[g] EXCEPT !.pc = pc]
  OBVIOUS
<1>3. v \in Op /\ v.pc = pc
  BY <1>1, <1>2 DEF Op
<1>4. PICK r : r = [v EXCEPT !.receivers = rest]
  OBVIOUS
<1>5. r \in Op /\ r.pc = pc /\ r.receivers = rest
  BY <1>3, <1>4 DEF Op
<1>6. Sound(r)
  BY <1>5 DEF Sound
<1>7. ops' = [ops EXCEPT ![g] = r]
  BY <1>2, <1>4, Zenon
<1>8. /\ DOMAIN ops' = DOMAIN ops /\ ops'[g] = r
      /\ \A h \in DOMAIN ops : h # g => ops'[h] = ops[h]
      /\ ops' = [h \in DOMAIN ops' |-> ops'[h]]
  BY <1>1, <1>7
<1> QED BY <1>5, <1>6, <1>8 DEF SenderMoves

\* An operation is done.
LEMMA OpGone ==
    ASSUME NEW g, ops' = Delete(ops, g)
    PROVE  SenderMoves(g) /\ g \notin DOMAIN ops'
BY DEF Delete, SenderMoves

\* An operation goes on with the writes in rest, or is done.
LEMMA SendingMoves ==
    ASSUME IsMap(ops, Senders, Op), NEW g \in DOMAIN ops,
           NEW rest \in Seq(Conns), ToSet(rest) \subseteq DOMAIN conns,
           ops' = Sending(g, rest)
    PROVE  SenderMoves(g) /\ (g \in DOMAIN ops' => ops'[g].receivers = rest)
<1>1. CASE rest # <<>>
  <2>1. ops' = [ops EXCEPT ![g].pc = "send", ![g].receivers = rest]
    BY <1>1 DEF Sending
  <2> QED BY <1>1, <2>1, OpMoves
<1>2. CASE rest = <<>> /\ ops[g].kind = "end"
  <2>1. ops' = [ops EXCEPT ![g].pc = "unregister", ![g].receivers = rest]
    BY <1>2 DEF Sending
  <2> QED BY <2>1, OpMoves
<1>3. CASE rest = <<>> /\ ops[g].kind # "end"
  <2>1. ops' = Delete(ops, g)
    BY <1>3 DEF Sending
  <2> QED BY <2>1, OpGone
<1> QED BY <1>1, <1>2, <1>3

\* The next receiver, and those after it.
LEMMA Receivers ==
    ASSUME RegistryInv, NEW g \in DOMAIN ops, ops[g].pc \in {"send", "write", "drop"}
    PROVE  /\ Head(ops[g].receivers) \in DOMAIN conns
           /\ Tail(ops[g].receivers) \in Seq(Conns)
           /\ ToSet(Tail(ops[g].receivers)) \subseteq DOMAIN conns
<1>1. PICK q : q = ops[g].receivers
  OBVIOUS
<1>2. q \in Seq(Conns) /\ q # <<>> /\ ToSet(q) \subseteq DOMAIN conns
  BY <1>1 DEF RegistryInv, RestTyped, IsMap, Op, WritesToSomebody
<1>3. /\ Head(q) = q[1] /\ 1 \in DOMAIN q
      /\ Tail(q) \in Seq(Conns)
      /\ \A i \in DOMAIN Tail(q) : i + 1 \in DOMAIN q /\ Tail(q)[i] = q[i + 1]
  BY <1>2
<1>4. Head(q) \in ToSet(q) /\ ToSet(Tail(q)) \subseteq ToSet(q)
  BY <1>3 DEF ToSet
<1> QED BY <1>1, <1>2, <1>3, <1>4

\* An operation begins, with nobody to write to yet.
LEMMA BeginInv ==
    ASSUME RegistryInv, NEW g \in Senders, NEW kind \in Kinds, NEW s \in Sessions,
           Begin(g, kind, s)
    PROVE  RegistryInv'
<1>1. PICK op : op = [kind |-> kind, session |-> s, pc |-> FirstPc[kind],
                      receivers |-> <<>>]
  OBVIOUS
<1>2. FirstPc[kind] \in {"register", "snapshot", "print"}
  BY DEF FirstPc, Kinds
<1>3. op \in Op /\ op.pc \in {"register", "snapshot", "print"} /\ op.receivers = <<>>
  BY <1>1, <1>2 DEF Op
<1>4. Sound(op)
  BY <1>3 DEF Sound, ToSet
<1>5. /\ DOMAIN ops' = DOMAIN ops \cup {g} /\ ops'[g] = op
      /\ \A h \in DOMAIN ops : h # g => ops'[h] = ops[h]
      /\ ops' = [h \in DOMAIN ops' |-> ops'[h]]
  BY <1>1 DEF Begin, Put
<1>6. SenderMoves(g)
  BY <1>4, <1>5 DEF SenderMoves
<1>7. MapTyped' /\ \A t, u, c : Entry(t, u, c)' <=> Entry(t, u, c)
  BY DEF Begin, RegistryInv, MapTyped, Entry
<1>8. opCount' \in 0 .. MaxOps /\ pending' \in Conns \cup Senders \cup {Nobody}
  BY BoundsAssumption DEF Begin, RegistryInv, RestTyped
<1> QED BY <1>6, <1>7, <1>8, SendingInv DEF Begin

\* ConsumeSessionStart registers its session.
LEMMA StartSessionInv ==
    ASSUME RegistryInv, NEW g \in Senders, g \in DOMAIN ops, StartSession(g)
    PROVE  RegistryInv'
<1>1. SenderMoves(g)
  BY OpGone DEF StartSession
<1>2. ops[g].session \in Sessions
  BY DEF RegistryInv, RestTyped, IsMap, Op
<1>3. MapTyped' /\ \A t, u, c : Entry(t, u, c)' <=> Entry(t, u, c)
  BY <1>2, RegisterSessionEffect DEF StartSession, RegistryInv
<1>4. opCount' \in 0 .. MaxOps /\ pending' \in Conns \cup Senders \cup {Nobody}
  BY DEF StartSession, Locked, OpFrame, RegistryInv, RestTyped
<1> QED BY <1>1, <1>3, <1>4, SendingInv DEF StartSession, OpFrame

\* Steps that touch neither the registry's map nor its lock.
LEMMA WritingInv ==
    ASSUME RegistryInv, NEW g \in Senders, SenderMoves(g),
           UNCHANGED <<connections, pending>>, OpFrame
    PROVE  RegistryInv'
<1>1. MapTyped' /\ \A t, u, c : Entry(t, u, c)' <=> Entry(t, u, c)
  BY DEF RegistryInv, MapTyped, Entry
<1>2. opCount' \in 0 .. MaxOps /\ pending' \in Conns \cup Senders \cup {Nobody}
  BY DEF OpFrame, RegistryInv, RestTyped
<1> QED BY <1>1, <1>2, SendingInv DEF OpFrame

\* Who is in a session: finitely many connections, all of them accepted.
LEMMA MembersKnown ==
    ASSUME RegistryInv, NEW s
    PROVE  IsFiniteSet(Members(s)) /\ Members(s) \subseteq DOMAIN conns
<1>1. CASE s \in DOMAIN connections
  <2>1. PICK m : m = connections[s]
    OBVIOUS
  <2>2. IsMap(m, Users, Conns) /\ IsFiniteSet(DOMAIN m) /\ s \in Sessions
    BY <1>1, <2>1 DEF RegistryInv, MapTyped
  <2>3. Members(s) = {m[u] : u \in DOMAIN m}
    BY <1>1, <2>1 DEF Members
  <2>4. IsFiniteSet({m[u] : u \in DOMAIN m})
    <3>1. m \in Surjection(DOMAIN m, {m[u] : u \in DOMAIN m})
      BY <2>2 DEF Surjection, IsMap
    <3> QED BY <2>2, <3>1, FS_Surjection
  <2>5. ASSUME NEW u \in DOMAIN m PROVE m[u] \in DOMAIN conns
    <3>1. Entry(s, u, m[u]) /\ u \in Users /\ m[u] \in Conns
      BY <1>1, <2>1, <2>2 DEF Entry, IsMap
    <3> QED BY <2>2, <3>1 DEF RegistryInv, Served
  <2> QED BY <2>3, <2>4, <2>5
<1>2. CASE s \notin DOMAIN connections
  <2>1. Members(s) = {}
    BY <1>2 DEF Members
  <2> QED BY <2>1, FS_EmptySet
<1> QED BY <1>1, <1>2

\* What ParticipantsOnce says of the list that a broadcast to all starts with.
OnceEach(list, all) ==
    LET admins == {c \in all : IsAdmin(c)}
    IN  /\ IsInjective(list)
        /\ all \ admins \subseteq ToSet(list)
        /\ ToSet(list) \subseteq all
        /\ ToSet(list) \cap admins # {} => Cardinality(admins) > 1

\* BroadcastToSession: with one admin the loop leaves no admin, so an admin in
\* the list is one of two.
LEMMA BroadcastOnce ==
    ASSUME NEW all, IsFiniteSet(all), NEW q \in SetToSeqs(all), RemoveAdmins(q).ok,
           NEW list, list = RemoveAdmins(q).list
    PROVE  list \in Seq(all) /\ OnceEach(list, all)
<1> DEFINE admins == {c \in all : IsAdmin(c)}
<1>1. q \in Seq(all) /\ IsInjective(q) /\ ToSet(q) = all
  BY Enumerations
<1>2. Participants(list, q)
  BY <1>1, RemoveAdminsEffect
<1>3. /\ list \in Seq(all) /\ IsInjective(list)
      /\ \A c \in all : ~IsAdmin(c) => c \in ToSet(list)
      /\ \A j \in 1 .. Len(q) : OneAdminAt(q, j) => \A c \in ToSet(list) : ~IsAdmin(c)
  BY <1>1, <1>2 DEF Participants
<1>4. ToSet(list) \subseteq all
  BY <1>3 DEF ToSet
<1>5. ASSUME ToSet(list) \cap admins # {}, ~(Cardinality(admins) > 1) PROVE FALSE
  <2>1. PICK c : c \in ToSet(list) /\ c \in admins
    BY <1>5
  <2>2. IsFiniteSet(admins) /\ Cardinality(admins) \in Nat
    BY FS_Subset, FS_CardinalityType
  <2>3. Cardinality(admins) # 0
    BY <2>1, <2>2, FS_EmptySet
  <2>4. Cardinality(admins) = 1
    <3> HIDE DEF admins
    <3> QED BY <1>5, <2>2, <2>3
  <2>5. PICK a : admins = {a}
    <3> HIDE DEF admins
    <3> QED BY <2>2, <2>4, FS_Singleton
  <2>6. PICK j \in 1 .. Len(q) : q[j] = a
    BY <1>1, <2>5 DEF ToSet
  <2>7. \A i \in 1 .. Len(q) : q[i] \in all
    BY <1>1
  <2>8. \A i \in 1 .. Len(q) : IsAdmin(q[i]) <=> q[i] = a
    BY <2>5, <2>7
  <2>9. OneAdminAt(q, j)
    BY <1>1, <2>6, <2>8 DEF OneAdminAt, IsInjective
  <2> QED BY <1>3, <2>1, <2>9
<1> QED BY <1>3, <1>4, <1>5 DEF OnceEach

\* SendQuestionStat: no admin at all.
LEMMA SkippingOnce ==
    ASSUME NEW all, IsFiniteSet(all), NEW list \in SetToSeqs({c \in all : ~IsAdmin(c)})
    PROVE  list \in Seq(all) /\ OnceEach(list, all)
<1> DEFINE others == {c \in all : ~IsAdmin(c)}
<1>1. IsFiniteSet(others)
  BY FS_Subset
<1>2. list \in Seq(others) /\ IsInjective(list) /\ ToSet(list) = others
  BY <1>1, Enumerations
<1>3. list \in Seq(all)
  BY <1>2
<1> QED BY <1>2, <1>3 DEF OnceEach

\* What a snapshot decides to send, in both cases.
LEMMA SnapshotEffect ==
    ASSUME RegistryInv, NEW g \in DOMAIN ops, Snapshot(g)
    PROVE  \E list \in Seq(DOMAIN conns) :
               /\ OnceEach(list, Members(ops[g].session))
               /\ ops' = Sending(g, list)
<1>1. PICK all : all = Members(ops[g].session)
  OBVIOUS
<1>2. IsFiniteSet(all) /\ all \subseteq DOMAIN conns
  BY <1>1, MembersKnown
<1>3. ASSUME NEW q \in SetToSeqs(all), RemoveAdmins(q).ok,
             ops' = Sending(g, RemoveAdmins(q).list)
      PROVE  \E list \in Seq(all) : OnceEach(list, all) /\ ops' = Sending(g, list)
  <2>1. RemoveAdmins(q).list \in Seq(all) /\ OnceEach(RemoveAdmins(q).list, all)
    BY <1>2, <1>3, BroadcastOnce
  <2> QED BY <1>3, <2>1
<1>4. ASSUME NEW q \in SetToSeqs({c \in all : ~IsAdmin(c)}), ops' = Sending(g, q)
      PROVE  \E list \in Seq(all) : OnceEach(list, all) /\ ops' = Sending(g, list)
  BY <1>2, <1>4, SkippingOnce
<1>5. PICK list \in Seq(all) : OnceEach(list, all) /\ ops' = Sending(g, list)
  BY <1>1, <1>3, <1>4 DEF Snapshot
<1>6. list \in Seq(DOMAIN conns)
  BY <1>2, <1>5
<1> QED BY <1>1, <1>5, <1>6

\* A snapshot: everybody in it has been accepted.
LEMMA SnapshotInv ==
    ASSUME RegistryInv, NEW g \in Senders, g \in DOMAIN ops, Snapshot(g)
    PROVE  RegistryInv'
<1>1. PICK list \in Seq(DOMAIN conns) : ops' = Sending(g, list)
  BY SnapshotEffect
<1>2. IsMap(ops, Senders, Op) /\ DOMAIN conns \subseteq Conns
  BY DEF RegistryInv, RestTyped, IsMap
<1>3. list \in Seq(Conns) /\ ToSet(list) \subseteq DOMAIN conns
  BY <1>1, <1>2 DEF ToSet
<1>4. SenderMoves(g)
  BY <1>1, <1>2, <1>3, SendingMoves
<1> QED BY <1>4, WritingInv DEF Snapshot

\* SendToAdmin finds the admins among the registered.
LEMMA FindAdminInv ==
    ASSUME RegistryInv, NEW g \in Senders, g \in DOMAIN ops, FindAdmin(g)
    PROVE  RegistryInv'
<1> DEFINE admins == {c \in Members(ops[g].session) : IsAdmin(c)}
<1>1. PICK list \in SetToSeqs(admins) : ops' = Sending(g, list)
  BY DEF FindAdmin
<1>2. IsFiniteSet(admins) /\ admins \subseteq DOMAIN conns
  BY MembersKnown, FS_Subset
<1> HIDE DEF admins
<1>3. IsMap(ops, Senders, Op) /\ DOMAIN conns \subseteq Conns
  BY DEF RegistryInv, RestTyped, IsMap
<1>4. list \in Seq(admins) /\ ToSet(list) = admins
  BY <1>2, Enumerations
<1>5. list \in Seq(Conns)
  BY <1>2, <1>3, <1>4
<1>6. SenderMoves(g)
  BY <1>1, <1>2, <1>3, <1>4, <1>5, SendingMoves
<1> QED BY <1>6, WritingInv DEF FindAdmin

\* The process dies: nobody is registered and nobody reads.
LEMMA DieInv ==
    ASSUME RegistryInv, Die
    PROVE  RegistryInv'
<1>1. DOMAIN EmptyMap = {} /\ \A K, V : IsMap(EmptyMap, K, V)
  BY DEF EmptyMap, IsMap
<1>2. MapTyped'
  BY <1>1 DEF Die, MapTyped
<1>3. RestTyped'
  BY <1>1 DEF Die, RegistryInv, RestTyped
<1>4. Served' /\ WelcomedIsRegistered' /\ WritesToSomebody' /\ DroppedHasLeft'
  BY <1>1 DEF Die, Served, Entry, WelcomedIsRegistered, WritesToSomebody, DroppedHasLeft
<1> QED BY <1>2, <1>3, <1>4 DEF RegistryInv

\* A write begins, or fails because the client has left.
LEMMA BeginWriteInv ==
    ASSUME RegistryInv, NEW g \in Senders, g \in DOMAIN ops,
           BeginWrite(g) \/ WriteFails(g)
    PROVE  RegistryInv'
<1>1. PICK pc \in {"write", "drop"} :
          /\ ops' = [ops EXCEPT ![g].pc = pc]
          /\ ops[g].pc \in {"send", "write"}
          /\ pc = "drop" => conns[Head(ops[g].receivers)].sock \in {"gone", "closed"}
  BY DEF BeginWrite, WriteFails
<1>2. /\ ops[g] \in Op /\ ops \in [DOMAIN ops -> Op]
      /\ ops[g].receivers # <<>> /\ ToSet(ops[g].receivers) \subseteq DOMAIN conns
  BY <1>1 DEF RegistryInv, RestTyped, IsMap, WritesToSomebody
<1>3. PICK r : r = [ops[g] EXCEPT !.pc = pc]
  OBVIOUS
<1>4. r \in Op /\ r.pc = pc /\ r.receivers = ops[g].receivers
  BY <1>2, <1>3 DEF Op
<1>5. Sound(r)
  BY <1>1, <1>2, <1>4 DEF Sound
<1>6. /\ DOMAIN ops' = DOMAIN ops /\ ops'[g] = r
      /\ \A h \in DOMAIN ops : h # g => ops'[h] = ops[h]
      /\ ops' = [h \in DOMAIN ops' |-> ops'[h]]
  BY <1>1, <1>2, <1>3
<1>7. SenderMoves(g)
  BY <1>5, <1>6 DEF SenderMoves
<1> QED BY <1>7, WritingInv DEF BeginWrite, WriteFails

\* A write is done, and the next receiver is up.
LEMMA WriteSucceedsInv ==
    ASSUME RegistryInv, NEW g \in Senders, g \in DOMAIN ops, WriteSucceeds(g)
    PROVE  RegistryInv'
<1>1. PICK rest : rest = Tail(ops[g].receivers)
  OBVIOUS
<1>2. rest \in Seq(Conns) /\ ToSet(rest) \subseteq DOMAIN conns
  BY <1>1, Receivers DEF WriteSucceeds
<1>3. SenderMoves(g)
  BY <1>1, <1>2, SendingMoves DEF WriteSucceeds, RegistryInv, RestTyped
<1> QED BY <1>3, WritingInv DEF WriteSucceeds

\* The entry that a failed write removes is that of the connection which the
\* client has left, or the user has two.
LEMMA DropInv ==
    ASSUME RegistryInv, NEW g \in Senders, g \in DOMAIN ops, Drop(g)
    PROVE  RegistryInv'
<1>1. PICK d : d = Head(ops[g].receivers)
  OBVIOUS
<1>2. PICK u : u = conns[d].user
  OBVIOUS
<1>3. PICK s : s = SessionOf[u]
  OBVIOUS
<1>4. PICK rest : rest = Tail(ops[g].receivers)
  OBVIOUS
<1>5. /\ ops[g].pc = "drop" /\ ops' = Sending(g, rest)
      /\ UnregisterConnection(s, u) /\ pending' = Nobody
      /\ UNCHANGED <<conns, opCount, stalls, alive, ended>>
  BY <1>1, <1>2, <1>3, <1>4 DEF Drop, Locked, OpFrame
<1>6. d \in DOMAIN conns /\ rest \in Seq(Conns) /\ ToSet(rest) \subseteq DOMAIN conns
  BY <1>1, <1>4, <1>5, Receivers
<1>7. conns[d].sock \in {"gone", "closed"}
  BY <1>1, <1>5 DEF RegistryInv, DroppedHasLeft
<1>8. SenderMoves(g)
  BY <1>5, <1>6, SendingMoves DEF RegistryInv, RestTyped
<1>9. IsMap(ops', Senders, Op) /\ WritesToSomebody' /\ DroppedHasLeft'
  BY <1>5, <1>8, SenderMovesInv
<1>10. /\ MapTyped'
       /\ \A t, v, c : Entry(t, v, c)' <=> Entry(t, v, c) /\ ~(t = s /\ v = u)
  BY <1>5, UnregisterConnectionEffect DEF RegistryInv
<1>11. RestTyped'
  BY <1>5, <1>9 DEF RegistryInv, RestTyped
<1>12. Served'
  BY <1>5, <1>10 DEF RegistryInv, Served
<1>13. WelcomedIsRegistered'
  <2>1. ASSUME NEW c \in DOMAIN conns', NEW v, v = conns'[c].user,
               conns'[c].pc \in {"welcoming", "reading"}, conns'[c].sock = "open"
        PROVE  Entry(SessionOf[v], v, c)' \/ Excused(c)'
    <3>1. c # d /\ c \in DOMAIN conns /\ conns' = conns /\ ended' = ended
      BY <1>5, <1>7, <2>1
    <3>2. CASE v = u
      BY <1>2, <1>6, <2>1, <3>1, <3>2 DEF Excused
    <3>3. CASE v # u
      <4>1. Entry(SessionOf[v], v, c) \/ Excused(c)
        BY <2>1, <3>1 DEF RegistryInv, WelcomedIsRegistered
      <4>2. Excused(c) => Excused(c)'
        BY <3>1 DEF Excused
      <4> QED BY <1>10, <3>3, <4>1, <4>2
    <3> QED BY <3>2, <3>3
  <2> QED BY <2>1 DEF WelcomedIsRegistered
<1> QED BY <1>9, <1>10, <1>11, <1>12, <1>13 DEF RegistryInv

\* The entries of a session are removed: from now on it has ended.
LEMMA UnregisterSessionInv ==
    ASSUME RegistryInv, NEW g \in Senders, g \in DOMAIN ops, UnregisterSession(g)
    PROVE  RegistryInv'
<1>1. PICK s : s = ops[g].session
  OBVIOUS
<1>2. /\ connections' = Delete(connections, s) /\ ended' = ended \cup {s}
      /\ ops' = Delete(ops, g) /\ pending' = Nobody
      /\ UNCHANGED <<conns, opCount, stalls, alive>>
  BY <1>1 DEF UnregisterSession, Locked
<1>3. s \in Sessions
  BY <1>1 DEF RegistryInv, RestTyped, IsMap, Op
<1>4. SenderMoves(g)
  BY <1>2, OpGone
<1>5. IsMap(ops', Senders, Op) /\ WritesToSomebody' /\ DroppedHasLeft'
  BY <1>2, <1>4, SenderMovesInv
<1>6. /\ MapTyped'
      /\ \A t, v, c : Entry(t, v, c)' <=> Entry(t, v, c) /\ t # s
  BY <1>2, DeleteSessionEffect DEF RegistryInv
<1>7. RestTyped'
  BY <1>2, <1>3, <1>5 DEF RegistryInv, RestTyped
<1>8. Served'
  BY <1>2, <1>6 DEF RegistryInv, Served
<1>9. WelcomedIsRegistered'
  <2>1. ASSUME NEW c \in DOMAIN conns', NEW v, v = conns'[c].user,
               conns'[c].pc \in {"welcoming", "reading"}, conns'[c].sock = "open"
        PROVE  Entry(SessionOf[v], v, c)' \/ Excused(c)'
    <3>1. CASE SessionOf[v] = s
      BY <1>2, <2>1, <3>1 DEF Excused
    <3>2. CASE SessionOf[v] # s
      <4>1. Entry(SessionOf[v], v, c) \/ Excused(c)
        BY <1>2, <2>1 DEF RegistryInv, WelcomedIsRegistered
      <4>2. Excused(c) => Excused(c)'
        BY <1>2 DEF Excused
      <4> QED BY <1>6, <3>2, <4>1, <4>2
    <3> QED BY <3>1, <3>2
  <2> QED BY <2>1 DEF WelcomedIsRegistered
<1> QED BY <1>5, <1>6, <1>7, <1>8, <1>9 DEF RegistryInv

-----------------------------------------------------------------------------
(* The theorems.                                                           *)

\* A game under way: everybody present is registered and read from.
LEMMA InitInv == Init => RegistryInv
<1> SUFFICES ASSUME Init PROVE RegistryInv
  OBVIOUS
<1> DEFINE U(s) == {v \in DOMAIN Present : SessionOf[v] = s}
<1>1. /\ DOMAIN Present \subseteq Users /\ Present \in [DOMAIN Present -> Conns]
      /\ IsFiniteSet(DOMAIN Present)
      /\ \A u, v \in DOMAIN Present : Present[u] = Present[v] => u = v
  BY PresentAssumption DEF IsMap, IsInjective
<1>2. \A u \in Users : SessionOf[u] \in Sessions
  BY TokensAssumption
<1>3. /\ DOMAIN connections = {SessionOf[u] : u \in DOMAIN Present}
      /\ \A s \in DOMAIN connections : connections[s] = [u \in U(s) |-> Present[u]]
  BY DEF Init
<1>4. ASSUME NEW u \in DOMAIN Present
      PROVE  /\ Present[u] \in DOMAIN conns
             /\ conns[Present[u]] \in Conn
             /\ conns[Present[u]].user = u
             /\ conns[Present[u]].pc = "reading"
  <2>1. (CHOOSE v \in DOMAIN Present : Present[v] = Present[u]) = u
    BY <1>1
  <2>2. PICK r : r = [user |-> u, pc |-> "reading", sock |-> "open"]
    OBVIOUS
  <2>3. r \in Conn /\ r.user = u /\ r.pc = "reading"
    BY <1>1, <2>2 DEF Conn
  <2>4. Present[u] \in DOMAIN conns /\ conns[Present[u]] = r
    BY <2>1, <2>2 DEF Init, Range
  <2> QED BY <2>3, <2>4
<1>5. DOMAIN conns = {Present[u] : u \in DOMAIN Present}
  BY DEF Init, Range
<1>6. MapTyped
  <2>1. DOMAIN connections \subseteq Sessions
    BY <1>1, <1>2, <1>3
  <2>2. ASSUME NEW s \in DOMAIN connections
        PROVE  /\ IsMap(connections[s], Users, Conns)
               /\ IsFiniteSet(DOMAIN connections[s])
    <3>1. connections[s] = [u \in U(s) |-> Present[u]] /\ DOMAIN connections[s] = U(s)
      BY <1>3
    <3>2. IsFiniteSet(U(s))
      BY <1>1, FS_Subset
    <3> QED BY <1>1, <3>1, <3>2 DEF IsMap
  <2> QED BY <2>1, <2>2 DEF MapTyped
<1>7. RestTyped
  <2>1. IsMap(conns, Conns, Conn)
    <3>1. \A c \in DOMAIN conns : c \in Conns /\ conns[c] \in Conn
      BY <1>1, <1>4, <1>5
    <3>2. conns = [c \in DOMAIN conns |-> conns[c]]
      BY DEF Init
    <3> QED BY <3>1, <3>2 DEF IsMap
  <2>2. IsMap(ops, Senders, Op)
    BY DEF Init, EmptyMap, IsMap
  <2>3. opCount \in 0 .. MaxOps /\ stalls \in 0 .. MaxStalls
    BY BoundsAssumption DEF Init
  <2> QED BY <2>1, <2>2, <2>3 DEF Init, RestTyped
<1>8. Served
  <2>1. ASSUME NEW s, NEW u, NEW c, Entry(s, u, c)
        PROVE  u \in DOMAIN Present /\ c = Present[u] /\ SessionOf[u] = s
    BY <1>3, <2>1, ZenonT(40) DEF Entry
  <2>2. ASSUME NEW s, NEW u, NEW c, Entry(s, u, c)
        PROVE  /\ c \in DOMAIN conns /\ conns[c].user = u /\ SessionOf[u] = s
               /\ conns[c].pc = "reading"
    <3>1. u \in DOMAIN Present /\ c = Present[u] /\ SessionOf[u] = s
      BY <2>1, <2>2
    <3> QED BY <1>4, <3>1
  <2> QED BY <2>2 DEF Served
<1>9. WelcomedIsRegistered
  <2>1. ASSUME NEW u \in DOMAIN Present PROVE Entry(SessionOf[u], u, Present[u])
    <3>1. PICK s : s = SessionOf[u]
      OBVIOUS
    <3>2. s \in DOMAIN connections /\ u \in U(s)
      BY <1>3, <3>1
    <3>3. connections[s] = [v \in U(s) |-> Present[v]]
      BY <1>3, <3>2
    <3>4. Entry(s, u, Present[u])
      BY <3>2, <3>3 DEF Entry
    <3> QED BY <3>1, <3>4
  <2>2. ASSUME NEW c \in DOMAIN conns
        PROVE  Entry(SessionOf[conns[c].user], conns[c].user, c)
    <3>1. PICK u \in DOMAIN Present : c = Present[u]
      BY <1>5
    <3>2. conns[c].user = u
      BY <1>4, <3>1
    <3> QED BY <2>1, <3>1, <3>2
  <2> QED BY <2>2 DEF WelcomedIsRegistered
<1>10. WritesToSomebody /\ DroppedHasLeft
  BY DEF Init, EmptyMap, WritesToSomebody, DroppedHasLeft
<1> QED BY <1>6, <1>7, <1>8, <1>9, <1>10 DEF RegistryInv

\* Every step preserves the invariant.
LEMMA NextInv == RegistryInv /\ [Next]_vars => RegistryInv'
<1> SUFFICES ASSUME RegistryInv, [Next]_vars PROVE RegistryInv'
  OBVIOUS
<1>1. CASE UNCHANGED vars
  BY <1>1 DEF vars, RegistryInv, MapTyped, RestTyped, Served, Entry, Excused,
              WelcomedIsRegistered, WritesToSomebody, DroppedHasLeft
<1>2. ASSUME NEW c \in Conns, NEW u \in Users, Accept(c, u) PROVE RegistryInv'
  BY <1>2, AcceptInv
<1>3. ASSUME NEW c \in Conns, HandlerStep(c) PROVE RegistryInv'
  BY <1>3, EnsureSessionInv, RegisterConnectionInv, EndWelcomeInv, LeaveInv
     DEF HandlerStep
<1>4. ASSUME NEW c \in DOMAIN conns, ClientStalls(c) \/ ClientLeaves(c)
      PROVE  RegistryInv'
  BY <1>4, ClientInv
<1>5. ASSUME NEW g \in Senders, NEW kind \in Kinds, NEW s \in Sessions,
             Begin(g, kind, s)
      PROVE  RegistryInv'
  BY <1>5, BeginInv
<1>6. ASSUME NEW g \in Senders, SenderStep(g) PROVE RegistryInv'
  <2>1. g \in DOMAIN ops
    BY <1>6 DEF SenderStep
  <2>2. CASE SnapshotPanics(g) \/ PrintFatal(g) \/ WritePanics(g)
    BY <2>2, DieInv DEF SnapshotPanics, PrintFatal, WritePanics
  <2>3. CASE StartSession(g) \/ Snapshot(g) \/ FindAdmin(g)
    BY <2>1, <2>3, StartSessionInv, SnapshotInv, FindAdminInv
  <2>4. CASE BeginWrite(g) \/ WriteSucceeds(g) \/ WriteFails(g)
    BY <2>1, <2>4, BeginWriteInv, WriteSucceedsInv
  <2>5. CASE Drop(g) \/ UnregisterSession(g)
    BY <2>1, <2>5, DropInv, UnregisterSessionInv
  <2> QED BY <1>6, <2>2, <2>3, <2>4, <2>5 DEF SenderStep
<1>7. ASSUME NEW p \in Conns \cup Senders, WaitForLock(p) PROVE RegistryInv'
  <2>1. MapTyped' /\ RestTyped'
    BY <1>7 DEF WaitForLock, RegistryInv, MapTyped, RestTyped
  <2>2. Served' /\ WelcomedIsRegistered' /\ WritesToSomebody' /\ DroppedHasLeft'
    BY <1>7 DEF WaitForLock, RegistryInv, Served, Entry, Excused,
                WelcomedIsRegistered, WritesToSomebody, DroppedHasLeft
  <2> QED BY <2>1, <2>2 DEF RegistryInv
<1> QED BY <1>1, <1>2, <1>3, <1>4, <1>5, <1>6, <1>7 DEF Next

\* The invariant that the others are consequences of: it holds whatever the
\* interleaving of handlers, clients and senders, and whoever is connected.
THEOREM RegistryInvariant == Spec => []RegistryInv
BY InitInv, NextInv, PTL DEF Spec

\* The registry's map, the contexts and the operations keep their types.
THEOREM RegistryTyped == Spec => []TypeOK
<1>1. RegistryInv => TypeOK
  BY DEF RegistryInv, MapTyped, RestTyped, TypeOK
<1> QED BY <1>1, RegistryInvariant, PTL

\* No connection is left in the registry after its handler has gone.
THEOREM RegisteredIsServedHolds == Spec => []RegisteredIsServed
<1>1. RegistryInv => RegisteredIsServed
  <2> SUFFICES ASSUME RegistryInv, NEW s \in DOMAIN connections,
                      NEW u \in DOMAIN connections[s], NEW c, c = connections[s][u]
               PROVE  /\ conns[c].user = u /\ SessionOf[u] = s
                      /\ conns[c].pc \in {"welcoming", "reading", "stuck"}
    BY DEF RegisteredIsServed
  <2>1. s \in Sessions /\ u \in Users /\ c \in Conns
    BY DEF RegistryInv, MapTyped, IsMap
  <2>2. Entry(s, u, c)
    BY DEF Entry
  <2> QED BY <2>1, <2>2 DEF RegistryInv, Served
<1> QED BY <1>1, RegistryInvariant, PTL

\* A client whose messages are read is registered, unless its user has another
\* connection or the session has ended.
THEOREM ReaderIsRegisteredHolds == Spec => []ReaderIsRegistered
<1>1. RegistryInv => ReaderIsRegistered
  <2> SUFFICES ASSUME RegistryInv, NEW c \in DOMAIN conns,
                      conns[c].pc = "reading", conns[c].sock = "open", ~Registered(c)
               PROVE  \/ \E d \in DOMAIN conns \ {c} : conns[d].user = conns[c].user
                      \/ SessionOf[conns[c].user] \in ended
    BY DEF ReaderIsRegistered
  <2>1. ~Entry(SessionOf[conns[c].user], conns[c].user, c)
    BY DEF Entry, Registered, Members
  <2>2. Excused(c)
    BY <2>1 DEF RegistryInv, WelcomedIsRegistered
  <2> QED BY <2>2 DEF Excused
<1> QED BY <1>1, RegistryInvariant, PTL

\* The step that ParticipantsOnce allows.
SnapshotOnce ==
    \A g \in (DOMAIN ops) \cap (DOMAIN ops') :
        ops[g].pc = "snapshot" /\ ops'[g].pc # "snapshot" =>
            OnceEach(ops'[g].receivers, Members(ops[g].session))

\* Only a snapshot of its own takes an operation on from there.
LEMMA OnceStep == RegistryInv /\ [Next]_vars => [SnapshotOnce]_vars
<1> SUFFICES ASSUME RegistryInv, Next,
                    NEW g \in DOMAIN ops, g \in DOMAIN ops',
                    ops[g].pc = "snapshot", ops'[g].pc # "snapshot"
             PROVE  OnceEach(ops'[g].receivers, Members(ops[g].session))
  BY DEF SnapshotOnce
<1>1. ops \in [DOMAIN ops -> Op] /\ DOMAIN ops \subseteq Senders
  BY DEF RegistryInv, RestTyped, IsMap
<1>2. ops'[g] # ops[g]
  OBVIOUS
<1>3. ops' # ops
  BY <1>2
<1>4. PICK h \in Senders : \/ \E kind \in Kinds, s \in Sessions : Begin(h, kind, s)
                           \/ SenderStep(h)
  BY <1>3 DEF Next, Accept, HandlerStep, EnsureSession, RegisterConnection,
              EndWelcome, WelcomePanics, Leave, ClientStalls, ClientLeaves,
              HandlerFrame, WaitForLock
<1>5. ASSUME NEW kind \in Kinds, NEW s \in Sessions, Begin(h, kind, s) PROVE FALSE
  BY <1>2, <1>5 DEF Begin, Put
<1>6. ~Die
  BY DEF Die, EmptyMap
<1>7. ASSUME NEW rest, ops' = Sending(h, rest) PROVE h = g
  BY <1>1, <1>2, <1>7 DEF Sending, Delete
<1>8. CASE Snapshot(h) /\ h \in DOMAIN ops
  <2>1. PICK list \in Seq(DOMAIN conns) :
            /\ OnceEach(list, Members(ops[h].session))
            /\ ops' = Sending(h, list)
    BY <1>8, SnapshotEffect
  <2>2. h = g
    BY <1>7, <2>1
  <2>3. list \in Seq(Conns) /\ ToSet(list) \subseteq DOMAIN conns
    BY <2>1 DEF ToSet, RegistryInv, RestTyped, IsMap
  <2>4. ops'[g].receivers = list
    BY <2>1, <2>2, <2>3, SendingMoves DEF RegistryInv, RestTyped
  <2> QED BY <2>1, <2>2, <2>4
<1>9. CASE FindAdmin(h) \/ WriteSucceeds(h) \/ Drop(h)
  <2>1. h = g /\ ops[h].pc # "snapshot"
    BY <1>7, <1>9 DEF FindAdmin, WriteSucceeds, Drop
  <2> QED BY <2>1
<1>10. CASE BeginWrite(h) \/ WriteFails(h)
  <2>1. h = g /\ ops[h].pc # "snapshot"
    BY <1>1, <1>2, <1>10 DEF BeginWrite, WriteFails
  <2> QED BY <2>1
<1>11. CASE StartSession(h) \/ UnregisterSession(h)
  <2>1. h = g /\ ops[h].pc # "snapshot"
    BY <1>2, <1>11 DEF StartSession, UnregisterSession, Delete
  <2> QED BY <2>1
<1> QED BY <1>4, <1>5, <1>6, <1>8, <1>9, <1>10, <1>11
        DEF SenderStep, SnapshotPanics, PrintFatal, WritePanics

\* A broadcast to the participants sets out to write to each of them once,
\* whatever the order of the map, the number of admins and what the removals
\* do to the slice that the loop ranges over.
THEOREM ParticipantsOnceHolds == Spec => ParticipantsOnce
<1>1. [][SnapshotOnce]_vars => ParticipantsOnce
  BY PTL DEF SnapshotOnce, OnceEach, ParticipantsOnce
<1> QED BY <1>1, OnceStep, RegistryInvariant, PTL DEF Spec
=============================================================================
