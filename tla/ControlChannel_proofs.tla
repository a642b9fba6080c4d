----------------------- MODULE ControlChannel_proofs -----------------------
(***************************************************************************)
(* Theorems about ControlChannel, for any number of workers, sessions,     *)
(* runs and cancels.  A request on its way is with its handler or held by  *)
(* one of the Holders: a worker's queue, what a flush has left, a wire.    *)
(* Each step lets two holders exchange what they hold (Moved), and so      *)
(* starts one request, settles some, or keeps them all (Flow).             *)
(***************************************************************************)
EXTENDS ControlChannel, FiniteSetTheorems, FunctionTheorems, SequenceTheorems,
        TLAPS

-----------------------------------------------------------------------------
(* Taking entries out of a queue *)

LEMMA RankType ==
  ASSUME NEW n \in Nat, NEW P \in SUBSET (1..n), NEW i \in P
  PROVE  /\ IsFiniteSet(P) /\ Cardinality(P) \in Nat
         /\ Cardinality(P) <= n
         /\ Rank(i, P) \in 1..Cardinality(P)
<1>1. IsFiniteSet(1..n) /\ Cardinality(1..n) = n
  BY FS_Interval
<1>2. IsFiniteSet(P) /\ Cardinality(P) <= n
  BY <1>1, FS_Subset
<1> DEFINE L == {j \in P : j <= i}
<1>3. L \in SUBSET P /\ i \in L
  OBVIOUS
<1>4. IsFiniteSet(L) /\ Cardinality(L) <= Cardinality(P)
  BY <1>2, <1>3, FS_Subset
<1>5. Cardinality(L) \in Nat /\ Cardinality(L) # 0
  BY <1>3, <1>4, FS_CardinalityType, FS_EmptySet
<1>6. Cardinality(P) \in Nat
  BY <1>2, FS_CardinalityType
<1> QED
  BY <1>2, <1>4, <1>5, <1>6 DEF Rank

LEMMA RankInjective ==
  ASSUME NEW n \in Nat, NEW P \in SUBSET (1..n), NEW i \in P, NEW j \in P,
         Rank(i, P) = Rank(j, P)
  PROVE  i = j
<1>1. ASSUME NEW a \in P, NEW b \in P, a < b PROVE Rank(a, P) # Rank(b, P)
  <2> DEFINE A == {k \in P : k <= a}
             B == {k \in P : k <= b}
  <2>1. A \in SUBSET B /\ b \in B /\ b \notin A
    <3>1. \A k \in P : k \in Int
      OBVIOUS
    <3>2. \A k \in P : k <= a => k <= b
      BY <1>1, <3>1
    <3>3. ~(b <= a) /\ b <= b
      BY <1>1, <3>1
    <3> QED
      BY <3>2, <3>3
  <2>2. IsFiniteSet(B)
    <3>1. IsFiniteSet(P) /\ B \in SUBSET P
      BY RankType
    <3> QED
      BY <3>1, FS_Subset
  <2>3. Cardinality(A) # Cardinality(B)
    <3> HIDE DEF A, B
    <3> QED
      BY <2>1, <2>2, FS_Subset
  <2> QED
    BY <2>3 DEF Rank
<1>2. ~(i < j) /\ ~(j < i)
  BY <1>1
<1> QED
  BY <1>2

\* Every position from 1 to the number of entries is some entry's rank.
LEMMA RankOnto ==
  ASSUME NEW n \in Nat, NEW P \in SUBSET (1..n), NEW k \in 1..Cardinality(P)
  PROVE  \E i \in P : Rank(i, P) = k
<1> DEFINE c == Cardinality(P)
           f == [i \in P |-> Rank(i, P)]
<1>1. IsFiniteSet(P) /\ c \in Nat
  <2>1. IsFiniteSet(1..n)
    BY FS_Interval
  <2>2. IsFiniteSet(P)
    BY <2>1, FS_Subset
  <2> QED
    BY <2>2, FS_CardinalityType
<1>2. f \in [P -> 1..c]
  BY RankType
<1>3. IsInjective(f)
  BY RankInjective DEF IsInjective
<1>4. f \in Injection(P, 1..c)
  BY <1>2, <1>3 DEF Injection
<1>5. IsFiniteSet(1..c) /\ Cardinality(1..c) = c
  BY <1>1, FS_Interval
<1>6. f \in Surjection(P, 1..c)
  <2> HIDE DEF f
  <2> QED
    BY <1>1, <1>4, <1>5, FS_Injection
<1>7. \E i \in P : f[i] = k
  <2> HIDE DEF f
  <2> QED
    BY <1>6 DEF Surjection
<1> QED
  BY <1>7

\* What EntriesAt takes from a sequence: each entry once and nothing else.
LEMMA EntriesTaken ==
  ASSUME NEW S, NEW q \in Seq(S), NEW P \in SUBSET (1..Len(q))
  PROVE  LET e == EntriesAt(q, P)
         IN  /\ e \in Seq(S)
             /\ Len(e) <= Len(q)
             /\ \E f \in [1..Len(e) -> P] :
                  /\ \A k \in 1..Len(e) : e[k] = q[f[k]]
                  /\ \A k, l \in 1..Len(e) : f[k] = f[l] => k = l
                  /\ \A i \in P : \E k \in 1..Len(e) : f[k] = i
<1> DEFINE n == Len(q)
           c == Cardinality(P)
           Nth(k) == CHOOSE i \in P : Rank(i, P) = k
           e == EntriesAt(q, P)
           f == [k \in 1..c |-> Nth(k)]
<1>1. n \in Nat
  OBVIOUS
<1>2. c \in Nat /\ c <= n
  <2>1. IsFiniteSet(1..n) /\ Cardinality(1..n) = n
    <3> HIDE DEF n, c, e, f
    <3> QED
      BY <1>1, FS_Interval
  <2> QED
    BY <2>1, FS_Subset, FS_CardinalityType
<1>3. ASSUME NEW k \in 1..c PROVE Nth(k) \in P /\ Rank(Nth(k), P) = k
  BY <1>1, RankOnto
<1>4. e = [k \in 1..c |-> q[Nth(k)]]
  BY DEF EntriesAt
<1>5. \A k \in 1..c : q[Nth(k)] \in S
  <2> SUFFICES ASSUME NEW k \in 1..c PROVE q[Nth(k)] \in S
    OBVIOUS
  <2>1. Nth(k) \in 1..Len(q)
    BY <1>3
  <2> HIDE DEF Nth
  <2> QED
    BY <2>1
<1>6. e \in Seq(S) /\ Len(e) = c
  <2> HIDE DEF Nth, c
  <2> QED
    BY <1>2, <1>4, <1>5
<1>7. /\ f \in [1..c -> P]
      /\ \A k \in 1..c : e[k] = q[f[k]]
  <2> HIDE DEF Nth
  <2> QED
    BY <1>3, <1>4
<1>10. \A k \in 1..c : f[k] \in P /\ Rank(f[k], P) = k
  <2> SUFFICES ASSUME NEW k \in 1..c PROVE f[k] \in P /\ Rank(f[k], P) = k
    OBVIOUS
  <2>1. f[k] = Nth(k)
    OBVIOUS
  <2> HIDE DEF Nth, f
  <2> QED
    BY <1>3, <2>1
<1>8. \A k, l \in 1..c : f[k] = f[l] => k = l
  <2> HIDE DEF f
  <2> QED
    BY <1>10
<1>9. ASSUME NEW i \in P PROVE \E k \in 1..c : f[k] = i
  <2>1. Rank(i, P) \in 1..c
    BY <1>1, RankType
  <2> HIDE DEF f
  <2>2. f[Rank(i, P)] \in P /\ Rank(f[Rank(i, P)], P) = Rank(i, P)
    BY <1>10, <2>1
  <2>3. f[Rank(i, P)] = i
    BY <1>1, <2>2, RankInjective
  <2> QED
    BY <2>1, <2>3
<1> HIDE DEF f, e, c
<1> QED
  BY <1>2, <1>6, <1>7, <1>8, <1>9 DEF e

-----------------------------------------------------------------------------
(* What the operations on sequences hold *)

Distinct(q) == \A i, j \in 1..Len(q) : q[i] = q[j] => i = j

LEMMA EntriesKept ==
  ASSUME NEW S, NEW q \in Seq(S), NEW P \in SUBSET (1..Len(q)), Distinct(q)
  PROVE  /\ EntriesAt(q, P) \in Seq(S)
         /\ Len(EntriesAt(q, P)) <= Len(q)
         /\ Distinct(EntriesAt(q, P))
         /\ Elems(EntriesAt(q, P)) \subseteq Elems(q)
<1> DEFINE e == EntriesAt(q, P)
<1>1. e \in Seq(S) /\ Len(e) <= Len(q)
  BY EntriesTaken
<1>2. PICK f \in [1..Len(e) -> P] :
         /\ \A k \in 1..Len(e) : e[k] = q[f[k]]
         /\ \A k, l \in 1..Len(e) : f[k] = f[l] => k = l
  BY EntriesTaken
<1> HIDE DEF e
<1>3. \A k \in 1..Len(e) : f[k] \in 1..Len(q)
  BY <1>2
<1>4. Distinct(e)
  BY <1>2, <1>3 DEF Distinct
<1>5. Elems(e) \subseteq Elems(q)
  BY <1>2, <1>3 DEF Elems
<1> QED
  BY <1>1, <1>4, <1>5 DEF e

LEMMA NoElems == Elems(<<>>) = {} /\ Distinct(<<>>)
BY DEF Elems, Distinct

LEMMA TailElems ==
  ASSUME NEW S, NEW q \in Seq(S), q # <<>>, Distinct(q)
  PROVE  /\ Tail(q) \in Seq(S) /\ Head(q) \in S
         /\ Distinct(Tail(q))
         /\ Head(q) \in Elems(q)
         /\ Elems(Tail(q)) = Elems(q) \ {Head(q)}
<1>1. /\ Len(q) \in Nat \ {0} /\ Tail(q) \in Seq(S)
      /\ Len(Tail(q)) = Len(q) - 1
      /\ \A i \in 1..Len(Tail(q)) : Tail(q)[i] = q[i + 1]
      /\ Head(q) = q[1] /\ Head(q) \in S
  OBVIOUS
<1> DEFINE t == Tail(q)  h == Head(q)
<1>2. Distinct(t)
  <2> SUFFICES ASSUME NEW i \in 1..Len(t), NEW j \in 1..Len(t), t[i] = t[j]
               PROVE  i = j
    BY DEF Distinct
  <2>1. i + 1 \in 1..Len(q) /\ j + 1 \in 1..Len(q) /\ q[i + 1] = q[j + 1]
    BY <1>1
  <2>2. i + 1 = j + 1
    BY <2>1 DEF Distinct
  <2> QED
    BY <2>2
<1>3. h \in Elems(q)
  BY <1>1 DEF Elems
<1>4. ASSUME NEW x \in Elems(t) PROVE x \in Elems(q) /\ x # h
  <2>1. PICK i \in 1..Len(t) : x = t[i]
    BY DEF Elems
  <2>2. i + 1 \in 1..Len(q) /\ x = q[i + 1] /\ 1 \in 1..Len(q) /\ i + 1 # 1
    BY <1>1, <2>1
  <2> QED
    BY <1>1, <2>2 DEF Elems, Distinct
<1>5. ASSUME NEW x \in Elems(q), x # h PROVE x \in Elems(t)
  <2>1. PICK i \in 1..Len(q) : x = q[i]
    BY DEF Elems
  <2>2. i - 1 \in 1..Len(t) /\ t[i - 1] = q[i - 1 + 1]
    BY <1>1, <1>5, <2>1
  <2>3. i - 1 + 1 = i
    BY <1>1, <2>1
  <2> QED
    BY <2>1, <2>2, <2>3 DEF Elems
<1> HIDE DEF t, h
<1>6. Elems(t) = Elems(q) \ {h}
  BY <1>4, <1>5
<1> QED
  BY <1>1, <1>2, <1>3, <1>6 DEF t, h

LEMMA AppendElems ==
  ASSUME NEW S, NEW q \in Seq(S), NEW e \in S
  PROVE  /\ Append(q, e) \in Seq(S) /\ Len(Append(q, e)) = Len(q) + 1
         /\ Elems(Append(q, e)) = Elems(q) \cup {e}
         /\ Distinct(q) /\ e \notin Elems(q) => Distinct(Append(q, e))
<1> DEFINE n == Len(q)  a == Append(q, e)
<1>1. /\ n \in Nat /\ a \in Seq(S) /\ Len(a) = n + 1 /\ a[n + 1] = e
      /\ \A i \in 1..n : a[i] = q[i]
  OBVIOUS
<1> HIDE DEF a, n
<1>2. Elems(a) = {a[i] : i \in 1..n} \cup {a[n + 1]}
  BY <1>1 DEF Elems
<1>3. Elems(q) = {q[i] : i \in 1..n}
  BY DEF Elems, n
<1>4. Elems(a) = Elems(q) \cup {e}
  BY <1>1, <1>2, <1>3
<1>5. ASSUME Distinct(q), e \notin Elems(q) PROVE Distinct(a)
  <2> SUFFICES ASSUME NEW i \in 1..(n + 1), NEW j \in 1..(n + 1), a[i] = a[j]
               PROVE  i = j
    BY <1>1 DEF Distinct
  <2>1. \A k \in 1..n : a[k] # e
    BY <1>1, <1>3, <1>5
  <2>2. (i = n + 1 \/ i \in 1..n) /\ (j = n + 1 \/ j \in 1..n)
    BY <1>1
  <2>3. i \in 1..n /\ j \in 1..n => i = j
    BY <1>1, <1>5 DEF Distinct, n
  <2> QED
    BY <1>1, <2>1, <2>2, <2>3
<1> QED
  BY <1>1, <1>4, <1>5 DEF a, n

\* Cutting a sequence in two.
LEMMA SplitElems ==
  ASSUME NEW S, NEW q \in Seq(S), NEW n \in 0..Len(q), Distinct(q)
  PROVE  LET a == SubSeq(q, 1, n)
             b == SubSeq(q, n + 1, Len(q))
         IN  /\ b \in Seq(S) /\ Len(b) = Len(q) - n
             /\ Distinct(b)
             /\ Elems(a) \cap Elems(b) = {}
             /\ Elems(a) \cup Elems(b) = Elems(q)
<1> DEFINE m == Len(q)
           a == SubSeq(q, 1, n)
           b == SubSeq(q, n + 1, m)
<1>1. /\ m \in Nat /\ n \in Nat /\ n <= m
      /\ b \in Seq(S) /\ Len(a) = n /\ Len(b) = m - n
      /\ \A i \in 1..n : a[i] = q[i]
      /\ \A i \in 1..(m - n) : b[i] = q[n + i]
  OBVIOUS
<1> HIDE DEF a, b
<1>2. Elems(a) = {q[i] : i \in 1..n}
  BY <1>1 DEF Elems
<1>3. Elems(b) = {q[i] : i \in (n + 1)..m}
  <2>1. ASSUME NEW x \in Elems(b) PROVE x \in {q[i] : i \in (n + 1)..m}
    <3>1. PICK i \in 1..(m - n) : x = b[i]
      BY <1>1 DEF Elems
    <3>2. n + i \in (n + 1)..m /\ x = q[n + i]
      BY <1>1, <3>1
    <3> QED
      BY <3>2
  <2>2. ASSUME NEW i \in (n + 1)..m PROVE q[i] \in Elems(b)
    <3>1. i - n \in 1..(m - n) /\ n + (i - n) = i
      BY <1>1
    <3>2. b[i - n] = q[i]
      BY <1>1, <3>1
    <3> QED
      BY <1>1, <3>1, <3>2 DEF Elems
  <2> QED
    BY <2>1, <2>2
<1>4. Elems(q) = {q[i] : i \in 1..m}
  BY DEF Elems
<1>5. 1..m = (1..n) \cup ((n + 1)..m) /\ (1..n) \cap ((n + 1)..m) = {}
  BY <1>1
<1>6. \A i, j \in 1..m : q[i] = q[j] => i = j
  BY DEF Distinct
<1> HIDE DEF m
<1>7. Elems(a) \cup Elems(b) = Elems(q)
  BY <1>2, <1>3, <1>4, <1>5
<1>8. Elems(a) \cap Elems(b) = {}
  BY <1>2, <1>3, <1>5, <1>6
<1>9. Distinct(b)
  <2> SUFFICES ASSUME NEW i \in 1..(m - n), NEW j \in 1..(m - n), b[i] = b[j]
               PROVE  i = j
    BY <1>1 DEF Distinct
  <2>1. n + i \in 1..m /\ n + j \in 1..m /\ q[n + i] = q[n + j]
    BY <1>1
  <2>2. n + i = n + j
    BY <1>6, <2>1
  <2> QED
    BY <1>1, <2>2
<1> QED
  BY <1>1, <1>7, <1>8, <1>9 DEF a, b, m

-----------------------------------------------------------------------------
(* Holders, and what they exchange *)

Holders == ({"queue"} \X Workers) \cup ({"rest", "wire"} \X Sessions)

\* What each holder holds, given the queues and the sessions.
Contents(queue, sess) ==
  [h \in Holders |->
     IF h[1] = "queue" THEN queue[h[2]]
     ELSE IF h[1] = "rest" THEN sess[h[2]].rest ELSE sess[h[2]].wire]

Held(C) == UNION {Elems(C[h]) : h \in Holders}

Apart(C) ==
  /\ \A h \in Holders : Distinct(C[h])
  /\ \A h, g \in Holders : h # g => Elems(C[h]) \cap Elems(C[g]) = {}

LEMMA HolderCases ==
  ASSUME NEW Q, NEW S
  PROVE  LET C == Contents(Q, S)
         IN  /\ \A w \in Workers : <<"queue", w>> \in Holders /\ C[<<"queue", w>>] = Q[w]
             /\ \A s \in Sessions :
                  /\ <<"rest", s>> \in Holders /\ C[<<"rest", s>>] = S[s].rest
                  /\ <<"wire", s>> \in Holders /\ C[<<"wire", s>>] = S[s].wire
             /\ \A h \in Holders :
                  \/ \E w \in Workers : h = <<"queue", w>>
                  \/ \E s \in Sessions : h = <<"rest", s>>
                  \/ \E s \in Sessions : h = <<"wire", s>>
BY DEF Contents, Holders

\* Two holders (or one) exchange what they hold, and take in something new.
Exchange(C, D, h, g, new) ==
  /\ \A k \in Holders : k # h /\ k # g => D[k] = C[k]
  /\ Distinct(D[h]) /\ Distinct(D[g])
  /\ h # g => Elems(D[h]) \cap Elems(D[g]) = {}
  /\ Elems(D[h]) \cup Elems(D[g]) \subseteq Elems(C[h]) \cup Elems(C[g]) \cup new

LEMMA Change ==
  ASSUME NEW C, NEW D, NEW h \in Holders, NEW g \in Holders, NEW new,
         Apart(C), new \cap Held(C) = {}, Exchange(C, D, h, g, new)
  PROVE  /\ Apart(D)
         /\ \A x : x \in Held(D) <=>
              \/ x \in Held(C) /\ x \notin Elems(C[h]) /\ x \notin Elems(C[g])
              \/ x \in Elems(D[h])
              \/ x \in Elems(D[g])
<1> DEFINE both == Elems(D[h]) \cup Elems(D[g])
           old == Elems(C[h]) \cup Elems(C[g])
<1> USE DEF Exchange
<1>1. \A k \in Holders : k # h /\ k # g => Elems(D[k]) = Elems(C[k])
  BY DEF Elems
<1>2. \A k \in Holders : k # h /\ k # g => Elems(C[k]) \cap old = {}
  BY DEF Apart
<1>3. \A k \in Holders : Elems(C[k]) \subseteq Held(C)
  BY DEF Held
<1>4. \A k \in Holders : k # h /\ k # g => Elems(D[k]) \cap both = {}
  BY <1>1, <1>2, <1>3
<1>5. \A k \in Holders : Distinct(D[k])
  BY DEF Apart
<1>6. ASSUME NEW k \in Holders, NEW l \in Holders, k # l
      PROVE  Elems(D[k]) \cap Elems(D[l]) = {}
  <2>1. CASE k \notin {h, g} /\ l \notin {h, g}
    BY <1>1, <1>6, <2>1 DEF Apart
  <2>2. CASE k \notin {h, g} /\ l \in {h, g}
    BY <1>4, <2>2
  <2>3. CASE k \in {h, g} /\ l \notin {h, g}
    BY <1>4, <2>3
  <2>4. CASE k \in {h, g} /\ l \in {h, g}
    BY <1>6, <2>4
  <2> QED
    BY <2>1, <2>2, <2>3, <2>4
<1>7. Apart(D)
  BY <1>5, <1>6 DEF Apart
<1>8. ASSUME NEW x PROVE x \in Held(D) <=> (x \in Held(C) \ old) \/ x \in both
  <2>1. ASSUME NEW k \in Holders, x \in Elems(D[k])
        PROVE  (x \in Held(C) \ old) \/ x \in both
    BY <1>1, <1>2, <1>3, <2>1
  <2>2. ASSUME NEW k \in Holders, x \in Elems(C[k]), x \notin old
        PROVE  x \in Elems(D[k])
    BY <1>1, <2>2
  <2> QED
    BY <2>1, <2>2 DEF Held
<1> QED
  BY <1>7, <1>8

-----------------------------------------------------------------------------
(* Types, and what the program counters say *)

\* What the program counters say of the other fields.
HandlersFit ==
  \A e \in Envelopes :
    /\ dispatch[e].pc # "idle" => dispatch[e].worker \in Workers
    /\ dispatch[e].pc = "write" => dispatch[e].to \in Sessions

SessionsFit ==
  \A s \in Sessions :
    /\ session[s].pc # "free" => session[s].worker \in Workers
    /\ session[s].pc \in {"free", "hello", "registered"} => session[s].rest = <<>>
    /\ session[s].pc = "free" => session[s].wire = <<>> /\ ~session[s].peer

Fits == TypeOK /\ HandlersFit /\ SessionsFit

LEMMA FitsInit == Init => Fits
<1> SUFFICES ASSUME Init PROVE Fits
  OBVIOUS
<1> USE ControlChannelAssumption DEF Init
<1>1. <<>> \in Seq(Envelopes) /\ Len(<<>>) = 0
  OBVIOUS
<1>2. \A w \in Workers : Len(workerQueue[w]) <= MaxQueue
  BY <1>1
<1>3. dispatch \in [Envelopes -> Handler]
  BY DEF Handler
<1>4. session \in [Sessions -> Session]
  BY <1>1 DEF Session, FreeSession
<1>5. TypeOK
  BY <1>1, <1>2, <1>3, <1>4 DEF TypeOK
<1> QED
  BY <1>5 DEF Fits, HandlersFit, SessionsFit, FreeSession

LEMMA EnqueueTypes ==
  ASSUME TypeOK, NEW w \in Workers, NEW e \in Envelopes, enqueueControl(w, e),
         Distinct(workerQueue[w]), e \notin Elems(workerQueue[w])
  PROVE  LET q == workerQueue'[w]
             gone == Elems(workerQueue[w]) \cup {e}
         IN  /\ workerQueue' \in [Workers -> Seq(Envelopes)]
             /\ \A v \in Workers : Len(workerQueue'[v]) <= MaxQueue
             /\ \A v \in Workers : v # w => workerQueue'[v] = workerQueue[v]
             /\ Distinct(q)
             /\ Elems(q) \subseteq gone
             /\ lost' = lost \cup (gone \ Elems(q))
<1> DEFINE a == Append(workerQueue[w], e)
           n == Overflow(a)
           b == SubSeq(a, n + 1, Len(a))
           cut == SubSeq(a, 1, n)
<1>1. workerQueue[w] \in Seq(Envelopes)
  BY DEF TypeOK
<1>2. /\ a \in Seq(Envelopes) /\ Distinct(a)
      /\ Elems(a) = Elems(workerQueue[w]) \cup {e}
  BY <1>1, AppendElems
<1>3. n \in 0..Len(a) /\ Len(a) - n <= MaxQueue
  <2>1. Len(a) \in Nat /\ MaxQueue \in Nat
    BY <1>2, ControlChannelAssumption
  <2> HIDE DEF a
  <2> QED
    BY <2>1 DEF Overflow
<1>4. workerQueue' = [workerQueue EXCEPT ![w] = b] /\ lost' = lost \cup Elems(cut)
  BY DEF enqueueControl
<1> HIDE DEF a, n
<1>5. /\ b \in Seq(Envelopes) /\ Len(b) = Len(a) - n /\ Distinct(b)
      /\ Elems(cut) \cap Elems(b) = {} /\ Elems(cut) \cup Elems(b) = Elems(a)
  BY <1>2, <1>3, SplitElems
<1> HIDE DEF b, cut
<1>6. workerQueue' \in [Workers -> Seq(Envelopes)] /\ workerQueue'[w] = b
      /\ \A v \in Workers : v # w => workerQueue'[v] = workerQueue[v]
  BY <1>4, <1>5 DEF TypeOK
<1>7. \A v \in Workers : Len(workerQueue'[v]) <= MaxQueue
  BY <1>3, <1>5, <1>6 DEF TypeOK
<1> QED
  BY <1>2, <1>4, <1>5, <1>6, <1>7

\* What a poll does to the queue: some of it is handed over, some is given up.
Polled(w) ==
  \E batch, gone \in SUBSET Elems(workerQueue[w]) :
    /\ workerQueue' \in [Workers -> Seq(Envelopes)]
    /\ \A v \in Workers : Len(workerQueue'[v]) <= MaxQueue
    /\ \A v \in Workers : v # w => workerQueue'[v] = workerQueue[v]
    /\ Distinct(workerQueue'[w])
    /\ batch \cap gone = {}
    /\ Elems(workerQueue'[w]) = Elems(workerQueue[w]) \ (batch \cup gone)
    /\ received' = [received EXCEPT ![w] = @ \cup batch]
    /\ lost' = lost \cup gone

LEMMA PollTypes ==
  ASSUME TypeOK, NEW w \in Workers, NEW last, NEW arrives \in BOOLEAN,
         handleWorkerPoll(w, last, arrives), Distinct(workerQueue[w])
  PROVE  Polled(w)
<1> DEFINE q == workerQueue[w]
           P == {i \in DOMAIN q : dispatch[q[i]].seq > last}
           new == EntriesAt(q, P)
           n == IF Len(new) < PollMax THEN Len(new) ELSE PollMax
           out == Elems(SubSeq(new, 1, n))
           left == SubSeq(new, n + 1, Len(new))
           acked == Elems(q) \ Elems(new)
           batch == IF arrives THEN out ELSE {}
           gone == acked \cup (IF arrives THEN {} ELSE out)
<1>1. q \in Seq(Envelopes) /\ Len(q) <= MaxQueue /\ Len(q) \in Nat
      /\ DOMAIN q = 1..Len(q)
  BY DEF TypeOK
<1>2. P \in SUBSET (1..Len(q))
  BY <1>1
<1>3. new = Unacked(w, last)
  BY DEF Unacked
<1>4. /\ workerQueue' = [workerQueue EXCEPT ![w] = left]
      /\ received' = [received EXCEPT ![w] = IF arrives THEN @ \cup out ELSE @]
      /\ lost' = lost \cup acked \cup (IF arrives THEN {} ELSE out)
  BY <1>3 DEF handleWorkerPoll
<1> HIDE DEF P
<1>5. /\ new \in Seq(Envelopes) /\ Len(new) <= Len(q) /\ Distinct(new)
      /\ Elems(new) \subseteq Elems(q)
  BY <1>1, <1>2, EntriesKept
<1> HIDE DEF new
<1>6. n \in 0..Len(new)
  <2>1. Len(new) \in Nat
    BY <1>5
  <2> QED
    BY <2>1, ControlChannelAssumption
<1> HIDE DEF n
<1>7. /\ left \in Seq(Envelopes) /\ Len(left) = Len(new) - n /\ Distinct(left)
      /\ out \cap Elems(left) = {} /\ out \cup Elems(left) = Elems(new)
  BY <1>5, <1>6, SplitElems
<1> HIDE DEF out, left
<1>8. /\ workerQueue' \in [Workers -> Seq(Envelopes)]
      /\ workerQueue'[w] = left
      /\ \A v \in Workers : v # w => workerQueue'[v] = workerQueue[v]
  BY <1>4, <1>7 DEF TypeOK
<1>9. \A v \in Workers : Len(workerQueue'[v]) <= MaxQueue
  <2>1. Len(left) <= MaxQueue
    <3>1. Len(new) \in Nat /\ MaxQueue \in Nat /\ n \in Nat
      BY <1>5, <1>6, ControlChannelAssumption
    <3> HIDE DEF q
    <3> QED
      BY <1>1, <1>5, <1>6, <1>7, <3>1
  <2> QED
    BY <1>8, <2>1 DEF TypeOK
<1>10. batch \in SUBSET Elems(q) /\ gone \in SUBSET Elems(q)
  BY <1>5, <1>7
<1>11. batch \cap gone = {} /\ Elems(left) = Elems(q) \ (batch \cup gone)
  BY <1>5, <1>7
<1>12. received' = [received EXCEPT ![w] = @ \cup batch]
  <2>1. received \in [Workers -> SUBSET Envelopes]
    BY DEF TypeOK
  <2>2. CASE arrives
    BY <1>4, <2>2
  <2>3. CASE ~arrives
    BY <1>4, <2>1, <2>3
  <2> QED
    BY <2>2, <2>3
<1>13. lost' = lost \cup gone
  BY <1>4
<1> HIDE DEF batch, gone, q
<1> QED
  BY <1>7, <1>8, <1>9, <1>10, <1>11, <1>12, <1>13 DEF q, Polled

contents == Contents(workerQueue, session)

Pending == {e \in Envelopes : WithHandler(e)}
Flight == Pending \cup Held(contents)

OnePlace == Apart(contents) /\ Pending \cap Held(contents) = {}

LEMMA PlaceFacts ==
  ASSUME Fits, OnePlace
  PROVE  /\ \A w \in Workers :
              /\ workerQueue[w] \in Seq(Envelopes)
              /\ Distinct(workerQueue[w])
              /\ Elems(workerQueue[w]) \subseteq Held(contents)
         /\ \A s \in Sessions :
              /\ session[s].rest \in Seq(Envelopes)
              /\ session[s].wire \in Seq(Envelopes)
              /\ Distinct(session[s].rest)
              /\ Distinct(session[s].wire)
              /\ Elems(session[s].rest) \subseteq Held(contents)
              /\ Elems(session[s].wire) \subseteq Held(contents)
         /\ \A s \in Sessions, w \in Workers :
              Elems(session[s].rest) \cap Elems(workerQueue[w]) = {}
         /\ \A s \in Sessions :
              Elems(session[s].rest) \cap Elems(session[s].wire) = {}
         /\ Held(contents) \subseteq Envelopes
<1> DEFINE C == contents
<1>1. /\ \A w \in Workers : <<"queue", w>> \in Holders /\ C[<<"queue", w>>] = workerQueue[w]
      /\ \A s \in Sessions :
           /\ <<"rest", s>> \in Holders /\ C[<<"rest", s>>] = session[s].rest
           /\ <<"wire", s>> \in Holders /\ C[<<"wire", s>>] = session[s].wire
      /\ \A h \in Holders :
           \/ \E w \in Workers : h = <<"queue", w>>
           \/ \E s \in Sessions : h = <<"rest", s>>
           \/ \E s \in Sessions : h = <<"wire", s>>
  BY HolderCases DEF contents
<1>2. /\ \A w \in Workers : workerQueue[w] \in Seq(Envelopes)
      /\ \A s \in Sessions : /\ session[s].rest \in Seq(Envelopes)
                             /\ session[s].wire \in Seq(Envelopes)
  BY DEF Fits, TypeOK, Session
<1>3. \A q \in Seq(Envelopes) : Elems(q) \subseteq Envelopes
  BY DEF Elems
<1>4. \A h \in Holders : C[h] \in Seq(Envelopes)
  <2> HIDE DEF C
  <2> SUFFICES ASSUME NEW h \in Holders PROVE C[h] \in Seq(Envelopes)
    OBVIOUS
  <2>1. CASE \E w \in Workers : h = <<"queue", w>>
    BY <1>1, <1>2, <2>1
  <2>2. CASE \E s \in Sessions : h = <<"rest", s>>
    BY <1>1, <1>2, <2>2
  <2>3. CASE \E s \in Sessions : h = <<"wire", s>>
    BY <1>1, <1>2, <2>3
  <2> QED
    BY <1>1, <2>1, <2>2, <2>3
<1>5. Held(C) \subseteq Envelopes
  BY <1>3, <1>4 DEF Held
<1>6. \A h \in Holders : Distinct(C[h]) /\ Elems(C[h]) \subseteq Held(C)
  BY DEF OnePlace, Apart, Held
<1>7. \A s \in Sessions, w \in Workers : <<"rest", s>> # <<"queue", w>>
  OBVIOUS
<1>8. \A s \in Sessions : <<"rest", s>> # <<"wire", s>>
  OBVIOUS
<1>9. \A h, g \in Holders : h # g => Elems(C[h]) \cap Elems(C[g]) = {}
  BY DEF OnePlace, Apart
<1> HIDE DEF C
<1>10. /\ \A s \in Sessions, w \in Workers :
              Elems(session[s].rest) \cap Elems(workerQueue[w]) = {}
       /\ \A s \in Sessions :
              Elems(session[s].rest) \cap Elems(session[s].wire) = {}
  BY <1>1, <1>7, <1>8, <1>9
<1>11. /\ \A w \in Workers : Distinct(workerQueue[w]) /\ Elems(workerQueue[w]) \subseteq Held(C)
       /\ \A s \in Sessions :
              /\ Distinct(session[s].rest)
              /\ Distinct(session[s].wire)
              /\ Elems(session[s].rest) \subseteq Held(C)
              /\ Elems(session[s].wire) \subseteq Held(C)
  BY <1>1, <1>6
<1> QED
  BY <1>2, <1>5, <1>10, <1>11 DEF C

LEMMA NumberFits ==
  ASSUME Fits, NEW e \in Envelopes, NEW w \in Workers, Number(e, w),
         UNCHANGED <<workers, workerQueue, runs, session, received, lost>>
  PROVE  Fits'
<1> USE DEF Fits
<1>1. /\ dispatch' \in [Envelopes -> Handler]
      /\ seqCounter' \in Nat
  <2>1. seqCounter \in Nat /\ dispatch[e] \in Handler
    BY DEF TypeOK
  <2>2. seqCounter' = seqCounter + 1 /\ seqCounter' \in Nat
    BY <2>1 DEF Number
  <2>3. [dispatch[e] EXCEPT !.pc = "lookup", !.worker = w, !.seq = seqCounter'] \in Handler
    BY <2>1, <2>2 DEF Handler
  <2>4. dispatch' = [dispatch EXCEPT ![e] =
          [dispatch[e] EXCEPT !.pc = "lookup", !.worker = w, !.seq = seqCounter']]
    BY <2>2 DEF Number, TypeOK
  <2> QED
    BY <2>2, <2>3, <2>4 DEF TypeOK
<1>2. TypeOK'
  BY <1>1 DEF TypeOK
<1>3. HandlersFit'
  BY DEF HandlersFit, Number, TypeOK
<1>4. SessionsFit'
  BY DEF SessionsFit
<1> QED
  BY <1>2, <1>3, <1>4

LEMMA RunEnvelope == \A st \in Streams : <<st, 0>> \in Envelopes
BY ControlChannelAssumption DEF Envelopes

\* The steps of the handlers of requests.
LEMMA HandlerFits ==
  ASSUME Fits, OnePlace, NEW e \in Envelopes, Lookup(e) \/ Write(e) \/ Enqueue(e)
  PROVE  Fits'
<1> USE DEF Fits
<1>1. CASE Lookup(e)
  <2>1. dispatch[e].worker \in Workers
    BY <1>1 DEF Lookup, HandlersFit
  <2>2. workers[dispatch[e].worker] \in Sessions \cup {None}
    BY <2>1 DEF TypeOK
  <2>3. dispatch' \in [Envelopes -> Handler]
    <3>1. dispatch \in [Envelopes -> Handler] /\ dispatch[e] \in Handler
      BY DEF TypeOK
    <3>2. PICK to \in Sessions \cup {None}, pc \in {"write", "enqueue"} :
            dispatch' = [dispatch EXCEPT ![e].to = to, ![e].pc = pc]
      BY <1>1, <2>2 DEF Lookup
    <3>3. [dispatch[e] EXCEPT !.to = to, !.pc = pc] \in Handler
      BY <3>1 DEF Handler
    <3> QED
      BY <3>1, <3>2, <3>3
  <2>4. TypeOK'
    BY <1>1, <2>3 DEF TypeOK, Lookup
  <2>5. HandlersFit'
    BY <1>1, <2>2 DEF HandlersFit, Lookup, TypeOK
  <2>6. SessionsFit'
    BY <1>1 DEF SessionsFit, Lookup
  <2> QED
    BY <2>4, <2>5, <2>6
<1>2. CASE Write(e)
  <2> DEFINE s == dispatch[e].to
  <2>1. s \in Sessions
    BY <1>2 DEF Write, HandlersFit
  <2>2. PICK ok \in BOOLEAN :
          /\ writeWorkerEnvelope(s, e, ok)
          /\ session' = [session EXCEPT ![s] = Sent(s, e, ok)]
          /\ dispatch' = [dispatch EXCEPT
               ![e].pc = IF ok THEN Returned(e) ELSE "enqueue", ![e].to = None]
    BY <1>2 DEF Write
  <2>3. UNCHANGED <<workers, workerQueue, runs, seqCounter, received>>
    BY <1>2 DEF Write
  <2>4. session[s] \in Session /\ dispatch[e] \in Handler
    BY <2>1 DEF TypeOK
  <2> HIDE DEF s
  <2>5. /\ Sent(s, e, ok) \in Session
        /\ Sent(s, e, ok).pc = session[s].pc
        /\ Sent(s, e, ok).worker = session[s].worker
        /\ Sent(s, e, ok).rest = session[s].rest
        /\ Sent(s, e, ok).peer = session[s].peer
        /\ ~session[s].peer => Sent(s, e, ok).wire = session[s].wire
    <3>1. /\ session[s].wire \in Seq(Envelopes)
          /\ Append(session[s].wire, e) \in Seq(Envelopes)
      BY <2>4 DEF Session
    <3> QED
      BY <2>4, <3>1 DEF Sent, Session
  <2>6. session' \in [Sessions -> Session]
    BY <2>1, <2>2, <2>5 DEF TypeOK
  <2>7. dispatch' \in [Envelopes -> Handler]
    BY <2>2, <2>4 DEF TypeOK, Handler, Returned
  <2>8. lost' \in SUBSET Envelopes
    BY <2>2 DEF TypeOK, writeWorkerEnvelope
  <2>9. TypeOK'
    BY <2>3, <2>6, <2>7, <2>8 DEF TypeOK
  <2>10. HandlersFit'
    <3>1. dispatch[e].pc = "write" /\ dispatch[e].worker \in Workers
      BY <1>2 DEF Write, HandlersFit
    <3>2. /\ \A f \in Envelopes : f # e => dispatch'[f] = dispatch[f]
          /\ dispatch'[e].worker = dispatch[e].worker
          /\ dispatch'[e].pc # "write"
      BY <2>2, <2>4 DEF TypeOK, Returned, Handler
    <3> QED
      BY <3>1, <3>2 DEF HandlersFit
  <2>11. SessionsFit'
    BY <2>1, <2>2, <2>5 DEF SessionsFit, TypeOK
  <2> QED
    BY <2>9, <2>10, <2>11
<1>3. CASE Enqueue(e)
  <2> DEFINE w == dispatch[e].worker
  <2>1. w \in Workers
    BY <1>3 DEF Enqueue, HandlersFit
  <2>2. e \in Pending
    BY <1>3 DEF Enqueue, Pending, WithHandler
  <2>3. Distinct(workerQueue[w]) /\ e \notin Elems(workerQueue[w])
        /\ Elems(workerQueue[w]) \subseteq Envelopes
    <3>1. Pending \cap Held(contents) = {}
      BY DEF OnePlace
    <3> QED
      BY <2>1, <2>2, <3>1, PlaceFacts
  <2>4. enqueueControl(w, e)
    BY <1>3 DEF Enqueue
  <2>5. /\ workerQueue' \in [Workers -> Seq(Envelopes)]
        /\ \A v \in Workers : Len(workerQueue'[v]) <= MaxQueue
        /\ lost' \in SUBSET Envelopes
    <3>1. lost \in SUBSET Envelopes
      BY DEF TypeOK
    <3> QED
      BY <2>1, <2>3, <2>4, <3>1, EnqueueTypes
  <2>6. dispatch' \in [Envelopes -> Handler]
    <3>1. dispatch \in [Envelopes -> Handler] /\ dispatch[e] \in Handler
      BY DEF TypeOK
    <3>2. Returned(e) \in {"record", "done"}
      BY DEF Returned
    <3>3. [dispatch[e] EXCEPT !.pc = Returned(e)] \in Handler
      BY <3>1, <3>2 DEF Handler
    <3>4. dispatch' = [dispatch EXCEPT ![e] = [dispatch[e] EXCEPT !.pc = Returned(e)]]
      BY <1>3 DEF Enqueue
    <3> QED
      BY <3>1, <3>3, <3>4
  <2>7. TypeOK'
    BY <1>3, <2>5, <2>6 DEF TypeOK, Enqueue
  <2>8. HandlersFit'
    BY <1>3 DEF HandlersFit, TypeOK, Returned, Enqueue
  <2>9. SessionsFit'
    BY <1>3 DEF SessionsFit, Enqueue
  <2> QED
    BY <2>7, <2>8, <2>9
<1> QED
  BY <1>1, <1>2, <1>3

LEMMA RunFits ==
  ASSUME Fits, NEW st \in Streams,
         DispatchRun(st) \/ DispatchCancel(st) \/ RecordRun(st) \/ ForgetRun(st)
  PROVE  Fits'
<1>1. CASE DispatchRun(st)
  <2>1. PICK w \in Workers : Number(<<st, 0>>, w)
    BY <1>1 DEF DispatchRun
  <2> QED
    BY <1>1, <2>1, RunEnvelope, NumberFits DEF DispatchRun
<1>2. CASE DispatchCancel(st)
  <2>1. runs[st] \in Workers
    BY <1>2 DEF DispatchCancel, Fits, TypeOK
  <2>2. PICK k \in 1..MaxCancels : Number(<<st, k>>, runs[st])
    BY <1>2 DEF DispatchCancel
  <2>3. <<st, k>> \in Envelopes
    <3>1. k \in 0..MaxCancels
      BY ControlChannelAssumption
    <3> QED
      BY <3>1 DEF Envelopes
  <2> QED
    BY <1>2, <2>1, <2>2, <2>3, NumberFits DEF DispatchCancel
<1>3. CASE RecordRun(st)
  <2> DEFINE e == <<st, 0>>
  <2>1. e \in Envelopes
    BY RunEnvelope
  <2> HIDE DEF e
  <2>2. /\ dispatch[e].pc = "record"
        /\ runs' = [runs EXCEPT ![st] = dispatch[e].worker]
        /\ dispatch' = [dispatch EXCEPT ![e].pc = "done"]
        /\ UNCHANGED <<workers, workerQueue, seqCounter, session, received, lost>>
    BY <1>3 DEF RecordRun, e
  <2>3. dispatch' \in [Envelopes -> Handler] /\ runs' \in [Streams -> Workers \cup {None}]
    BY <2>1, <2>2 DEF Fits, TypeOK, Handler
  <2>4. TypeOK'
    BY <2>2, <2>3 DEF Fits, TypeOK
  <2>5. HandlersFit' /\ SessionsFit'
    BY <2>1, <2>2 DEF Fits, HandlersFit, SessionsFit, TypeOK
  <2> QED
    BY <2>4, <2>5 DEF Fits
<1>4. CASE ForgetRun(st)
  BY <1>4 DEF ForgetRun, Fits, TypeOK, HandlersFit, SessionsFit
<1> QED
  BY <1>1, <1>2, <1>3, <1>4

LEMMA ConnectFits ==
  ASSUME Fits, NEW s \in Sessions, NEW w \in Workers, Connect(s, w)
  PROVE  Fits'
<1> DEFINE new == [FreeSession EXCEPT !.pc = "hello", !.worker = w, !.peer = TRUE,
                                      !.writable = TRUE]
<1>1. session' = [session EXCEPT ![s] = new]
      /\ UNCHANGED <<workers, workerQueue, runs, seqCounter, dispatch, received, lost>>
  BY DEF Connect
<1>2. new \in Session /\ new.pc = "hello" /\ new.worker = w /\ new.rest = <<>>
  <2>1. <<>> \in Seq(Envelopes)
    OBVIOUS
  <2> QED
    BY <2>1 DEF FreeSession, Session
<1> HIDE DEF new
<1>3. TypeOK'
  BY <1>1, <1>2 DEF Fits, TypeOK
<1>4. SessionsFit'
  BY <1>1, <1>2 DEF Fits, SessionsFit, TypeOK
<1>5. HandlersFit'
  BY <1>1 DEF Fits, HandlersFit
<1> QED
  BY <1>3, <1>4, <1>5 DEF Fits

\* A step that gives one session a fitting new value and leaves the queues,
\* the runs and the handlers of requests.
LEMMA SessionStepFits ==
  ASSUME Fits, NEW s \in Sessions, NEW new \in Session,
         session' = [session EXCEPT ![s] = new],
         UNCHANGED <<runs, seqCounter, dispatch>>,
         session[s].pc # "free", new.pc # "free", new.worker = session[s].worker,
         new.pc \in {"hello", "registered"} => new.rest = <<>>,
         workers' \in [Workers -> Sessions \cup {None}],
         workerQueue' \in [Workers -> Seq(Envelopes)],
         \A w \in Workers : Len(workerQueue'[w]) <= MaxQueue,
         received' \in [Workers -> SUBSET Envelopes], lost' \in SUBSET Envelopes
  PROVE  Fits'
<1>1. TypeOK'
  BY DEF Fits, TypeOK
<1>2. HandlersFit'
  BY DEF Fits, HandlersFit
<1>3. SessionsFit'
  BY DEF Fits, SessionsFit, TypeOK
<1> QED
  BY <1>1, <1>2, <1>3 DEF Fits

LEMMA ServeFits ==
  ASSUME Fits, OnePlace, NEW s \in Sessions, Serve(s) \/ PeerGone(s) \/ Deliver(s)
  PROVE  Fits'
<1> DEFINE w == session[s].worker
           rest == session[s].rest
           wire == session[s].wire
<1>1. session[s] \in Session /\ session[s].pc # "free" /\ w \in Workers
  <2>1. session[s] \in Session /\ SessionsFit
    BY DEF Fits, TypeOK
  <2>2. session[s].pc # "free"
    BY <2>1 DEF SessionsFit, Serve, Register, TakeQueue, FlushNext, Requeue,
                FlushReturns, Unregister, PeerGone, Deliver
  <2> QED
    BY <2>1, <2>2 DEF SessionsFit
<1>2. /\ workers \in [Workers -> Sessions \cup {None}]
      /\ workerQueue \in [Workers -> Seq(Envelopes)]
      /\ \A v \in Workers : Len(workerQueue[v]) <= MaxQueue
      /\ received \in [Workers -> SUBSET Envelopes] /\ lost \in SUBSET Envelopes
  BY DEF Fits, TypeOK
<1>3. rest \in Seq(Envelopes) /\ wire \in Seq(Envelopes)
  BY <1>1 DEF Session
<1>4. /\ rest # <<>> => /\ Head(rest) \in Envelopes /\ Tail(rest) \in Seq(Envelopes)
                        /\ Append(wire, Head(rest)) \in Seq(Envelopes)
                        /\ Head(rest) \in Elems(rest)
      /\ wire # <<>> => Head(wire) \in Envelopes /\ Tail(wire) \in Seq(Envelopes)
      /\ Elems(wire) \subseteq Envelopes
  <2>1. Distinct(rest) /\ Distinct(wire)
    BY PlaceFacts
  <2> HIDE DEF rest, wire
  <2>2. \A q \in Seq(Envelopes) : Elems(q) \subseteq Envelopes
    BY DEF Elems
  <2>3. rest # <<>> => Head(rest) \in Envelopes /\ Tail(rest) \in Seq(Envelopes)
                        /\ Head(rest) \in Elems(rest)
    BY <1>3, <2>1, TailElems
  <2>4. rest # <<>> => Append(wire, Head(rest)) \in Seq(Envelopes)
    BY <1>3, <2>3, AppendElems
  <2> QED
    BY <1>3, <2>1, <2>2, <2>3, <2>4, TailElems
<1>5. CASE Register(s)
  <2> DEFINE new == [session[s] EXCEPT !.pc = "registered"]
  <2>1. /\ new \in Session /\ new.pc = "registered"
        /\ new.worker = session[s].worker /\ new.rest = session[s].rest
    BY <1>1 DEF Session
  <2>2. session' = [session EXCEPT ![s] = new]
    BY <1>5 DEF Register, Fits, TypeOK
  <2>3. session[s].rest = <<>>
    BY <1>5 DEF Register, Fits, SessionsFit
  <2>4. workers' \in [Workers -> Sessions \cup {None}]
    BY <1>1, <1>2, <1>5 DEF Register
  <2> HIDE DEF new
  <2> QED
    BY <1>1, <1>2, <1>5, <2>1, <2>2, <2>3, <2>4, SessionStepFits DEF Register
<1>6. CASE TakeQueue(s)
  <2> DEFINE new == [session[s] EXCEPT !.pc = "flush", !.rest = workerQueue[w]]
  <2>1. /\ new \in Session /\ new.pc = "flush" /\ new.worker = session[s].worker
    BY <1>1, <1>2 DEF Session
  <2>2. session' = [session EXCEPT ![s] = new]
    BY <1>6 DEF TakeQueue, Fits, TypeOK
  <2>3. /\ workerQueue' \in [Workers -> Seq(Envelopes)]
        /\ \A v \in Workers : Len(workerQueue'[v]) <= MaxQueue
    <3>1. <<>> \in Seq(Envelopes) /\ Len(<<>>) <= MaxQueue
      BY ControlChannelAssumption
    <3> QED
      BY <1>1, <1>2, <1>6, <3>1 DEF TakeQueue
  <2> HIDE DEF new
  <2> QED
    BY <1>1, <1>2, <1>6, <2>1, <2>2, <2>3, SessionStepFits DEF TakeQueue
<1>7. CASE FlushNext(s)
  <2> DEFINE e == Head(rest)
  <2>1. PICK ok \in BOOLEAN :
          /\ writeWorkerEnvelope(s, e, ok)
          /\ session' = [session EXCEPT ![s] =
               IF ok THEN [Sent(s, e, ok) EXCEPT !.rest = Tail(@)]
                     ELSE [Sent(s, e, ok) EXCEPT !.pc = "requeue"]]
    BY <1>7 DEF FlushNext
  <2>2. rest # <<>> /\ session[s].pc = "flush"
        /\ UNCHANGED <<workers, workerQueue, runs, seqCounter, dispatch, received>>
    BY <1>7 DEF FlushNext
  <2> DEFINE new == IF ok THEN [Sent(s, e, ok) EXCEPT !.rest = Tail(@)]
                          ELSE [Sent(s, e, ok) EXCEPT !.pc = "requeue"]
  <2>3. /\ new \in Session /\ new.pc \in {"flush", "requeue"}
        /\ new.worker = session[s].worker
    BY <1>1, <1>4, <2>2 DEF Session, Sent
  <2>4. session' = [session EXCEPT ![s] = new]
    BY <2>1
  <2>5. lost' \in SUBSET Envelopes
    BY <1>2, <1>4, <2>1, <2>2 DEF writeWorkerEnvelope
  <2> HIDE DEF new
  <2> QED
    BY <1>1, <1>2, <2>2, <2>3, <2>4, <2>5, SessionStepFits
<1>8. CASE Requeue(s)
  <2> DEFINE e == Head(rest)
             new == [session[s] EXCEPT !.rest = Tail(@)]
  <2>1. rest # <<>> /\ session[s].pc = "requeue" /\ enqueueControl(w, e)
        /\ UNCHANGED <<workers, runs, seqCounter, dispatch, received>>
    BY <1>8 DEF Requeue
  <2>2. /\ new \in Session /\ new.pc = "requeue" /\ new.worker = session[s].worker
    BY <1>1, <1>4, <2>1 DEF Session
  <2>3. session' = [session EXCEPT ![s] = new]
    BY <1>8 DEF Requeue, Fits, TypeOK
  <2>4. Distinct(workerQueue[w]) /\ e \notin Elems(workerQueue[w])
        /\ Elems(workerQueue[w]) \subseteq Envelopes
    BY <1>1, <1>4, <2>1, PlaceFacts
  <2>5. /\ workerQueue' \in [Workers -> Seq(Envelopes)]
        /\ \A v \in Workers : Len(workerQueue'[v]) <= MaxQueue
        /\ lost' \in SUBSET Envelopes
    BY <1>1, <1>2, <1>4, <2>1, <2>4, EnqueueTypes DEF Fits
  <2> HIDE DEF new
  <2> QED
    BY <1>1, <1>2, <2>1, <2>2, <2>3, <2>5, SessionStepFits
<1>9. CASE FlushReturns(s)
  <2> DEFINE new == [session[s] EXCEPT !.pc = "read"]
  <2>1. /\ new \in Session /\ new.pc = "read" /\ new.worker = session[s].worker
    BY <1>1 DEF Session
  <2>2. session' = [session EXCEPT ![s] = new]
    BY <1>9 DEF FlushReturns, Fits, TypeOK
  <2> HIDE DEF new
  <2> QED
    BY <1>1, <1>2, <1>9, <2>1, <2>2, SessionStepFits DEF FlushReturns
<1>10. CASE Unregister(s)
  <2> DEFINE new == [session[s] EXCEPT !.pc = "closed", !.writable = FALSE]
  <2>1. /\ new \in Session /\ new.pc = "closed" /\ new.worker = session[s].worker
    BY <1>1 DEF Session
  <2>2. session' = [session EXCEPT ![s] = new]
    BY <1>10 DEF Unregister, Fits, TypeOK
  <2>3. workers' \in [Workers -> Sessions \cup {None}]
    BY <1>1, <1>2, <1>10 DEF Unregister
  <2> HIDE DEF new
  <2> QED
    BY <1>1, <1>2, <1>10, <2>1, <2>2, <2>3, SessionStepFits DEF Unregister
<1>11. CASE PeerGone(s)
  <2> DEFINE new == [session[s] EXCEPT !.peer = FALSE, !.wire = <<>>]
  <2>1. /\ new \in Session /\ new.pc = session[s].pc /\ new.rest = session[s].rest
        /\ new.worker = session[s].worker
    <3>1. <<>> \in Seq(Envelopes)
      OBVIOUS
    <3> QED
      BY <1>1, <3>1 DEF Session
  <2>2. session' = [session EXCEPT ![s] = new]
    BY <1>11 DEF PeerGone, Fits, TypeOK
  <2>3. new.pc \in {"hello", "registered"} => new.rest = <<>>
    BY <2>1 DEF Fits, SessionsFit
  <2>4. lost' \in SUBSET Envelopes
    BY <1>2, <1>4, <1>11 DEF PeerGone
  <2> HIDE DEF new
  <2> QED
    BY <1>1, <1>2, <1>11, <2>1, <2>2, <2>3, <2>4, SessionStepFits DEF PeerGone
<1>12. CASE Deliver(s)
  <2> DEFINE new == [session[s] EXCEPT !.wire = Tail(@)]
  <2>0. wire # <<>>
    BY <1>12 DEF Deliver
  <2>1. /\ new \in Session /\ new.pc = session[s].pc /\ new.rest = session[s].rest
        /\ new.worker = session[s].worker
    BY <1>1, <1>4, <2>0 DEF Session
  <2>2. session' = [session EXCEPT ![s] = new]
    BY <1>12 DEF Deliver, Fits, TypeOK
  <2>3. new.pc \in {"hello", "registered"} => new.rest = <<>>
    BY <2>1 DEF Fits, SessionsFit
  <2>4. received' \in [Workers -> SUBSET Envelopes]
    BY <1>1, <1>2, <1>4, <1>12, <2>0 DEF Deliver
  <2> HIDE DEF new
  <2> QED
    BY <1>1, <1>2, <1>12, <2>1, <2>2, <2>3, <2>4, SessionStepFits DEF Deliver
<1> QED
  BY <1>5, <1>6, <1>7, <1>8, <1>9, <1>10, <1>11, <1>12 DEF Serve

LEMMA PollFits ==
  ASSUME Fits, OnePlace, NEW w \in Workers, Poll(w)
  PROVE  Fits'
<1>1. PICK last \in LastSeqs(w), arrives \in BOOLEAN : handleWorkerPoll(w, last, arrives)
  BY DEF Poll
<1>2. PICK batch \in SUBSET Elems(workerQueue[w]), gone \in SUBSET Elems(workerQueue[w]) :
           /\ workerQueue' \in [Workers -> Seq(Envelopes)]
           /\ \A v \in Workers : Len(workerQueue'[v]) <= MaxQueue
           /\ \A v \in Workers : v # w => workerQueue'[v] = workerQueue[v]
           /\ Distinct(workerQueue'[w])
           /\ batch \cap gone = {}
           /\ Elems(workerQueue'[w]) = Elems(workerQueue[w]) \ (batch \cup gone)
           /\ received' = [received EXCEPT ![w] = @ \cup batch]
           /\ lost' = lost \cup gone
  <2>1. TypeOK /\ Distinct(workerQueue[w])
    BY PlaceFacts DEF Fits
  <2>2. Polled(w)
    BY <1>1, <2>1, PollTypes
  <2> QED
    BY <2>2 DEF Polled
<1>3. Elems(workerQueue[w]) \subseteq Envelopes
  BY PlaceFacts
<1>4. received' \in [Workers -> SUBSET Envelopes] /\ lost' \in SUBSET Envelopes
  BY <1>2, <1>3 DEF Fits, TypeOK
<1>5. UNCHANGED <<workers, runs, seqCounter, dispatch, session>>
  BY <1>1 DEF handleWorkerPoll
<1>6. TypeOK'
  BY <1>2, <1>4, <1>5 DEF Fits, TypeOK
<1> QED
  BY <1>5, <1>6 DEF Fits, HandlersFit, SessionsFit

LEMMA FitsNext == Fits /\ OnePlace /\ [Next]_vars => Fits'
<1> SUFFICES ASSUME Fits, OnePlace, [Next]_vars PROVE Fits'
  OBVIOUS
<1>1. CASE \E st \in Streams :
             DispatchRun(st) \/ DispatchCancel(st) \/ RecordRun(st) \/ ForgetRun(st)
  BY <1>1, RunFits
<1>2. CASE \E e \in Envelopes : Handlers(e)
  BY <1>2, HandlerFits DEF Handlers
<1>3. CASE \E s \in Sessions, w \in Workers : Connect(s, w)
  BY <1>3, ConnectFits
<1>4. CASE \E s \in Sessions : Serve(s) \/ PeerGone(s) \/ Deliver(s)
  BY <1>4, ServeFits
<1>5. CASE \E w \in Workers : Poll(w)
  BY <1>5, PollFits
<1>6. CASE UNCHANGED vars
  BY <1>6 DEF vars, Fits, TypeOK, HandlersFit, SessionsFit
<1> QED
  BY <1>1, <1>2, <1>3, <1>4, <1>5, <1>6 DEF Next

-----------------------------------------------------------------------------
(* What moves in a step *)

LEMMA HoldersNext ==
  /\ \A w \in Workers :
       /\ <<"queue", w>> \in Holders
       /\ contents[<<"queue", w>>] = workerQueue[w]
       /\ contents'[<<"queue", w>>] = workerQueue'[w]
  /\ \A s \in Sessions :
       /\ <<"rest", s>> \in Holders
       /\ <<"wire", s>> \in Holders
       /\ contents[<<"rest", s>>] = session[s].rest
       /\ contents'[<<"rest", s>>] = session'[s].rest
       /\ contents[<<"wire", s>>] = session[s].wire
       /\ contents'[<<"wire", s>>] = session'[s].wire
  /\ \A h \in Holders :
       \/ \E w \in Workers : h = <<"queue", w>>
       \/ \E s \in Sessions : h = <<"rest", s>>
       \/ \E s \in Sessions : h = <<"wire", s>>
<1>1. contents = Contents(workerQueue, session)
      /\ contents' = Contents(workerQueue', session')
  BY DEF contents
<1> QED
  BY <1>1, HolderCases

\* Nothing is held where nothing is queued, left over or on a wire.
LEMMA NothingHeld ==
  ASSUME \A w \in Workers : workerQueue[w] = <<>>,
         \A s \in Sessions : session[s].rest = <<>> /\ session[s].wire = <<>>,
         NEW h \in Holders
  PROVE  contents[h] = <<>>
<1>1. CASE \E w \in Workers : h = <<"queue", w>>
  <2>1. PICK w \in Workers : h = <<"queue", w>>
    BY <1>1
  <2> QED
    BY <2>1, HoldersNext
<1>2. CASE \E s \in Sessions : h = <<"rest", s>>
  <2>1. PICK s \in Sessions : h = <<"rest", s>>
    BY <1>2
  <2> QED
    BY <2>1, HoldersNext
<1>3. CASE \E s \in Sessions : h = <<"wire", s>>
  <2>1. PICK s \in Sessions : h = <<"wire", s>>
    BY <1>3
  <2> QED
    BY <2>1, HoldersNext
<1> QED
  BY <1>1, <1>2, <1>3, HoldersNext

\* What a holder holds is kept by a step that does not touch it.
LEMMA KeptBy ==
  ASSUME NEW k \in Holders,
         \A w \in Workers : k = <<"queue", w>> => workerQueue'[w] = workerQueue[w],
         \A s \in Sessions :
           /\ k = <<"rest", s>> => session'[s].rest = session[s].rest
           /\ k = <<"wire", s>> => session'[s].wire = session[s].wire
  PROVE  contents'[k] = contents[k]
<1>1. CASE \E w \in Workers : k = <<"queue", w>>
  <2>1. PICK w \in Workers : k = <<"queue", w>>
    BY <1>1
  <2> QED
    BY <2>1, HoldersNext
<1>2. CASE \E s \in Sessions : k = <<"rest", s>>
  <2>1. PICK s \in Sessions : k = <<"rest", s>>
    BY <1>2
  <2> QED
    BY <2>1, HoldersNext
<1>3. CASE \E s \in Sessions : k = <<"wire", s>>
  <2>1. PICK s \in Sessions : k = <<"wire", s>>
    BY <1>3
  <2> QED
    BY <2>1, HoldersNext
<1> QED
  BY <1>1, <1>2, <1>3, HoldersNext

\* Nothing moved.
LEMMA NothingMoved ==
  ASSUME \A w \in Workers : workerQueue'[w] = workerQueue[w],
         \A s \in Sessions : /\ session'[s].rest = session[s].rest
                             /\ session'[s].wire = session[s].wire
  PROVE  contents' = contents
<1>1. contents = Contents(workerQueue, session)
      /\ contents' = Contents(workerQueue', session')
  BY DEF contents
<1>2. \A h \in Holders : contents'[h] = contents[h]
  BY KeptBy
<1>3. DOMAIN contents = Holders /\ DOMAIN contents' = Holders
      /\ contents = [h \in Holders |-> contents[h]]
      /\ contents' = [h \in Holders |-> contents'[h]]
  BY <1>1 DEF Contents
<1> QED
  BY <1>2, <1>3

\* Two holders (or one) exchange what they hold; "new" comes from handlers,
\* and what neither holds afterwards is on its way no more.
LEMMA Moved ==
  ASSUME OnePlace, NEW h \in Holders, NEW g \in Holders, NEW new \in SUBSET Pending,
         Pending' = Pending \ new, Exchange(contents, contents', h, g, new)
  PROVE  LET before == Elems(contents[h]) \cup Elems(contents[g]) \cup new
             after == Elems(contents'[h]) \cup Elems(contents'[g])
         IN  /\ OnePlace'
             /\ before \subseteq Flight
             /\ Flight' = Flight \ (before \ after)
<1> DEFINE C == contents
           D == contents'
           before == Elems(contents[h]) \cup Elems(contents[g]) \cup new
           after == Elems(contents'[h]) \cup Elems(contents'[g])
           old == Elems(C[h]) \cup Elems(C[g])
<1>1. Apart(C) /\ Pending \cap Held(C) = {}
  BY DEF OnePlace
<1>2. new \cap Held(C) = {}
  BY <1>1
<1>4. /\ Apart(D)
      /\ \A x : x \in Held(D) <=>
           \/ x \in Held(C) /\ x \notin Elems(C[h]) /\ x \notin Elems(C[g])
           \/ x \in Elems(D[h])
           \/ x \in Elems(D[g])
  BY <1>1, <1>2, Change
<1>5. old \subseteq Held(C)
  BY DEF Held
<1>6. Held(D) = (Held(C) \ old) \cup after /\ before = old \cup new
  BY <1>4
<1>7. Flight = Pending \cup Held(C) /\ Flight' = Pending' \cup Held(D)
  BY DEF Flight
<1>8. OnePlace' <=> Apart(D) /\ Pending' \cap Held(D) = {}
  BY DEF OnePlace
<1>9. after \subseteq before
  BY DEF Exchange
<1> HIDE DEF C, D, old, before, after
<1> QED
  BY <1>1, <1>2, <1>4, <1>5, <1>6, <1>7, <1>8, <1>9 DEF before, after

\* One holder takes in something new, or lets something go.
LEMMA MovedOne ==
  ASSUME OnePlace, NEW h \in Holders, NEW new \in SUBSET Pending,
         Pending' = Pending \ new,
         \A k \in Holders : k # h => contents'[k] = contents[k],
         Distinct(contents'[h]),
         Elems(contents'[h]) \subseteq Elems(contents[h]) \cup new
  PROVE  /\ OnePlace'
         /\ Elems(contents[h]) \cup new \subseteq Flight
         /\ Flight' = Flight \ ((Elems(contents[h]) \cup new) \ Elems(contents'[h]))
<1>1. /\ OnePlace'
      /\ Elems(contents[h]) \cup Elems(contents[h]) \cup new \subseteq Flight
      /\ Flight' = Flight \ ((Elems(contents[h]) \cup Elems(contents[h]) \cup new)
                                \ (Elems(contents'[h]) \cup Elems(contents'[h])))
  BY Moved DEF Exchange
<1> QED
  BY <1>1

\* One holder gives another some of what it holds.
LEMMA MovedTwo ==
  ASSUME OnePlace, NEW h \in Holders, NEW g \in Holders, h # g,
         Pending' = Pending,
         \A k \in Holders : k # h /\ k # g => contents'[k] = contents[k],
         Distinct(contents'[h]), Distinct(contents'[g]),
         Elems(contents'[h]) \cap Elems(contents'[g]) = {},
         Elems(contents'[h]) \cup Elems(contents'[g])
           \subseteq Elems(contents[h]) \cup Elems(contents[g])
  PROVE  /\ OnePlace'
         /\ Elems(contents[h]) \cup Elems(contents[g]) \subseteq Flight
         /\ Flight' = Flight \ ((Elems(contents[h]) \cup Elems(contents[g]))
                                 \ (Elems(contents'[h]) \cup Elems(contents'[g])))
<1>1. Pending' = Pending \ {} /\ {} \in SUBSET Pending
  OBVIOUS
<1>2. Exchange(contents, contents', h, g, {})
  BY DEF Exchange
<1>3. /\ OnePlace'
      /\ Elems(contents[h]) \cup Elems(contents[g]) \cup {} \subseteq Flight
      /\ Flight' = Flight \ ((Elems(contents[h]) \cup Elems(contents[g]) \cup {})
                              \ (Elems(contents'[h]) \cup Elems(contents'[g])))
  BY <1>1, <1>2, Moved
<1> QED
  BY <1>3

-----------------------------------------------------------------------------
(* Every step starts, moves or settles requests *)

\* What a step does to the envelopes on their way.
Stays == OnePlace' /\ Flight' = Flight /\ UNCHANGED <<received, lost>>

Starts(e) ==
  /\ OnePlace' /\ Flight' = Flight \cup {e} /\ UNCHANGED <<received, lost>>
  /\ dispatch[e].pc = "idle" /\ dispatch'[e].pc # "idle"

Settles(w, batch, gone) ==
  /\ OnePlace' /\ Flight' = Flight \ (batch \cup gone)
  /\ batch \subseteq Flight /\ gone \subseteq Flight /\ batch \cap gone = {}
  /\ received' = [received EXCEPT ![w] = @ \cup batch]
  /\ lost' = lost \cup gone

Flow ==
  \/ Stays
  \/ \E e \in Envelopes : Starts(e)
  \/ \E w \in Workers : \E batch, gone : Settles(w, batch, gone)

LEMMA PendingNext ==
  ASSUME NEW e \in Envelopes,
         \A f \in Envelopes : f # e => dispatch'[f].pc = dispatch[f].pc
  PROVE  Pending' = IF dispatch'[e].pc \in {"lookup", "write", "enqueue"}
                    THEN Pending \cup {e} ELSE Pending \ {e}
BY DEF Pending, WithHandler

LEMMA Quiet ==
  ASSUME OnePlace, contents' = contents, Pending' = Pending,
         UNCHANGED <<received, lost>>
  PROVE  Stays
BY DEF OnePlace, Stays, Flight

LEMMA NumberFlow ==
  ASSUME Fits, OnePlace, NEW e \in Envelopes, NEW w \in Workers, Number(e, w),
         dispatch[e].pc = "idle" => e \notin Flight,
         UNCHANGED <<workers, workerQueue, runs, session, received, lost>>
  PROVE  Starts(e)
<1>1. /\ dispatch[e].pc = "idle" /\ dispatch'[e].pc = "lookup"
      /\ \A f \in Envelopes : f # e => dispatch'[f].pc = dispatch[f].pc
  BY DEF Number, Fits, TypeOK
<1>2. contents' = contents
  BY NothingMoved
<1>3. Pending' = Pending \cup {e}
  BY <1>1, PendingNext
<1>4. e \notin Flight
  BY <1>1
<1> QED
  BY <1>1, <1>2, <1>3, <1>4 DEF Starts, OnePlace, Flight

LEMMA HandlerFlow ==
  ASSUME Fits, OnePlace, NEW e \in Envelopes, Lookup(e) \/ Write(e) \/ Enqueue(e)
  PROVE  Stays \/ Settles(dispatch[e].worker, {}, {e})
               \/ \E gone : Settles(dispatch[e].worker, {}, gone)
<1> DEFINE w == dispatch[e].worker
<1>1. e \in Pending /\ w \in Workers
  BY DEF Lookup, Write, Enqueue, Pending, WithHandler, Fits, HandlersFit
<1>2. received' = received => received' = [received EXCEPT ![w] = @ \cup {}]
  BY <1>1 DEF Fits, TypeOK
<1>3. e \notin Held(contents)
  BY <1>1 DEF OnePlace
<1>4. CASE Lookup(e)
  <2>1. dispatch'[e].pc \in {"enqueue", "write"}
        /\ \A f \in Envelopes : f # e => dispatch'[f].pc = dispatch[f].pc
    BY <1>4 DEF Lookup, Fits, TypeOK
  <2>2. Pending' = Pending
    BY <1>1, <2>1, PendingNext
  <2>3. contents' = contents
    BY <1>4, NothingMoved DEF Lookup
  <2> QED
    BY <1>4, <2>2, <2>3, Quiet DEF Lookup
<1>5. CASE Write(e)
  <2> DEFINE s == dispatch[e].to
  <2>1. s \in Sessions /\ session[s] \in Session
    BY <1>5 DEF Write, Fits, HandlersFit, TypeOK
  <2>2. PICK ok \in BOOLEAN :
          /\ writeWorkerEnvelope(s, e, ok)
          /\ session' = [session EXCEPT ![s] = Sent(s, e, ok)]
          /\ dispatch' = [dispatch EXCEPT
               ![e].pc = IF ok THEN Returned(e) ELSE "enqueue", ![e].to = None]
    BY <1>5 DEF Write
  <2>3. UNCHANGED <<workerQueue, received>>
    BY <1>5 DEF Write
  <2> HIDE DEF s
  <2>4. /\ dispatch'[e].pc = IF ok THEN Returned(e) ELSE "enqueue"
        /\ \A f \in Envelopes : f # e => dispatch'[f].pc = dispatch[f].pc
    BY <2>2 DEF Fits, TypeOK, Handler
  <2>5. Pending' = IF ok THEN Pending \ {e} ELSE Pending
    <3>1. Returned(e) \notin {"lookup", "write", "enqueue"}
      BY DEF Returned
    <3> QED
      BY <1>1, <2>4, <3>1, PendingNext
  <2>6. /\ session'[s] = Sent(s, e, ok)
        /\ \A t \in Sessions : t # s => session'[t] = session[t]
    BY <2>1, <2>2 DEF Fits, TypeOK
  <2>7. /\ session'[s].rest = session[s].rest
        /\ session'[s].wire = IF ok /\ session[s].peer
                              THEN Append(session[s].wire, e) ELSE session[s].wire
    BY <2>1, <2>6 DEF Sent, Session
  <2>8. CASE ~ok
    <3>1. contents' = contents
      BY <2>3, <2>6, <2>7, <2>8, NothingMoved
    <3>2. lost' = lost
      BY <2>2, <2>8 DEF writeWorkerEnvelope
    <3> QED
      BY <2>3, <2>5, <2>8, <3>1, <3>2, Quiet
  <2>9. CASE ok
    <3> DEFINE h == <<"wire", s>>
               q == session[s].wire
    <3>1. /\ h \in Holders /\ contents[h] = q /\ contents'[h] = session'[s].wire
          /\ \A k \in Holders : k # h => contents'[k] = contents[k]
      BY <2>1, <2>3, <2>6, <2>7, HoldersNext, KeptBy
    <3>2. q \in Seq(Envelopes) /\ Distinct(q) /\ Elems(q) \subseteq Held(contents)
      BY <2>1, PlaceFacts
    <3>3. {e} \in SUBSET Pending /\ Pending' = Pending \ {e}
      BY <1>1, <2>5, <2>9
    <3>4. CASE session[s].peer
      <4>1. contents'[h] = Append(q, e)
        BY <2>7, <2>9, <3>1, <3>4
      <4>2. Distinct(Append(q, e)) /\ Elems(Append(q, e)) = Elems(q) \cup {e}
        BY <1>3, <3>2, AppendElems
      <4> HIDE DEF h, q
      <4>4. OnePlace' /\ Flight' = Flight
        <5>1. OnePlace' /\ Flight' = Flight \ ((Elems(q) \cup {e}) \ Elems(Append(q, e)))
          <6>1. Elems(contents'[h]) \subseteq Elems(contents[h]) \cup {e}
                /\ Distinct(contents'[h])
            BY <3>1, <4>1, <4>2
          <6> HIDE DEF h, q
          <6>2. OnePlace' /\ Flight' = Flight \ ((Elems(contents[h]) \cup {e}) \ Elems(contents'[h]))
            BY <3>1, <3>3, <6>1, MovedOne
          <6> QED
            BY <3>1, <4>1, <6>2
        <5> QED
          BY <4>2, <5>1
      <4>5. lost' = lost
        BY <2>2, <3>4 DEF writeWorkerEnvelope
      <4> QED
        BY <2>3, <4>4, <4>5 DEF Stays
    <3>5. CASE ~session[s].peer
      <4>1. contents'[h] = q
        BY <2>7, <3>1, <3>5
      <4>2. (Elems(q) \cup {e}) \ Elems(q) = {e}
        BY <1>3, <3>2
      <4> HIDE DEF h, q
      <4>4. OnePlace' /\ Flight' = Flight \ {e}
        <5>1. OnePlace' /\ Flight' = Flight \ ((Elems(q) \cup {e}) \ Elems(q))
          <6>1. Elems(contents'[h]) \subseteq Elems(contents[h]) \cup {e}
                /\ Distinct(contents'[h])
            BY <3>1, <3>2, <4>1
          <6>2. OnePlace' /\ Flight' = Flight \ ((Elems(contents[h]) \cup {e}) \ Elems(contents'[h]))
            BY <3>1, <3>3, <6>1, MovedOne
          <6> QED
            BY <3>1, <4>1, <6>2
        <5> QED
          BY <4>2, <5>1
      <4>5. lost' = lost \cup {e}
        BY <2>2, <2>9, <3>5 DEF writeWorkerEnvelope
      <4>6. e \in Flight
        BY <1>1 DEF Flight
      <4> QED
        BY <1>2, <2>3, <4>4, <4>5, <4>6 DEF Settles
    <3> QED
      BY <3>4, <3>5
  <2> QED
    BY <2>8, <2>9
<1>6. CASE Enqueue(e)
  <2> DEFINE h == <<"queue", w>>
             q == workerQueue[w]
  <2>1. /\ enqueueControl(w, e) /\ UNCHANGED <<session, received>>
        /\ dispatch'[e].pc = Returned(e)
        /\ \A f \in Envelopes : f # e => dispatch'[f].pc = dispatch[f].pc
    BY <1>6 DEF Enqueue, Fits, TypeOK
  <2>2. Pending' = Pending \ {e}
    BY <1>1, <2>1, PendingNext DEF Returned
  <2>3. Distinct(q) /\ Elems(q) \subseteq Held(contents)
    BY <1>1, PlaceFacts
  <2>4. e \notin Elems(q)
    BY <1>3, <2>3
  <2> DEFINE before == Elems(q) \cup {e}
             after == Elems(workerQueue'[w])
  <2>5. /\ \A v \in Workers : v # w => workerQueue'[v] = workerQueue[v]
        /\ Distinct(workerQueue'[w])
        /\ after \subseteq before
        /\ lost' = lost \cup (before \ after)
    BY <1>1, <2>1, <2>3, <2>4, EnqueueTypes DEF Fits
  <2>6. /\ h \in Holders /\ contents[h] = q /\ contents'[h] = workerQueue'[w]
        /\ \A k \in Holders : k # h => contents'[k] = contents[k]
    BY <1>1, <2>1, <2>5, HoldersNext, KeptBy
  <2>8. {e} \in SUBSET Pending
    BY <1>1
  <2> HIDE DEF h, w, q
  <2>9. OnePlace' /\ Flight' = Flight \ (before \ after) /\ before \subseteq Flight
    <3>1. Elems(contents'[h]) \subseteq Elems(contents[h]) \cup {e}
          /\ Distinct(contents'[h])
      BY <2>5, <2>6
    <3>2. /\ OnePlace' /\ Elems(contents[h]) \cup {e} \subseteq Flight
          /\ Flight' = Flight \ ((Elems(contents[h]) \cup {e}) \ Elems(contents'[h]))
      BY <2>2, <2>6, <2>8, <3>1, MovedOne
    <3> QED
      BY <2>6, <3>2
  <2> HIDE DEF before, after
  <2>10. Settles(w, {}, before \ after)
    BY <1>2, <2>1, <2>5, <2>9 DEF Settles
  <2> QED
    BY <2>10 DEF w
<1> QED
  BY <1>4, <1>5, <1>6

LEMMA RunFlow ==
  ASSUME Fits, OnePlace, NEW st \in Streams,
         \A e \in Envelopes : dispatch[e].pc = "idle" => e \notin Flight,
         DispatchRun(st) \/ DispatchCancel(st) \/ RecordRun(st) \/ ForgetRun(st)
  PROVE  Flow
<1>1. CASE DispatchRun(st)
  <2>1. PICK w \in Workers : Number(<<st, 0>>, w)
    BY <1>1 DEF DispatchRun
  <2>2. Starts(<<st, 0>>)
    BY <1>1, <2>1, RunEnvelope, NumberFlow DEF DispatchRun
  <2> QED
    BY <2>2, RunEnvelope DEF Flow
<1>2. CASE DispatchCancel(st)
  <2>1. runs[st] \in Workers
    BY <1>2 DEF DispatchCancel, Fits, TypeOK
  <2>2. PICK k \in 1..MaxCancels : Number(<<st, k>>, runs[st])
    BY <1>2 DEF DispatchCancel
  <2>3. <<st, k>> \in Envelopes
    <3>1. k \in 0..MaxCancels
      BY ControlChannelAssumption
    <3> QED
      BY <3>1 DEF Envelopes
  <2>4. Starts(<<st, k>>)
    BY <1>2, <2>1, <2>2, <2>3, NumberFlow DEF DispatchCancel
  <2> QED
    BY <2>3, <2>4 DEF Flow
<1>3. CASE RecordRun(st)
  <2> DEFINE e == <<st, 0>>
  <2>1. e \in Envelopes
    BY RunEnvelope
  <2> HIDE DEF e
  <2>2. /\ dispatch[e].pc = "record"
        /\ dispatch' = [dispatch EXCEPT ![e].pc = "done"]
        /\ UNCHANGED <<workerQueue, session, received, lost>>
    BY <1>3 DEF RecordRun, e
  <2>3. dispatch'[e].pc = "done"
        /\ \A f \in Envelopes : f # e => dispatch'[f].pc = dispatch[f].pc
    BY <2>1, <2>2 DEF Fits, TypeOK
  <2>4. Pending' = Pending
    <3>1. e \notin Pending
      BY <2>2 DEF Pending, WithHandler
    <3> QED
      BY <2>1, <2>3, <3>1, PendingNext
  <2>5. contents' = contents
    BY <2>2, NothingMoved
  <2> QED
    BY <2>2, <2>4, <2>5, Quiet DEF Flow
<1>4. CASE ForgetRun(st)
  <2>1. UNCHANGED <<workerQueue, dispatch, session, received, lost>>
    BY <1>4 DEF ForgetRun
  <2>2. Pending' = Pending
    BY <2>1 DEF Pending, WithHandler
  <2>3. contents' = contents
    BY <2>1, NothingMoved
  <2> QED
    BY <2>1, <2>2, <2>3, Quiet DEF Flow
<1> QED
  BY <1>1, <1>2, <1>3, <1>4

LEMMA ConnectFlow ==
  ASSUME Fits, OnePlace, NEW s \in Sessions, NEW w \in Workers, Connect(s, w)
  PROVE  Flow
<1>1. /\ \A t \in Sessions : t # s => session'[t] = session[t]
      /\ session'[s].rest = <<>> /\ session'[s].wire = <<>>
  BY DEF Connect, FreeSession, Fits, TypeOK
<1>2. session[s].rest = <<>> /\ session[s].wire = <<>>
  BY DEF Connect, Fits, SessionsFit
<1>3. UNCHANGED <<workerQueue, dispatch, received, lost>>
  BY DEF Connect
<1>4. contents' = contents
  BY <1>1, <1>2, <1>3, NothingMoved
<1>5. Pending' = Pending
  BY <1>3 DEF Pending, WithHandler
<1> QED
  BY <1>3, <1>4, <1>5, Quiet DEF Flow

\* The steps of a session that move nothing.
LEMMA IdleServeFlow ==
  ASSUME Fits, OnePlace, NEW s \in Sessions,
         Register(s) \/ FlushReturns(s) \/ Unregister(s)
  PROVE  Stays
<1>1. \A t \in Sessions : /\ session'[t].rest = session[t].rest
                          /\ session'[t].wire = session[t].wire
  <2>1. session \in [Sessions -> Session] /\ session[s] \in Session
    BY DEF Fits, TypeOK
  <2>2. CASE Register(s)
    BY <2>1, <2>2 DEF Register, Session
  <2>3. CASE FlushReturns(s)
    BY <2>1, <2>3 DEF FlushReturns, Session
  <2>4. CASE Unregister(s)
    BY <2>1, <2>4 DEF Unregister, Session
  <2> QED
    BY <2>2, <2>3, <2>4
<1>2. UNCHANGED <<workerQueue, dispatch, received, lost>>
  BY DEF Register, FlushReturns, Unregister
<1>3. contents' = contents
  BY <1>1, <1>2, NothingMoved
<1>4. Pending' = Pending
  BY <1>2 DEF Pending, WithHandler
<1> QED
  BY <1>2, <1>3, <1>4, Quiet

LEMMA TakeQueueFlow ==
  ASSUME Fits, OnePlace, NEW s \in Sessions, TakeQueue(s)
  PROVE  Stays
<1> DEFINE w == session[s].worker
           h == <<"queue", w>>
           g == <<"rest", s>>
           q == workerQueue[w]
<1>1. w \in Workers /\ session[s].rest = <<>>
  BY DEF TakeQueue, Fits, SessionsFit
<1>2. /\ workerQueue'[w] = <<>>
      /\ \A v \in Workers : v # w => workerQueue'[v] = workerQueue[v]
      /\ session'[s].rest = q /\ session'[s].wire = session[s].wire
      /\ \A t \in Sessions : t # s => session'[t] = session[t]
      /\ UNCHANGED <<dispatch, received, lost>>
  BY <1>1 DEF TakeQueue, Fits, TypeOK, Session
<1>3. /\ h \in Holders /\ g \in Holders /\ h # g
      /\ contents[h] = q /\ contents[g] = <<>>
      /\ contents'[h] = <<>> /\ contents'[g] = q
  BY <1>1, <1>2, HoldersNext
<1>4. \A k \in Holders : k # h /\ k # g => contents'[k] = contents[k]
  BY <1>1, <1>2, KeptBy
<1>5. Pending' = Pending
  BY <1>2 DEF Pending, WithHandler
<1>6. Distinct(q)
  BY <1>1, PlaceFacts
<1>7. /\ Distinct(contents'[h]) /\ Distinct(contents'[g])
      /\ Elems(contents'[h]) \cap Elems(contents'[g]) = {}
      /\ Elems(contents'[h]) \cup Elems(contents'[g])
           \subseteq Elems(contents[h]) \cup Elems(contents[g])
  BY <1>3, <1>6, NoElems
<1> HIDE DEF h, g
<1>8. /\ OnePlace'
      /\ Flight' = Flight \ ((Elems(contents[h]) \cup Elems(contents[g]))
                              \ (Elems(contents'[h]) \cup Elems(contents'[g])))
  BY <1>3, <1>4, <1>5, <1>7, MovedTwo
<1>9. Flight' = Flight
  BY <1>3, <1>8
<1> QED
  BY <1>2, <1>8, <1>9 DEF Stays

LEMMA FlushNextFlow ==
  ASSUME Fits, OnePlace, NEW s \in Sessions, FlushNext(s)
  PROVE  Stays \/ Settles(session[s].worker, {}, {Head(session[s].rest)})
<1> DEFINE rest == session[s].rest
           wire == session[s].wire
           e == Head(rest)
           h == <<"rest", s>>
           g == <<"wire", s>>
<1>1. PICK ok \in BOOLEAN :
        /\ writeWorkerEnvelope(s, e, ok)
        /\ session' = [session EXCEPT ![s] =
             IF ok THEN [Sent(s, e, ok) EXCEPT !.rest = Tail(@)]
                   ELSE [Sent(s, e, ok) EXCEPT !.pc = "requeue"]]
  BY DEF FlushNext
<1>2. /\ rest # <<>> /\ session[s].worker \in Workers /\ session[s] \in Session
      /\ UNCHANGED <<workerQueue, dispatch, received>>
  BY DEF FlushNext, Fits, SessionsFit, TypeOK
<1>3. \A t \in Sessions : t # s => session'[t] = session[t]
  BY <1>1 DEF Fits, TypeOK
<1>4. Pending' = Pending
  BY <1>2 DEF Pending, WithHandler
<1>5. CASE ~ok
  <2>1. session'[s].rest = rest /\ session'[s].wire = wire
    BY <1>1, <1>2, <1>5 DEF Sent, Session, Fits, TypeOK
  <2>2. contents' = contents
    BY <1>2, <1>3, <2>1, NothingMoved
  <2>3. lost' = lost
    BY <1>1, <1>5 DEF writeWorkerEnvelope
  <2> QED
    BY <1>2, <1>4, <2>2, <2>3, Quiet
<1>6. CASE ok
  <2>1. /\ session'[s].rest = Tail(rest)
        /\ session'[s].wire = IF session[s].peer THEN Append(wire, e) ELSE wire
    BY <1>1, <1>2, <1>6 DEF Sent, Session, Fits, TypeOK
  <2>2. /\ rest \in Seq(Envelopes) /\ wire \in Seq(Envelopes)
        /\ Distinct(rest) /\ Distinct(wire)
        /\ Elems(rest) \cap Elems(wire) = {}
        /\ Elems(rest) \subseteq Held(contents)
    BY PlaceFacts
  <2>3. /\ Distinct(Tail(rest)) /\ e \in Elems(rest) /\ e \in Envelopes
        /\ Elems(Tail(rest)) = Elems(rest) \ {e}
    <3> HIDE DEF rest
    <3> QED
      BY <1>2, <2>2, TailElems
  <2>4. /\ h \in Holders /\ g \in Holders /\ h # g
        /\ contents[h] = rest /\ contents[g] = wire
        /\ contents'[h] = Tail(rest) /\ contents'[g] = session'[s].wire
    BY <2>1, HoldersNext
  <2>5. /\ \A k \in Holders : k # h /\ k # g => contents'[k] = contents[k]
    BY <1>2, <1>3, KeptBy
  <2>6. CASE session[s].peer
    <3>1. Distinct(Append(wire, e)) /\ Elems(Append(wire, e)) = Elems(wire) \cup {e}
      <4> HIDE DEF wire, e, rest
      <4> QED
        BY <2>2, <2>3, AppendElems
    <3>2. contents'[g] = Append(wire, e)
      BY <2>1, <2>4, <2>6
    <3>3. /\ Distinct(contents'[h]) /\ Distinct(contents'[g])
          /\ Elems(contents'[h]) \cap Elems(contents'[g]) = {}
          /\ Elems(contents'[h]) \cup Elems(contents'[g])
               = Elems(contents[h]) \cup Elems(contents[g])
      <4> HIDE DEF wire, e, rest, h, g
      <4> QED
        BY <2>2, <2>3, <2>4, <3>1, <3>2
    <3> HIDE DEF h, g
    <3>4. /\ OnePlace'
          /\ Flight' = Flight \ ((Elems(contents[h]) \cup Elems(contents[g]))
                                  \ (Elems(contents'[h]) \cup Elems(contents'[g])))
      BY <1>4, <2>4, <2>5, <3>3, MovedTwo
    <3>5. Flight' = Flight
      BY <3>3, <3>4
    <3>6. lost' = lost
      BY <1>1, <2>6 DEF writeWorkerEnvelope
    <3> QED
      BY <1>2, <3>4, <3>5, <3>6 DEF Stays
  <2>7. CASE ~session[s].peer
    <3>1. contents'[g] = contents[g]
      BY <2>1, <2>4, <2>7
    <3>2. /\ \A k \in Holders : k # h => contents'[k] = contents[k]
          /\ Distinct(contents'[h])
          /\ Elems(contents'[h]) \subseteq Elems(contents[h]) \cup {}
      BY <2>3, <2>4, <2>5, <3>1
    <3>3. Pending' = Pending \ {} /\ {} \in SUBSET Pending
      BY <1>4
    <3> HIDE DEF h, g
    <3>4. /\ OnePlace'
          /\ Flight' = Flight \ ((Elems(contents[h]) \cup {}) \ Elems(contents'[h]))
      BY <2>4, <3>2, <3>3, MovedOne
    <3>5. Flight' = Flight \ {e} /\ e \in Flight
      <4>1. (Elems(contents[h]) \cup {}) \ Elems(contents'[h]) = {e}
        BY <2>3, <2>4
      <4>2. e \in Held(contents)
        BY <2>2, <2>3
      <4> QED
        BY <3>4, <4>1, <4>2 DEF Flight
    <3>6. lost' = lost \cup {e}
      BY <1>1, <1>6, <2>7 DEF writeWorkerEnvelope
    <3>7. received' = [received EXCEPT ![session[s].worker] = @ \cup {}]
      BY <1>2 DEF Fits, TypeOK
    <3> HIDE DEF e
    <3>8. Settles(session[s].worker, {}, {e})
      BY <3>4, <3>5, <3>6, <3>7 DEF Settles
    <3> QED
      BY <3>8 DEF e
  <2> QED
    BY <2>6, <2>7
<1> QED
  BY <1>5, <1>6

LEMMA RequeueFlow ==
  ASSUME Fits, OnePlace, NEW s \in Sessions, Requeue(s)
  PROVE  \E gone : Settles(session[s].worker, {}, gone)
<1> DEFINE w == session[s].worker
           rest == session[s].rest
           q == workerQueue[w]
           e == Head(rest)
           h == <<"rest", s>>
           g == <<"queue", w>>
           gone == (Elems(q) \cup {e}) \ Elems(workerQueue'[w])
<1>1. /\ rest # <<>> /\ w \in Workers /\ session[s] \in Session
      /\ enqueueControl(w, e)
      /\ session' = [session EXCEPT ![s].rest = Tail(@)]
      /\ UNCHANGED <<dispatch, received>>
  BY DEF Requeue, Fits, SessionsFit, TypeOK
<1>2. /\ session'[s].rest = Tail(rest) /\ session'[s].wire = session[s].wire
      /\ \A t \in Sessions : t # s => session'[t] = session[t]
  BY <1>1 DEF Fits, TypeOK, Session
<1>3. /\ rest \in Seq(Envelopes) /\ Distinct(rest) /\ Distinct(q)
      /\ Elems(rest) \cap Elems(q) = {}
      /\ Elems(rest) \subseteq Held(contents) /\ Elems(q) \subseteq Held(contents)
  BY <1>1, PlaceFacts
<1>4. /\ Distinct(Tail(rest)) /\ e \in Elems(rest) /\ e \in Envelopes
      /\ Elems(Tail(rest)) = Elems(rest) \ {e}
  <2> HIDE DEF rest
  <2> QED
    BY <1>1, <1>3, TailElems
<1>5. /\ \A v \in Workers : v # w => workerQueue'[v] = workerQueue[v]
      /\ Distinct(workerQueue'[w])
      /\ Elems(workerQueue'[w]) \subseteq Elems(q) \cup {e}
      /\ lost' = lost \cup gone
  <2>1. e \notin Elems(q) /\ TypeOK
    BY <1>3, <1>4 DEF Fits
  <2> HIDE DEF e, w
  <2> QED
    BY <1>1, <1>3, <1>4, <2>1, EnqueueTypes
<1>6. /\ h \in Holders /\ g \in Holders /\ h # g
      /\ contents[h] = rest /\ contents[g] = q
      /\ contents'[h] = Tail(rest) /\ contents'[g] = workerQueue'[w]
  BY <1>1, <1>2, HoldersNext
<1>7. \A k \in Holders : k # h /\ k # g => contents'[k] = contents[k]
  BY <1>1, <1>2, <1>5, KeptBy
<1>8. Pending' = Pending
  BY <1>1 DEF Pending, WithHandler
<1> HIDE DEF h, g, e, q, w, rest
<1>9. /\ Distinct(contents'[h]) /\ Distinct(contents'[g])
      /\ Elems(contents'[h]) \cap Elems(contents'[g]) = {}
      /\ Elems(contents'[h]) \cup Elems(contents'[g])
           \subseteq Elems(contents[h]) \cup Elems(contents[g])
  BY <1>3, <1>4, <1>5, <1>6
<1>10. /\ OnePlace'
       /\ Flight' = Flight \ ((Elems(contents[h]) \cup Elems(contents[g]))
                               \ (Elems(contents'[h]) \cup Elems(contents'[g])))
  BY <1>6, <1>7, <1>8, <1>9, MovedTwo
<1>11. (Elems(contents[h]) \cup Elems(contents[g]))
         \ (Elems(contents'[h]) \cup Elems(contents'[g])) = gone
  BY <1>3, <1>4, <1>5, <1>6
<1>12. gone \subseteq Flight
  BY <1>3, <1>4 DEF Flight
<1>13. received' = [received EXCEPT ![w] = @ \cup {}]
  BY <1>1 DEF Fits, TypeOK
<1> HIDE DEF gone
<1>14. Settles(w, {}, gone)
  BY <1>5, <1>10, <1>11, <1>12, <1>13 DEF Settles
<1> QED
  BY <1>14 DEF w

LEMMA PeerGoneFlow ==
  ASSUME Fits, OnePlace, NEW s \in Sessions, PeerGone(s)
  PROVE  Settles(session[s].worker, {}, Elems(session[s].wire))
<1> DEFINE wire == session[s].wire
           h == <<"wire", s>>
<1>1. /\ session[s].worker \in Workers
      /\ session'[s].rest = session[s].rest /\ session'[s].wire = <<>>
      /\ \A t \in Sessions : t # s => session'[t] = session[t]
      /\ UNCHANGED <<workerQueue, dispatch, received>>
      /\ lost' = lost \cup Elems(wire)
  BY DEF PeerGone, Fits, SessionsFit, TypeOK, Session
<1>2. h \in Holders /\ contents[h] = wire /\ contents'[h] = <<>>
  BY <1>1, HoldersNext
<1>3. \A k \in Holders : k # h => contents'[k] = contents[k]
  BY <1>1, KeptBy
<1>4. Pending' = Pending \ {} /\ {} \in SUBSET Pending
  BY <1>1 DEF Pending, WithHandler
<1>5. Distinct(contents'[h]) /\ Elems(contents'[h]) = {}
      /\ Elems(contents'[h]) \subseteq Elems(contents[h]) \cup {}
  BY <1>2, NoElems
<1> HIDE DEF h
<1>6. /\ OnePlace' /\ Elems(contents[h]) \cup {} \subseteq Flight
      /\ Flight' = Flight \ ((Elems(contents[h]) \cup {}) \ Elems(contents'[h]))
  BY <1>2, <1>3, <1>4, <1>5, MovedOne
<1>7. Flight' = Flight \ Elems(wire) /\ Elems(wire) \subseteq Flight
  BY <1>2, <1>5, <1>6
<1>8. received' = [received EXCEPT ![session[s].worker] = @ \cup {}]
  BY <1>1 DEF Fits, TypeOK
<1> QED
  BY <1>1, <1>6, <1>7, <1>8 DEF Settles

LEMMA DeliverFlow ==
  ASSUME Fits, OnePlace, NEW s \in Sessions, Deliver(s)
  PROVE  Settles(session[s].worker, {Head(session[s].wire)}, {})
<1> DEFINE wire == session[s].wire
           e == Head(wire)
           h == <<"wire", s>>
<1>1. /\ session[s].worker \in Workers /\ wire # <<>>
      /\ session'[s].rest = session[s].rest /\ session'[s].wire = Tail(wire)
      /\ \A t \in Sessions : t # s => session'[t] = session[t]
      /\ UNCHANGED <<workerQueue, dispatch, lost>>
      /\ received' = [received EXCEPT ![session[s].worker] = @ \cup {e}]
  BY DEF Deliver, Fits, SessionsFit, TypeOK, Session
<1>2. wire \in Seq(Envelopes) /\ Distinct(wire)
  BY PlaceFacts
<1>3. h \in Holders /\ contents[h] = wire /\ contents'[h] = Tail(wire)
  BY <1>1, HoldersNext
<1>4. \A k \in Holders : k # h => contents'[k] = contents[k]
  BY <1>1, KeptBy
<1>5. Pending' = Pending \ {} /\ {} \in SUBSET Pending
  BY <1>1 DEF Pending, WithHandler
<1>6. /\ Distinct(Tail(wire)) /\ e \in Elems(wire)
      /\ Elems(Tail(wire)) = Elems(wire) \ {e}
  <2> HIDE DEF wire
  <2> QED
    BY <1>1, <1>2, TailElems
<1>7. Distinct(contents'[h])
      /\ Elems(contents'[h]) \subseteq Elems(contents[h]) \cup {}
  BY <1>3, <1>6
<1> HIDE DEF h, wire, e
<1>8. /\ OnePlace' /\ Elems(contents[h]) \cup {} \subseteq Flight
      /\ Flight' = Flight \ ((Elems(contents[h]) \cup {}) \ Elems(contents'[h]))
  BY <1>3, <1>4, <1>5, <1>7, MovedOne
<1>9. Flight' = Flight \ {e} /\ e \in Flight
  BY <1>3, <1>6, <1>8
<1>10. Settles(session[s].worker, {e}, {})
  BY <1>1, <1>8, <1>9 DEF Settles
<1> QED
  BY <1>10 DEF e, wire

LEMMA PollFlow ==
  ASSUME Fits, OnePlace, NEW w \in Workers, Poll(w)
  PROVE  \E batch, gone : Settles(w, batch, gone)
<1> DEFINE q == workerQueue[w]
           h == <<"queue", w>>
<1>1. PICK last \in LastSeqs(w), arrives \in BOOLEAN : handleWorkerPoll(w, last, arrives)
  BY DEF Poll
<1>2. TypeOK /\ Distinct(q)
  BY PlaceFacts DEF Fits
<1>3. Polled(w)
  BY <1>1, <1>2, PollTypes
<1>4. PICK batch \in SUBSET Elems(q), gone \in SUBSET Elems(q) :
        /\ \A v \in Workers : v # w => workerQueue'[v] = workerQueue[v]
        /\ Distinct(workerQueue'[w])
        /\ batch \cap gone = {}
        /\ Elems(workerQueue'[w]) = Elems(q) \ (batch \cup gone)
        /\ received' = [received EXCEPT ![w] = @ \cup batch]
        /\ lost' = lost \cup gone
  BY <1>3 DEF Polled
<1>5. UNCHANGED <<dispatch, session>>
  BY <1>1 DEF handleWorkerPoll
<1>6. h \in Holders /\ contents[h] = q /\ contents'[h] = workerQueue'[w]
  BY HoldersNext
<1>7. \A k \in Holders : k # h => contents'[k] = contents[k]
  BY <1>4, <1>5, KeptBy
<1>8. Pending' = Pending \ {} /\ {} \in SUBSET Pending
  BY <1>5 DEF Pending, WithHandler
<1>9. Distinct(contents'[h])
      /\ Elems(contents'[h]) \subseteq Elems(contents[h]) \cup {}
  BY <1>4, <1>6
<1> HIDE DEF h, q
<1>10. /\ OnePlace' /\ Elems(contents[h]) \cup {} \subseteq Flight
       /\ Flight' = Flight \ ((Elems(contents[h]) \cup {}) \ Elems(contents'[h]))
  BY <1>6, <1>7, <1>8, <1>9, MovedOne
<1>11. Flight' = Flight \ (batch \cup gone) /\ batch \subseteq Flight /\ gone \subseteq Flight
  BY <1>4, <1>6, <1>10
<1>12. Settles(w, batch, gone)
  BY <1>4, <1>10, <1>11 DEF Settles
<1> QED
  BY <1>12

\* Every step of the channel is a step of the envelopes on their way.
LEMMA FlowNext ==
  ASSUME Fits, OnePlace, [Next]_vars,
         \A e \in Envelopes : dispatch[e].pc = "idle" => e \notin Flight
  PROVE  Flow
<1>1. CASE \E st \in Streams :
             DispatchRun(st) \/ DispatchCancel(st) \/ RecordRun(st) \/ ForgetRun(st)
  BY <1>1, RunFlow
<1>2. CASE \E e \in Envelopes : Handlers(e)
  <2>1. PICK e \in Envelopes : Lookup(e) \/ Write(e) \/ Enqueue(e)
    BY <1>2 DEF Handlers
  <2>2. dispatch[e].worker \in Workers
    BY <2>1 DEF Lookup, Write, Enqueue, Fits, HandlersFit
  <2> QED
    BY <2>1, <2>2, HandlerFlow DEF Flow
<1>3. CASE \E s \in Sessions, w \in Workers : Connect(s, w)
  BY <1>3, ConnectFlow
<1>4. CASE \E s \in Sessions : Serve(s) \/ PeerGone(s) \/ Deliver(s)
  <2>1. PICK s \in Sessions : Serve(s) \/ PeerGone(s) \/ Deliver(s)
    BY <1>4
  <2>2. CASE Register(s) \/ FlushReturns(s) \/ Unregister(s)
    BY <2>2, IdleServeFlow DEF Flow
  <2>3. CASE TakeQueue(s)
    BY <2>3, TakeQueueFlow DEF Flow
  <2>4. CASE FlushNext(s) \/ Requeue(s) \/ PeerGone(s) \/ Deliver(s)
    <3>1. session[s].worker \in Workers
      BY <2>4 DEF FlushNext, Requeue, PeerGone, Deliver, Fits, SessionsFit
    <3> QED
      BY <2>4, <3>1, FlushNextFlow, RequeueFlow, PeerGoneFlow, DeliverFlow DEF Flow
  <2> QED
    BY <2>1, <2>2, <2>3, <2>4 DEF Serve
<1>5. CASE \E w \in Workers : Poll(w)
  BY <1>5, PollFlow DEF Flow
<1>6. CASE UNCHANGED vars
  <2>1. UNCHANGED <<workerQueue, dispatch, session, received, lost>>
    BY <1>6 DEF vars
  <2>2. contents' = contents /\ Pending' = Pending
    BY <2>1, NothingMoved DEF Pending, WithHandler
  <2> QED
    BY <2>1, <2>2, Quiet DEF Flow
<1> QED
  BY <1>1, <1>2, <1>3, <1>4, <1>5, <1>6 DEF Next

-----------------------------------------------------------------------------
(* The invariant and the theorems *)

Unused == \A e \in Envelopes : dispatch[e].pc = "idle" => e \notin Flight \cup Settled

InPlace == Fits /\ OnePlace /\ Flight \cap Settled = {} /\ Unused

LEMMA InPlaceInit == Init => InPlace
<1> SUFFICES ASSUME Init PROVE InPlace
  OBVIOUS
<1>1. Fits
  BY FitsInit
<1>2. \A h \in Holders : contents[h] = <<>>
  <2>1. /\ \A w \in Workers : workerQueue[w] = <<>>
        /\ \A s \in Sessions : session[s].rest = <<>> /\ session[s].wire = <<>>
    BY DEF Init, FreeSession
  <2> QED
    BY <2>1, NothingHeld
<1>3. Held(contents) = {} /\ Apart(contents)
  BY <1>2, NoElems DEF Held, Apart
<1>4. Pending = {} /\ Settled = {}
  BY DEF Init, Pending, WithHandler, Settled
<1> QED
  BY <1>1, <1>3, <1>4 DEF InPlace, OnePlace, Flight, Unused

\* No request becomes unused again.
LEMMA UsedStaysUsed ==
  ASSUME Fits, [Next]_vars, NEW e \in Envelopes, dispatch'[e].pc = "idle"
  PROVE  dispatch[e].pc = "idle"
<1>1. dispatch \in [Envelopes -> Handler]
  BY DEF Fits, TypeOK
<1>2. CASE \E st \in Streams :
             DispatchRun(st) \/ DispatchCancel(st) \/ RecordRun(st) \/ ForgetRun(st)
  <2>1. PICK st \in Streams :
             DispatchRun(st) \/ DispatchCancel(st) \/ RecordRun(st) \/ ForgetRun(st)
    BY <1>2
  <2>2. ASSUME NEW f, NEW w, Number(f, w) PROVE dispatch[e].pc = "idle"
    BY <1>1, <2>2 DEF Number
  <2>3. CASE RecordRun(st)
    BY <1>1, <2>3 DEF RecordRun
  <2>4. CASE ForgetRun(st)
    BY <2>4 DEF ForgetRun
  <2> QED
    BY <2>1, <2>2, <2>3, <2>4 DEF DispatchRun, DispatchCancel
<1>3. CASE \E f \in Envelopes : Handlers(f)
  <2>1. PICK f \in Envelopes : Lookup(f) \/ Write(f) \/ Enqueue(f)
    BY <1>3 DEF Handlers
  <2>2. CASE Lookup(f)
    BY <1>1, <2>2 DEF Lookup
  <2>3. CASE Write(f)
    BY <1>1, <2>3 DEF Write, Returned
  <2>4. CASE Enqueue(f)
    BY <1>1, <2>4 DEF Enqueue, Returned
  <2> QED
    BY <2>1, <2>2, <2>3, <2>4
<1>4. CASE \E s \in Sessions, w \in Workers : Connect(s, w)
  BY <1>4 DEF Connect
<1>5. CASE \E s \in Sessions : Serve(s) \/ PeerGone(s) \/ Deliver(s)
  BY <1>5 DEF Serve, Register, TakeQueue, FlushNext, Requeue, FlushReturns,
             Unregister, PeerGone, Deliver
<1>6. CASE \E w \in Workers : Poll(w)
  BY <1>6 DEF Poll, handleWorkerPoll
<1>7. CASE UNCHANGED vars
  BY <1>7 DEF vars
<1> QED
  BY <1>2, <1>3, <1>4, <1>5, <1>6, <1>7 DEF Next

LEMMA SettledNext ==
  ASSUME Fits, NEW w \in Workers, NEW batch, NEW gone, Settles(w, batch, gone)
  PROVE  Settled' = Settled \cup batch \cup gone
<1>1. /\ received' = [received EXCEPT ![w] = @ \cup batch]
      /\ lost' = lost \cup gone
  BY DEF Settles
<1>2. /\ received'[w] = received[w] \cup batch
      /\ \A v \in Workers : v # w => received'[v] = received[v]
  BY <1>1 DEF Fits, TypeOK
<1>3. Settled' = lost' \cup UNION {received'[v] : v \in Workers}
  BY DEF Settled
<1>4. ASSUME NEW x \in Settled' PROVE x \in Settled \cup batch \cup gone
  <2>1. x \in lost' \/ \E v \in Workers : x \in received'[v]
    BY <1>3
  <2>2. ASSUME NEW v \in Workers, x \in received'[v] PROVE x \in received[v] \cup batch
    BY <1>2, <2>2
  <2> QED
    BY <1>1, <2>1, <2>2 DEF Settled
<1>5. ASSUME NEW x \in Settled \cup batch \cup gone PROVE x \in Settled'
  <2>1. x \in lost \cup gone \/ x \in batch \/ \E v \in Workers : x \in received[v]
    BY DEF Settled
  <2>2. x \in batch => x \in received'[w]
    BY <1>2
  <2>3. ASSUME NEW v \in Workers, x \in received[v] PROVE x \in received'[v]
    BY <1>2, <2>3
  <2> QED
    BY <1>1, <1>3, <2>1, <2>2, <2>3
<1> QED
  BY <1>4, <1>5

LEMMA InPlaceNext == InPlace /\ [Next]_vars => InPlace'
<1> SUFFICES ASSUME InPlace, [Next]_vars PROVE InPlace'
  OBVIOUS
<1>1. Fits /\ OnePlace /\ Flight \cap Settled = {} /\ Unused
  BY DEF InPlace
<1>2. Fits'
  BY <1>1, FitsNext
<1>3. Flow
  BY <1>1, FlowNext DEF Unused
<1>4. \A e \in Envelopes : dispatch'[e].pc = "idle" => e \notin Flight \cup Settled
  BY <1>1, UsedStaysUsed DEF Unused
<1>5. CASE Stays
  <2>1. OnePlace' /\ Flight' = Flight /\ Settled' = Settled
    BY <1>5 DEF Stays, Settled
  <2> QED
    BY <1>1, <1>2, <1>4, <2>1 DEF InPlace, Unused
<1>6. CASE \E e \in Envelopes : Starts(e)
  <2>1. PICK e \in Envelopes : Starts(e)
    BY <1>6
  <2>2. /\ OnePlace' /\ Flight' = Flight \cup {e} /\ Settled' = Settled
        /\ dispatch[e].pc = "idle" /\ dispatch'[e].pc # "idle"
    BY <2>1 DEF Starts, Settled
  <2>3. e \notin Settled
    BY <1>1, <2>2 DEF Unused
  <2> QED
    BY <1>1, <1>2, <1>4, <2>2, <2>3 DEF InPlace, Unused
<1>7. CASE \E w \in Workers : \E batch, gone : Settles(w, batch, gone)
  <2>0. PICK w \in Workers : \E batch, gone : Settles(w, batch, gone)
    BY <1>7
  <2>1. PICK batch, gone : Settles(w, batch, gone)
    BY <2>0
  <2>2. /\ OnePlace' /\ Flight' = Flight \ (batch \cup gone)
        /\ batch \subseteq Flight /\ gone \subseteq Flight
    BY <2>1 DEF Settles
  <2>3. Settled' = Settled \cup batch \cup gone
    BY <1>1, <2>1, SettledNext
  <2>4. Flight' \cap Settled' = {}
    BY <1>1, <2>2, <2>3
  <2>5. Flight' \cup Settled' = Flight \cup Settled
    BY <2>2, <2>3
  <2> QED
    BY <1>2, <1>4, <2>2, <2>4, <2>5 DEF InPlace, Unused
<1> QED
  BY <1>3, <1>5, <1>6, <1>7 DEF Flow

LEMMA AlwaysInPlace == Spec => []InPlace
BY InPlaceInit, InPlaceNext, PTL DEF Spec

\* The places of an envelope, by holder and position.
LEMMA PlacesOf ==
  ASSUME NEW e \in Envelopes, NEW p \in Places(e)
  PROVE  \/ p = <<"handler", None, 0>> /\ e \in Pending
         \/ \E h \in Holders : \E i \in At(contents[h], e) : p = <<h[1], h[2], i>>
<1>1. CASE p \in {p1 \in {<<"handler", None, 0>>} : WithHandler(e)}
  BY <1>1 DEF Pending
<1>2. CASE \E w \in Workers : p \in {"queue"} \X {w} \X At(workerQueue[w], e)
  <2>1. PICK w \in Workers : p \in {"queue"} \X {w} \X At(workerQueue[w], e)
    BY <1>2
  <2>2. PICK i \in At(workerQueue[w], e) : p = <<"queue", w, i>>
    BY <2>1
  <2> DEFINE h == <<"queue", w>>
  <2>3. h \in Holders /\ contents[h] = workerQueue[w] /\ h[1] = "queue" /\ h[2] = w
    BY HoldersNext
  <2> HIDE DEF h
  <2> QED
    BY <2>2, <2>3
<1>3. CASE \E s \in Sessions : p \in {"rest"} \X {s} \X At(session[s].rest, e)
  <2>1. PICK s \in Sessions : p \in {"rest"} \X {s} \X At(session[s].rest, e)
    BY <1>3
  <2>2. PICK i \in At(session[s].rest, e) : p = <<"rest", s, i>>
    BY <2>1
  <2> DEFINE h == <<"rest", s>>
  <2>3. h \in Holders /\ contents[h] = session[s].rest /\ h[1] = "rest" /\ h[2] = s
    BY HoldersNext
  <2> HIDE DEF h
  <2> QED
    BY <2>2, <2>3
<1>4. CASE \E s \in Sessions : p \in {"wire"} \X {s} \X At(session[s].wire, e)
  <2>1. PICK s \in Sessions : p \in {"wire"} \X {s} \X At(session[s].wire, e)
    BY <1>4
  <2>2. PICK i \in At(session[s].wire, e) : p = <<"wire", s, i>>
    BY <2>1
  <2> DEFINE h == <<"wire", s>>
  <2>3. h \in Holders /\ contents[h] = session[s].wire /\ h[1] = "wire" /\ h[2] = s
    BY HoldersNext
  <2> HIDE DEF h
  <2> QED
    BY <2>2, <2>3
<1> QED
  BY <1>1, <1>2, <1>3, <1>4 DEF Places

LEMMA InFlight ==
  Fits /\ OnePlace =>
    /\ Flight \subseteq Envelopes
    /\ \A e \in Envelopes : Places(e) # {} <=> e \in Flight
<1> SUFFICES ASSUME Fits, OnePlace
             PROVE  /\ Flight \subseteq Envelopes
                    /\ \A e \in Envelopes : Places(e) # {} <=> e \in Flight
  OBVIOUS
<1>1. ASSUME NEW e \in Envelopes, NEW p \in Places(e) PROVE e \in Flight
  <2>1. CASE e \in Pending
    BY <2>1 DEF Flight
  <2>2. CASE \E h \in Holders : \E i \in At(contents[h], e) : TRUE
    BY <2>2 DEF At, Elems, Held, Flight
  <2> QED
    BY <1>1, <2>1, <2>2, PlacesOf
<1>2. ASSUME NEW e \in Pending PROVE e \in Envelopes /\ Places(e) # {}
  <2>1. e \in Envelopes /\ WithHandler(e)
    BY DEF Pending
  <2>2. <<"handler", None, 0>> \in Places(e)
    BY <2>1 DEF Places
  <2> QED
    BY <2>1, <2>2
<1>3. ASSUME NEW e \in Held(contents) PROVE e \in Envelopes /\ Places(e) # {}
  <2>1. e \in Envelopes
    BY PlaceFacts
  <2>0. PICK h \in Holders : e \in Elems(contents[h])
    BY DEF Held
  <2>2. PICK i \in 1..Len(contents[h]) : contents[h][i] = e
    BY <2>0 DEF Elems
  <2>3. CASE \E w \in Workers : h = <<"queue", w>>
    <3>1. PICK w \in Workers : h = <<"queue", w>>
      BY <2>3
    <3>2. i \in At(workerQueue[w], e)
      BY <2>2, <3>1, HoldersNext DEF At
    <3>3. <<"queue", w, i>> \in {"queue"} \X {w} \X At(workerQueue[w], e)
      BY <3>2
    <3>4. <<"queue", w, i>> \in Places(e)
      BY <3>3 DEF Places
    <3> QED
      BY <2>1, <3>4
  <2>4. CASE \E s \in Sessions : h = <<"rest", s>>
    <3>1. PICK s \in Sessions : h = <<"rest", s>>
      BY <2>4
    <3>2. i \in At(session[s].rest, e)
      BY <2>2, <3>1, HoldersNext DEF At
    <3>3. <<"rest", s, i>> \in {"rest"} \X {s} \X At(session[s].rest, e)
      BY <3>2
    <3>4. <<"rest", s, i>> \in Places(e)
      BY <3>3 DEF Places
    <3> QED
      BY <2>1, <3>4
  <2>5. CASE \E s \in Sessions : h = <<"wire", s>>
    <3>1. PICK s \in Sessions : h = <<"wire", s>>
      BY <2>5
    <3>2. i \in At(session[s].wire, e)
      BY <2>2, <3>1, HoldersNext DEF At
    <3>3. <<"wire", s, i>> \in {"wire"} \X {s} \X At(session[s].wire, e)
      BY <3>2
    <3>4. <<"wire", s, i>> \in Places(e)
      BY <3>3 DEF Places
    <3> QED
      BY <2>1, <3>4
  <2> QED
    BY <2>3, <2>4, <2>5, HoldersNext
<1> QED
  BY <1>1, <1>2, <1>3 DEF Flight

LEMMA OneCopy == InPlace => AtMostOneCopy
<1> SUFFICES ASSUME InPlace, NEW e \in Envelopes
             PROVE  /\ \A p, q \in Places(e) : p = q
                    /\ e \in Settled => Places(e) = {}
  BY DEF AtMostOneCopy
<1>1. Fits /\ OnePlace /\ Flight \cap Settled = {}
  BY DEF InPlace
<1>2. e \in Settled => Places(e) = {}
  <2> QED
    BY <1>1, InFlight
<1>3. ASSUME NEW h \in Holders, NEW i \in At(contents[h], e)
      PROVE  e \in Elems(contents[h]) /\ e \in Held(contents) /\ i \in 1..Len(contents[h])
             /\ contents[h][i] = e
  BY DEF At, Elems, Held
<1>4. ASSUME NEW h \in Holders, NEW i \in At(contents[h], e),
             NEW g \in Holders, NEW j \in At(contents[g], e)
      PROVE  h = g /\ i = j
  <2>1. h = g
    BY <1>1, <1>3 DEF OnePlace, Apart
  <2>2. Distinct(contents[h])
    BY <1>1 DEF OnePlace, Apart
  <2> QED
    BY <1>3, <2>1, <2>2 DEF Distinct
<1>5. ASSUME NEW p \in Places(e), NEW q \in Places(e) PROVE p = q
  <2>1. CASE e \in Pending
    <3>1. e \notin Held(contents)
      BY <1>1, <2>1 DEF OnePlace
    <3> QED
      BY <1>3, <3>1, PlacesOf
  <2>2. CASE e \notin Pending
    <3>1. PICK h \in Holders : \E i \in At(contents[h], e) : p = <<h[1], h[2], i>>
      BY <2>2, PlacesOf
    <3>2. PICK g \in Holders : \E j \in At(contents[g], e) : q = <<g[1], g[2], j>>
      BY <2>2, PlacesOf
    <3> QED
      BY <1>4, <3>1, <3>2
  <2> QED
    BY <2>1, <2>2
<1> QED
  BY <1>2, <1>5

(***************************************************************************)
(* The types of the channel's state, among them the capacity of a worker's *)
(* queue, whatever is appended to it by dispatches and by failed flushes   *)
(* (enqueueControl, flushWorkerQueue, handleWorkerPoll).                   *)
(***************************************************************************)
THEOREM TypeCorrect == Spec => []TypeOK
<1>1. InPlace => TypeOK
  BY DEF InPlace, Fits
<1> QED
  BY <1>1, AlwaysInPlace, PTL

(***************************************************************************)
(* A request is in one place at a time and on its way only until it is     *)
(* settled, for every number of workers, sessions, runs and cancels, every *)
(* capacity and every poll size: no run is started twice.                  *)
(***************************************************************************)
THEOREM NoSecondCopy == Spec => []AtMostOneCopy
BY OneCopy, AlwaysInPlace, PTL

(***************************************************************************)
(* The workers map never names a session whose handler has returned or     *)
(* that belongs to another worker (handleWorkerConnect).                   *)
(***************************************************************************)
THEOREM NamedHandlersServe == Spec => []RegistryNamesLiveHandler
<1>1. Init => RegistryNamesLiveHandler
  BY DEF Init, RegistryNamesLiveHandler
<1>2. InPlace /\ RegistryNamesLiveHandler /\ [Next]_vars => RegistryNamesLiveHandler'
  <2> SUFFICES ASSUME InPlace, RegistryNamesLiveHandler, [Next]_vars,
                      NEW v \in Workers, workers'[v] # None
               PROVE  /\ session'[workers'[v]].pc \in Alive
                      /\ session'[workers'[v]].worker = v
    BY DEF RegistryNamesLiveHandler
  <2>1. /\ workers \in [Workers -> Sessions \cup {None}]
        /\ session \in [Sessions -> Session]
    BY DEF InPlace, Fits, TypeOK
  <2>2. workers[v] # None => /\ workers[v] \in Sessions
                             /\ session[workers[v]].pc \in Alive
                             /\ session[workers[v]].worker = v
    BY <2>1 DEF RegistryNamesLiveHandler
  <2>3. ASSUME workers' = workers,
               \A s \in Sessions : session[s].pc \in Alive =>
                 session'[s].pc \in Alive /\ session'[s].worker = session[s].worker
        PROVE  /\ session'[workers'[v]].pc \in Alive
               /\ session'[workers'[v]].worker = v
    BY <2>2, <2>3
  <2>4. CASE \E st \in Streams :
               DispatchRun(st) \/ DispatchCancel(st) \/ RecordRun(st) \/ ForgetRun(st)
    BY <2>3, <2>4 DEF DispatchRun, DispatchCancel, RecordRun, ForgetRun
  <2>5. CASE \E e \in Envelopes : Handlers(e)
    <3>1. PICK e \in Envelopes : Lookup(e) \/ Write(e) \/ Enqueue(e)
      BY <2>5 DEF Handlers
    <3>2. CASE Write(e)
      <4>1. workers' = workers
            /\ \E ok \in BOOLEAN :
                 session' = [session EXCEPT ![dispatch[e].to] = Sent(dispatch[e].to, e, ok)]
        BY <3>2 DEF Write
      <4>2. \A s \in Sessions : session'[s].pc = session[s].pc
                                /\ session'[s].worker = session[s].worker
        BY <2>1, <4>1 DEF Sent, Session
      <4> QED
        BY <2>3, <4>1, <4>2
    <3> QED
      BY <2>3, <3>1, <3>2 DEF Lookup, Enqueue
  <2>6. CASE \E s \in Sessions, w \in Workers : Connect(s, w)
    <3>1. PICK s \in Sessions, w \in Workers : Connect(s, w)
      BY <2>6
    <3>2. workers' = workers /\ session[s].pc = "free"
          /\ \A t \in Sessions : t # s => session'[t] = session[t]
      BY <2>1, <3>1 DEF Connect
    <3>3. "free" \notin Alive
      BY DEF Alive
    <3> QED
      BY <2>3, <3>2, <3>3
  <2>7. CASE \E s \in Sessions : Serve(s) \/ PeerGone(s) \/ Deliver(s)
    <3>1. PICK s \in Sessions : Serve(s) \/ PeerGone(s) \/ Deliver(s)
      BY <2>7
    <3>2. session[s] \in Session
      BY <2>1
    <3>3. CASE Register(s)
      <4> DEFINE w == session[s].worker
      <4>1. /\ workers' = [workers EXCEPT ![w] = s]
            /\ session[s].pc = "hello" /\ session'[s].pc = "registered"
            /\ session'[s].worker = w
            /\ \A t \in Sessions : t # s => session'[t] = session[t]
        BY <2>1, <3>2, <3>3 DEF Register, Session
      <4>2. CASE v = w
        BY <2>1, <4>1, <4>2 DEF Alive
      <4>3. CASE v # w
        <5>1. workers'[v] = workers[v]
          BY <2>1, <4>1, <4>3
        <5>2. workers[v] # s
          BY <2>2, <4>1, <5>1 DEF Alive
        <5> QED
          BY <2>2, <4>1, <5>1, <5>2
      <4> QED
        BY <4>2, <4>3
    <3>4. CASE Unregister(s)
      <4> DEFINE w == session[s].worker
      <4>1. /\ workers' = [workers EXCEPT ![w] = None]
            /\ \A t \in Sessions : t # s => session'[t] = session[t]
        BY <2>1, <3>4 DEF Unregister
      <4>2. v # w
        BY <2>1, <4>1
      <4>3. workers'[v] = workers[v] /\ workers[v] # s
        BY <2>1, <2>2, <4>1, <4>2
      <4> QED
        BY <2>2, <4>1, <4>3
    <3>5. CASE TakeQueue(s) \/ Requeue(s) \/ FlushReturns(s) \/ PeerGone(s) \/ Deliver(s)
      <4>1. workers' = workers
        BY <3>5 DEF TakeQueue, Requeue, FlushReturns, PeerGone, Deliver
      <4>2. /\ session'[s].pc \in {session[s].pc, "flush", "read"}
            /\ session'[s].worker = session[s].worker
            /\ \A t \in Sessions : t # s => session'[t] = session[t]
        <5>1. CASE TakeQueue(s)
          BY <2>1, <3>2, <5>1 DEF TakeQueue, Session
        <5>2. CASE Requeue(s)
          BY <2>1, <3>2, <5>2 DEF Requeue, Session
        <5>3. CASE FlushReturns(s)
          BY <2>1, <3>2, <5>3 DEF FlushReturns, Session
        <5>4. CASE PeerGone(s)
          BY <2>1, <3>2, <5>4 DEF PeerGone, Session
        <5>5. CASE Deliver(s)
          BY <2>1, <3>2, <5>5 DEF Deliver, Session
        <5> QED
          BY <3>5, <5>1, <5>2, <5>3, <5>4, <5>5
      <4>3. "flush" \in Alive /\ "read" \in Alive
        BY DEF Alive
      <4> QED
        BY <2>3, <4>1, <4>2, <4>3
    <3>6. CASE FlushNext(s)
      <4>1. workers' = workers
        BY <3>6 DEF FlushNext
      <4>2. /\ session'[s].pc \in {"flush", "requeue"}
            /\ session'[s].worker = session[s].worker
            /\ \A t \in Sessions : t # s => session'[t] = session[t]
        BY <2>1, <3>2, <3>6 DEF FlushNext, Sent, Session
      <4> QED
        BY <2>3, <4>1, <4>2 DEF Alive
    <3> QED
      BY <3>1, <3>3, <3>4, <3>5, <3>6 DEF Serve
  <2>8. CASE \E w \in Workers : Poll(w)
    BY <2>3, <2>8 DEF Poll, handleWorkerPoll
  <2>9. CASE UNCHANGED vars
    BY <2>3, <2>9 DEF vars
  <2> QED
    BY <2>4, <2>5, <2>6, <2>7, <2>8, <2>9 DEF Next
<1> QED
  BY <1>1, <1>2, AlwaysInPlace, PTL DEF Spec

-----------------------------------------------------------------------------
(* Whom a request is for *)

\* What has been dispatched to a worker.
For(w) == {e \in Envelopes : dispatch[e].pc # "idle" /\ dispatch[e].worker = w}

\* Where they are on their way, requests are with their worker.
Addressed ==
  /\ \A w \in Workers : Elems(workerQueue[w]) \cup received[w] \subseteq For(w)
  /\ \A s \in Sessions : Elems(session[s].rest) \cup Elems(session[s].wire)
                           \subseteq For(session[s].worker)

\* A handler that will write does so to a session of its worker.
WritesFit ==
  \A e \in Envelopes :
    dispatch[e].pc = "write" =>
      /\ session[dispatch[e].to].worker = dispatch[e].worker
      /\ session[dispatch[e].to].pc # "free"

\* A cancel is for the worker of its run, which the map runs remembers.
RunsFit ==
  /\ \A e \in Envelopes :
       dispatch[e].pc # "idle" =>
         /\ dispatch[<<e[1], 0>>].pc # "idle"
         /\ dispatch[<<e[1], 0>>].worker = dispatch[e].worker
  /\ \A st \in Streams :
       runs[st] # None => /\ dispatch[<<st, 0>>].pc # "idle"
                          /\ dispatch[<<st, 0>>].worker = runs[st]

WorkersFit == Addressed /\ WritesFit /\ RunsFit

\* A handler's step leaves the worker of every request as it is.
LEMMA HandlersKeepWorkers ==
  ASSUME Fits, NEW e \in Envelopes, Lookup(e) \/ Write(e) \/ Enqueue(e),
         NEW f \in Envelopes
  PROVE  /\ dispatch'[f].worker = dispatch[f].worker
         /\ dispatch'[f].pc # "idle" <=> dispatch[f].pc # "idle"
<1>1. dispatch \in [Envelopes -> Handler]
  BY DEF Fits, TypeOK
<1>2. dispatch[e].pc \in {"lookup", "write", "enqueue"}
  BY DEF Lookup, Write, Enqueue
<1>3. CASE Lookup(e)
  BY <1>1, <1>2, <1>3 DEF Lookup, Handler
<1>4. CASE Write(e)
  <2>1. PICK pc \in {"record", "done", "enqueue"} :
          dispatch' = [dispatch EXCEPT ![e].pc = pc, ![e].to = None]
    BY <1>4 DEF Write, Returned
  <2> QED
    BY <1>1, <1>2, <2>1 DEF Handler
<1>5. CASE Enqueue(e)
  BY <1>1, <1>2, <1>5 DEF Enqueue, Returned, Handler
<1> QED
  BY <1>3, <1>4, <1>5

LEMMA RunsKeepWorkers ==
  ASSUME Fits, NEW st \in Streams,
         DispatchRun(st) \/ DispatchCancel(st) \/ RecordRun(st) \/ ForgetRun(st),
         NEW f \in Envelopes, dispatch[f].pc # "idle"
  PROVE  dispatch'[f].worker = dispatch[f].worker /\ dispatch'[f].pc # "idle"
<1>1. dispatch \in [Envelopes -> Handler]
  BY DEF Fits, TypeOK
<1>2. ASSUME NEW e, NEW w, Number(e, w)
      PROVE  dispatch'[f].worker = dispatch[f].worker /\ dispatch'[f].pc # "idle"
  <2>1. e # f
    BY <1>2 DEF Number
  <2> QED
    BY <1>1, <1>2, <2>1 DEF Number
<1>3. CASE RecordRun(st)
  BY <1>1, <1>3 DEF RecordRun, Handler
<1>4. CASE ForgetRun(st)
  BY <1>4 DEF ForgetRun
<1> QED
  BY <1>2, <1>3, <1>4 DEF DispatchRun, DispatchCancel

\* What one session's goroutines and its peer can move, and where to.
SessionMoves(s) ==
  LET w == session[s].worker
  IN  /\ w \in Workers /\ session[s].pc # "free"
      /\ session'[s].worker = w /\ session'[s].pc # "free"
      /\ \A t \in Sessions : t # s => session'[t] = session[t]
      /\ Elems(session'[s].rest)
           \subseteq Elems(session[s].rest) \cup Elems(workerQueue[w])
      /\ Elems(session'[s].wire)
           \subseteq Elems(session[s].wire) \cup Elems(session[s].rest)
      /\ \A v \in Workers : v # w => workerQueue'[v] = workerQueue[v]
      /\ Elems(workerQueue'[w])
           \subseteq Elems(workerQueue[w]) \cup Elems(session[s].rest)
      /\ \A v \in Workers : v # w => received'[v] = received[v]
      /\ received'[w] \subseteq received[w] \cup Elems(session[s].wire)
      /\ UNCHANGED <<runs, dispatch>>

LEMMA SessionsMove ==
  ASSUME Fits, OnePlace, NEW s \in Sessions, Serve(s) \/ PeerGone(s) \/ Deliver(s)
  PROVE  SessionMoves(s)
<1> DEFINE w == session[s].worker
           rest == session[s].rest
           wire == session[s].wire
<1>1. session[s].pc # "free"
  BY DEF Fits, SessionsFit, Serve, Register, TakeQueue, FlushNext, Requeue,
         FlushReturns, Unregister, PeerGone, Deliver
<1>2. /\ w \in Workers /\ session[s] \in Session
      /\ session \in [Sessions -> Session]
      /\ workerQueue \in [Workers -> Seq(Envelopes)]
      /\ received \in [Workers -> SUBSET Envelopes]
  BY <1>1 DEF Fits, SessionsFit, TypeOK
<1>3. /\ rest \in Seq(Envelopes) /\ Distinct(rest)
      /\ wire \in Seq(Envelopes) /\ Distinct(wire)
      /\ Distinct(workerQueue[w]) /\ Elems(rest) \cap Elems(workerQueue[w]) = {}
  BY <1>2, PlaceFacts
<1>4. \A q \in Seq(Envelopes) : q # <<>> /\ Distinct(q) =>
        /\ Head(q) \in Elems(q) /\ Head(q) \in Envelopes
        /\ Elems(Tail(q)) \subseteq Elems(q)
  BY TailElems
<1>5. CASE Register(s) \/ FlushReturns(s) \/ Unregister(s)
  <2>1. /\ session'[s].pc \in {"registered", "read", "closed"}
        /\ session'[s].worker = w
        /\ session'[s].rest = rest /\ session'[s].wire = wire
        /\ \A t \in Sessions : t # s => session'[t] = session[t]
        /\ UNCHANGED <<workerQueue, runs, dispatch, received>>
    BY <1>2, <1>5 DEF Register, FlushReturns, Unregister, Session
  <2> QED
    BY <1>1, <1>2, <2>1 DEF SessionMoves
<1>6. CASE TakeQueue(s)
  <2>1. /\ session'[s].pc = "flush" /\ session'[s].worker = w
        /\ session'[s].rest = workerQueue[w] /\ session'[s].wire = wire
        /\ \A t \in Sessions : t # s => session'[t] = session[t]
        /\ workerQueue'[w] = <<>>
        /\ \A v \in Workers : v # w => workerQueue'[v] = workerQueue[v]
        /\ UNCHANGED <<runs, dispatch, received>>
    BY <1>2, <1>6 DEF TakeQueue, Session
  <2> QED
    BY <1>1, <1>2, <2>1, NoElems DEF SessionMoves
<1>7. CASE FlushNext(s)
  <2>1. PICK ok \in BOOLEAN :
          session' = [session EXCEPT ![s] =
            IF ok THEN [Sent(s, Head(rest), ok) EXCEPT !.rest = Tail(@)]
                  ELSE [Sent(s, Head(rest), ok) EXCEPT !.pc = "requeue"]]
    BY <1>7 DEF FlushNext
  <2>2. /\ rest # <<>> /\ session[s].pc = "flush"
        /\ UNCHANGED <<workerQueue, runs, dispatch, received>>
    BY <1>7 DEF FlushNext
  <2>3. /\ session'[s].pc \in {"flush", "requeue"} /\ session'[s].worker = w
        /\ session'[s].rest \in {rest, Tail(rest)}
        /\ session'[s].wire \in {wire, Append(wire, Head(rest))}
        /\ \A t \in Sessions : t # s => session'[t] = session[t]
    BY <1>2, <2>1, <2>2 DEF Sent, Session
  <2> HIDE DEF rest, wire
  <2>4. /\ Elems(Tail(rest)) \subseteq Elems(rest)
        /\ Elems(Append(wire, Head(rest))) = Elems(wire) \cup {Head(rest)}
        /\ Head(rest) \in Elems(rest)
    BY <1>3, <1>4, <2>2, AppendElems
  <2>5. /\ Elems(session'[s].rest) \subseteq Elems(rest)
        /\ Elems(session'[s].wire) \subseteq Elems(wire) \cup Elems(rest)
    BY <2>3, <2>4
  <2> QED
    BY <1>1, <1>2, <2>2, <2>3, <2>5 DEF SessionMoves, rest, wire
<1>8. CASE Requeue(s)
  <2>1. /\ rest # <<>> /\ enqueueControl(w, Head(rest))
        /\ session'[s].pc = session[s].pc /\ session'[s].worker = w
        /\ session'[s].rest = Tail(rest) /\ session'[s].wire = wire
        /\ \A t \in Sessions : t # s => session'[t] = session[t]
        /\ UNCHANGED <<runs, dispatch, received>>
    BY <1>2, <1>8 DEF Requeue, Session
  <2> HIDE DEF rest, wire
  <2>2. /\ Head(rest) \in Envelopes /\ Head(rest) \in Elems(rest)
        /\ Elems(Tail(rest)) \subseteq Elems(rest)
        /\ Head(rest) \notin Elems(workerQueue[w])
    BY <1>3, <1>4, <2>1
  <2>3. /\ Elems(workerQueue'[w]) \subseteq Elems(workerQueue[w]) \cup {Head(rest)}
        /\ \A v \in Workers : v # w => workerQueue'[v] = workerQueue[v]
    BY <1>2, <1>3, <2>1, <2>2, EnqueueTypes DEF Fits
  <2> QED
    BY <1>1, <1>2, <2>1, <2>2, <2>3 DEF SessionMoves, rest, wire
<1>9. CASE PeerGone(s)
  <2>1. /\ session'[s].pc = session[s].pc /\ session'[s].worker = w
        /\ session'[s].rest = rest /\ session'[s].wire = <<>>
        /\ \A t \in Sessions : t # s => session'[t] = session[t]
        /\ UNCHANGED <<workerQueue, runs, dispatch, received>>
    BY <1>2, <1>9 DEF PeerGone, Session
  <2> QED
    BY <1>1, <1>2, <2>1, NoElems DEF SessionMoves
<1>10. CASE Deliver(s)
  <2>1. /\ wire # <<>>
        /\ session'[s].pc = session[s].pc /\ session'[s].worker = w
        /\ session'[s].rest = rest /\ session'[s].wire = Tail(wire)
        /\ \A t \in Sessions : t # s => session'[t] = session[t]
        /\ received'[w] = received[w] \cup {Head(wire)}
        /\ \A v \in Workers : v # w => received'[v] = received[v]
        /\ UNCHANGED <<workerQueue, runs, dispatch>>
    BY <1>2, <1>10 DEF Deliver, Session
  <2> HIDE DEF rest, wire
  <2>2. Head(wire) \in Elems(wire) /\ Elems(Tail(wire)) \subseteq Elems(wire)
    BY <1>3, <1>4, <2>1
  <2> QED
    BY <1>1, <1>2, <2>1, <2>2 DEF SessionMoves, rest, wire
<1> QED
  BY <1>5, <1>6, <1>7, <1>8, <1>9, <1>10 DEF Serve

\* Steps of the handlers of requests.
LEMMA RunsStayFit ==
  ASSUME Fits, WorkersFit, NEW st \in Streams,
         DispatchRun(st) \/ DispatchCancel(st) \/ RecordRun(st) \/ ForgetRun(st)
  PROVE  WorkersFit'
<1> DEFINE e0 == <<st, 0>>
<1>1. /\ e0 \in Envelopes /\ dispatch \in [Envelopes -> Handler]
      /\ runs \in [Streams -> Workers \cup {None}]
  BY RunEnvelope DEF Fits, TypeOK
<1>2. \A f \in Envelopes : dispatch[f].pc # "idle" =>
        dispatch'[f].worker = dispatch[f].worker /\ dispatch'[f].pc # "idle"
  BY RunsKeepWorkers
<1>3. UNCHANGED <<workerQueue, session, received>>
  BY DEF DispatchRun, DispatchCancel, RecordRun, ForgetRun
<1>4. Addressed'
  <2>1. \A w : For(w) \subseteq For(w)'
    BY <1>2 DEF For
  <2> QED
    BY <1>3, <2>1 DEF WorkersFit, Addressed
<1>5. WritesFit'
  <2>1. \A f \in Envelopes : dispatch'[f].pc = "write" => dispatch'[f] = dispatch[f]
    <3>1. ASSUME NEW e \in Envelopes, NEW w, Number(e, w)
          PROVE  \A f \in Envelopes : dispatch'[f].pc = "write" => dispatch'[f] = dispatch[f]
      BY <1>1, <3>1 DEF Number, Handler
    <3>2. CASE RecordRun(st)
      BY <1>1, <3>2 DEF RecordRun, Handler
    <3>3. \A k \in 1..MaxCancels : <<st, k>> \in Envelopes
      BY ControlChannelAssumption DEF Envelopes
    <3> QED
      BY <1>1, <3>1, <3>2, <3>3 DEF DispatchRun, DispatchCancel, ForgetRun
  <2> QED
    BY <1>3, <2>1 DEF WorkersFit, WritesFit
<1>6. RunsFit'
  <2>1. ASSUME NEW e \in Envelopes, NEW w \in Workers, Number(e, w), e[1] = st,
               runs' = runs, e = e0 \/ runs[st] = w
        PROVE  RunsFit'
    <3>1. /\ dispatch[e].pc = "idle" /\ dispatch'[e].pc = "lookup"
          /\ dispatch'[e].worker = w
          /\ \A f \in Envelopes : f # e => dispatch'[f] = dispatch[f]
      BY <1>1, <2>1 DEF Number, Handler
    <3>2. \A f \in Envelopes : f[1] \in Streams /\ <<f[1], 0>> \in Envelopes
      BY RunEnvelope DEF Envelopes
    <3>3. CASE e = e0
      <4>1. \A f \in Envelopes : f[1] = st => dispatch[f].pc = "idle"
        BY <3>1, <3>3 DEF WorkersFit, RunsFit
      <4>2. ASSUME NEW f \in Envelopes, dispatch'[f].pc # "idle"
            PROVE  /\ dispatch'[<<f[1], 0>>].pc # "idle"
                   /\ dispatch'[<<f[1], 0>>].worker = dispatch'[f].worker
        <5>1. CASE f = e
          BY <2>1, <3>1, <3>3, <5>1
        <5>2. CASE f # e
          <6>1. dispatch'[f] = dispatch[f] /\ f[1] # st /\ <<f[1], 0>> # e
            BY <3>1, <3>3, <4>1, <4>2, <5>2
          <6> QED
            BY <3>1, <3>2, <4>2, <6>1 DEF WorkersFit, RunsFit
        <5> QED
          BY <5>1, <5>2
      <4>3. ASSUME NEW t \in Streams, runs[t] # None
            PROVE  dispatch'[<<t, 0>>].pc # "idle" /\ dispatch'[<<t, 0>>].worker = runs[t]
        <5>1. dispatch[<<t, 0>>].pc # "idle" /\ dispatch[<<t, 0>>].worker = runs[t]
          BY <4>3 DEF WorkersFit, RunsFit
        <5> QED
          BY <1>2, <5>1, RunEnvelope
      <4> QED
        BY <2>1, <4>2, <4>3 DEF RunsFit
    <3>4. CASE e # e0 /\ runs[st] = w
      <4>1. /\ dispatch[e0].pc # "idle" /\ dispatch[e0].worker = w
            /\ dispatch'[e0] = dispatch[e0]
        BY <1>1, <3>1, <3>4, ControlChannelAssumption DEF WorkersFit, RunsFit
      <4>2. ASSUME NEW f \in Envelopes, dispatch'[f].pc # "idle"
            PROVE  /\ dispatch'[<<f[1], 0>>].pc # "idle"
                   /\ dispatch'[<<f[1], 0>>].worker = dispatch'[f].worker
        <5>1. CASE f = e
          BY <2>1, <3>1, <4>1, <5>1
        <5>2. CASE f # e
          <6>1. dispatch[f].pc # "idle" /\ dispatch'[f] = dispatch[f]
            BY <3>1, <4>2, <5>2
          <6> QED
            BY <1>2, <3>2, <6>1 DEF WorkersFit, RunsFit
        <5> QED
          BY <5>1, <5>2
      <4>3. ASSUME NEW t \in Streams, runs[t] # None
            PROVE  dispatch'[<<t, 0>>].pc # "idle" /\ dispatch'[<<t, 0>>].worker = runs[t]
        <5>1. dispatch[<<t, 0>>].pc # "idle" /\ dispatch[<<t, 0>>].worker = runs[t]
          BY <4>3 DEF WorkersFit, RunsFit
        <5> QED
          BY <1>2, <5>1, RunEnvelope
      <4> QED
        BY <2>1, <4>2, <4>3 DEF RunsFit
    <3> QED
      BY <2>1, <3>3, <3>4
  <2>2. CASE DispatchRun(st)
    BY <1>1, <2>1, <2>2 DEF DispatchRun
  <2>3. CASE DispatchCancel(st)
    <3>1. \A k \in 1..MaxCancels : <<st, k>> \in Envelopes
      BY ControlChannelAssumption DEF Envelopes
    <3>2. runs[st] \in Workers
      BY <1>1, <2>3 DEF DispatchCancel
    <3> QED
      BY <2>1, <2>3, <3>1, <3>2 DEF DispatchCancel
  <2>4. CASE RecordRun(st) \/ ForgetRun(st)
    <3>1. \A f \in Envelopes : /\ dispatch'[f].worker = dispatch[f].worker
                               /\ dispatch'[f].pc # "idle" <=> dispatch[f].pc # "idle"
      BY <1>1, <2>4 DEF RecordRun, ForgetRun, Handler
    <3>2. \A t \in Streams : runs'[t] # None =>
            \/ runs'[t] = runs[t]
            \/ t = st /\ dispatch[e0].pc = "record" /\ runs'[t] = dispatch[e0].worker
      BY <1>1, <2>4 DEF RecordRun, ForgetRun
    <3>3. \A f \in Envelopes : <<f[1], 0>> \in Envelopes
      BY RunEnvelope DEF Envelopes
    <3> QED
      BY <3>1, <3>2, <3>3, RunEnvelope DEF WorkersFit, RunsFit
  <2> QED
    BY <2>2, <2>3, <2>4
<1> QED
  BY <1>4, <1>5, <1>6 DEF WorkersFit

LEMMA HandlersStayFit ==
  ASSUME Fits, OnePlace, RegistryNamesLiveHandler, WorkersFit,
         NEW e \in Envelopes, Lookup(e) \/ Write(e) \/ Enqueue(e)
  PROVE  WorkersFit'
<1>1. /\ dispatch \in [Envelopes -> Handler] /\ session \in [Sessions -> Session]
      /\ workers \in [Workers -> Sessions \cup {None}]
      /\ dispatch[e].worker \in Workers
  BY DEF Fits, TypeOK, HandlersFit, Lookup, Write, Enqueue
<1>2. \A f \in Envelopes : /\ dispatch'[f].worker = dispatch[f].worker
                           /\ dispatch'[f].pc # "idle" <=> dispatch[f].pc # "idle"
  BY HandlersKeepWorkers
<1>3. /\ \A w : For(w)' = For(w)
      /\ e \in For(dispatch[e].worker)
  BY <1>2 DEF For, Lookup, Write, Enqueue
<1>4. RunsFit'
  <2>1. \A f \in Envelopes : <<f[1], 0>> \in Envelopes
    BY RunEnvelope DEF Envelopes
  <2>2. runs' = runs
    BY DEF Lookup, Write, Enqueue
  <2> QED
    BY <1>2, <2>1, <2>2, RunEnvelope DEF WorkersFit, RunsFit
<1>5. CASE Lookup(e)
  <2>1. UNCHANGED <<workerQueue, session, received>>
    BY <1>5 DEF Lookup
  <2>2. Addressed'
    BY <1>3, <2>1 DEF WorkersFit, Addressed
  <2>3. ASSUME NEW f \in Envelopes, dispatch'[f].pc = "write"
        PROVE  /\ session[dispatch'[f].to].worker = dispatch'[f].worker
               /\ session[dispatch'[f].to].pc # "free"
    <3>1. CASE f = e
      <4>1. /\ workers[dispatch[e].worker] # None
            /\ dispatch'[e].to = workers[dispatch[e].worker]
        BY <1>1, <1>5, <2>3, <3>1 DEF Lookup, Handler
      <4> QED
        BY <1>1, <1>2, <3>1, <4>1 DEF RegistryNamesLiveHandler, Alive
    <3>2. CASE f # e
      BY <1>1, <1>5, <2>3, <3>2 DEF Lookup, WorkersFit, WritesFit
    <3> QED
      BY <3>1, <3>2
  <2> QED
    BY <1>4, <2>1, <2>2, <2>3 DEF WorkersFit, WritesFit
<1>6. CASE Write(e)
  <2> DEFINE s == dispatch[e].to
  <2>1. s \in Sessions /\ session[s].worker = dispatch[e].worker
    BY <1>6 DEF Write, Fits, HandlersFit, WorkersFit, WritesFit
  <2>2. PICK ok \in BOOLEAN : session' = [session EXCEPT ![s] = Sent(s, e, ok)]
    BY <1>6 DEF Write
  <2>3. /\ UNCHANGED <<workerQueue, received>>
        /\ \A f \in Envelopes : dispatch'[f].pc = "write" => dispatch'[f] = dispatch[f]
    <3>1. PICK pc \in {"record", "done", "enqueue"} :
            dispatch' = [dispatch EXCEPT ![e].pc = pc, ![e].to = None]
      BY <1>6 DEF Write, Returned
    <3>2. /\ dispatch'[e].pc # "write"
          /\ \A f \in Envelopes : f # e => dispatch'[f] = dispatch[f]
      BY <1>1, <3>1 DEF Handler
    <3> QED
      BY <1>6, <3>2 DEF Write
  <2> HIDE DEF s
  <2>4. /\ session'[s].worker = session[s].worker /\ session'[s].pc = session[s].pc
        /\ session'[s].rest = session[s].rest
        /\ session'[s].wire \in {session[s].wire, Append(session[s].wire, e)}
        /\ \A t \in Sessions : t # s => session'[t] = session[t]
    BY <1>1, <2>1, <2>2 DEF Sent, Session
  <2>5. Elems(session'[s].wire) \subseteq Elems(session[s].wire) \cup {e}
    <3>1. session[s].wire \in Seq(Envelopes)
      BY <1>1, <2>1 DEF Session
    <3>2. Elems(Append(session[s].wire, e)) = Elems(session[s].wire) \cup {e}
      BY <3>1, AppendElems
    <3> QED
      BY <2>4, <3>2
  <2>6. Addressed'
    <3>1. \A w \in Workers : Elems(workerQueue'[w]) \cup received'[w] \subseteq For(w)'
      BY <1>3, <2>3 DEF WorkersFit, Addressed
    <3>2. /\ e \in For(session[s].worker)
          /\ \A t \in Sessions : Elems(session[t].rest) \cup Elems(session[t].wire)
                                  \subseteq For(session[t].worker)
      BY <1>3, <2>1 DEF WorkersFit, Addressed
    <3>3. \A t \in Sessions : /\ session'[t].worker = session[t].worker
                              /\ Elems(session'[t].rest) \cup Elems(session'[t].wire)
                                   \subseteq For(session[t].worker)
      BY <2>1, <2>4, <2>5, <3>2
    <3> QED
      BY <1>3, <3>1, <3>3 DEF Addressed
  <2>7. WritesFit'
    <3>1. \A f \in Envelopes : dispatch[f].pc = "write" => dispatch[f].to \in Sessions
      BY DEF Fits, HandlersFit
    <3> QED
      BY <2>3, <2>4, <3>1 DEF WorkersFit, WritesFit
  <2> QED
    BY <1>4, <2>6, <2>7 DEF WorkersFit
<1>7. CASE Enqueue(e)
  <2> DEFINE w == dispatch[e].worker
  <2>1. enqueueControl(w, e) /\ UNCHANGED <<session, received>>
    BY <1>7 DEF Enqueue
  <2>2. Distinct(workerQueue[w]) /\ e \notin Elems(workerQueue[w])
    <3>1. e \in Pending /\ Pending \cap Held(contents) = {}
      BY <1>7 DEF Enqueue, Pending, WithHandler, OnePlace
    <3> QED
      BY <1>1, <3>1, PlaceFacts
  <2>3. /\ Elems(workerQueue'[w]) \subseteq Elems(workerQueue[w]) \cup {e}
        /\ \A v \in Workers : v # w => workerQueue'[v] = workerQueue[v]
    BY <1>1, <2>1, <2>2, EnqueueTypes DEF Fits
  <2>4. Addressed'
    <3> HIDE DEF w
    <3>1. e \in For(w)
      BY <1>3 DEF w
    <3> QED
      BY <1>3, <2>1, <2>3, <3>1 DEF WorkersFit, Addressed
  <2>5. WritesFit'
    BY <1>1, <1>7 DEF Enqueue, Returned, WorkersFit, WritesFit
  <2> QED
    BY <1>4, <2>4, <2>5 DEF WorkersFit
<1> QED
  BY <1>5, <1>6, <1>7

\* Steps of the sessions, and polls.
LEMMA ConnectStaysFit ==
  ASSUME Fits, WorkersFit, NEW s \in Sessions, NEW w \in Workers, Connect(s, w)
  PROVE  WorkersFit'
<1>1. /\ session[s].pc = "free"
      /\ session'[s].rest = <<>> /\ session'[s].wire = <<>>
      /\ \A t \in Sessions : t # s => session'[t] = session[t]
      /\ UNCHANGED <<workerQueue, runs, dispatch, received>>
  BY DEF Connect, Fits, TypeOK, FreeSession
<1>2. \A v : For(v)' = For(v)
  BY <1>1 DEF For
<1>3. Addressed'
  BY <1>1, <1>2, NoElems DEF WorkersFit, Addressed
<1>4. WritesFit'
  <2>1. \A e \in Envelopes : dispatch[e].pc = "write" => dispatch[e].to \in Sessions
    BY DEF Fits, HandlersFit
  <2> QED
    BY <1>1, <2>1 DEF WorkersFit, WritesFit
<1> QED
  BY <1>1, <1>3, <1>4 DEF WorkersFit, RunsFit

LEMMA SessionsStayFit ==
  ASSUME Fits, OnePlace, WorkersFit, NEW s \in Sessions,
         Serve(s) \/ PeerGone(s) \/ Deliver(s)
  PROVE  WorkersFit'
<1>1. SessionMoves(s)
  BY SessionsMove
<1>2. \A v : For(v)' = For(v)
  BY <1>1 DEF For, SessionMoves
<1>3. Addressed'
  <2> DEFINE w == session[s].worker
             all == Elems(session[s].rest) \cup Elems(session[s].wire)
                      \cup Elems(workerQueue[w]) \cup received[w]
  <2>1. w \in Workers /\ all \subseteq For(w)
    BY <1>1 DEF SessionMoves, WorkersFit, Addressed
  <2>2. /\ Elems(session'[s].rest) \subseteq all
        /\ Elems(session'[s].wire) \subseteq all
        /\ Elems(workerQueue'[w]) \subseteq all
        /\ received'[w] \subseteq all
        /\ session'[s].worker = w
    BY <1>1 DEF SessionMoves
  <2> HIDE DEF all
  <2>3. /\ \A v \in Workers : v # w => workerQueue'[v] = workerQueue[v]
                                       /\ received'[v] = received[v]
        /\ \A t \in Sessions : t # s => session'[t] = session[t]
    BY <1>1 DEF SessionMoves
  <2> HIDE DEF w
  <2>4. \A v \in Workers : Elems(workerQueue'[v]) \cup received'[v] \subseteq For(v)'
    BY <1>2, <2>1, <2>2, <2>3 DEF WorkersFit, Addressed
  <2>5. \A t \in Sessions : Elems(session'[t].rest) \cup Elems(session'[t].wire)
                              \subseteq For(session[t].worker)
                            /\ session'[t].worker = session[t].worker
    BY <2>1, <2>2, <2>3 DEF WorkersFit, Addressed, w
  <2> QED
    BY <1>2, <2>4, <2>5 DEF Addressed
<1>4. WritesFit'
  <2>1. \A e \in Envelopes : dispatch[e].pc = "write" => dispatch[e].to \in Sessions
    BY DEF Fits, HandlersFit
  <2> QED
    BY <1>1, <2>1 DEF SessionMoves, WorkersFit, WritesFit
<1> QED
  BY <1>1, <1>3, <1>4 DEF SessionMoves, WorkersFit, RunsFit

LEMMA PollStaysFit ==
  ASSUME Fits, OnePlace, WorkersFit, NEW w \in Workers, Poll(w)
  PROVE  WorkersFit'
<1>1. PICK last \in LastSeqs(w), arrives \in BOOLEAN : handleWorkerPoll(w, last, arrives)
  BY DEF Poll
<1>2. Polled(w)
  BY <1>1, PlaceFacts, PollTypes DEF Fits
<1>3. UNCHANGED <<runs, dispatch, session>>
  BY <1>1 DEF handleWorkerPoll
<1>4. /\ \A v \in Workers : v # w => workerQueue'[v] = workerQueue[v]
                                     /\ received'[v] = received[v]
      /\ Elems(workerQueue'[w]) \cup received'[w]
           \subseteq Elems(workerQueue[w]) \cup received[w]
  <2>1. received \in [Workers -> SUBSET Envelopes]
    BY DEF Fits, TypeOK
  <2> QED
    BY <1>2, <2>1 DEF Polled
<1>5. \A v : For(v)' = For(v)
  BY <1>3 DEF For
<1>6. Addressed'
  BY <1>3, <1>4, <1>5 DEF WorkersFit, Addressed
<1> QED
  BY <1>3, <1>6 DEF WorkersFit, WritesFit, RunsFit

LEMMA WorkersFitNext ==
  InPlace /\ RegistryNamesLiveHandler /\ WorkersFit /\ [Next]_vars => WorkersFit'
<1> SUFFICES ASSUME Fits, OnePlace, RegistryNamesLiveHandler, WorkersFit, [Next]_vars
             PROVE  WorkersFit'
  BY DEF InPlace
<1>1. CASE \E st \in Streams :
             DispatchRun(st) \/ DispatchCancel(st) \/ RecordRun(st) \/ ForgetRun(st)
  BY <1>1, RunsStayFit
<1>2. CASE \E e \in Envelopes : Handlers(e)
  BY <1>2, HandlersStayFit DEF Handlers
<1>3. CASE \E s \in Sessions, w \in Workers : Connect(s, w)
  BY <1>3, ConnectStaysFit
<1>4. CASE \E s \in Sessions : Serve(s) \/ PeerGone(s) \/ Deliver(s)
  BY <1>4, SessionsStayFit
<1>5. CASE \E w \in Workers : Poll(w)
  BY <1>5, PollStaysFit
<1>6. CASE UNCHANGED vars
  BY <1>6 DEF vars, WorkersFit, Addressed, WritesFit, RunsFit, For
<1> QED
  BY <1>1, <1>2, <1>3, <1>4, <1>5, <1>6 DEF Next

LEMMA WorkersFitInit == Init => WorkersFit
<1> SUFFICES ASSUME Init PROVE WorkersFit
  OBVIOUS
<1>1. /\ \A e \in Envelopes : dispatch[e].pc = "idle"
      /\ \A w \in Workers : workerQueue[w] = <<>> /\ received[w] = {}
      /\ \A s \in Sessions : session[s].rest = <<>> /\ session[s].wire = <<>>
      /\ \A st \in Streams : runs[st] = None
  BY DEF Init, FreeSession
<1> QED
  BY <1>1, NoElems DEF WorkersFit, Addressed, WritesFit, RunsFit

LEMMA AlwaysWithWorkers == Spec => []WorkersFit
BY WorkersFitInit, WorkersFitNext, AlwaysInPlace, NamedHandlersServe, PTL DEF Spec

(***************************************************************************)
(* Whatever is received of a stream, its run request and all its cancels,  *)
(* one worker receives: the worker is looked up by name for the dispatch,  *)
(* remembered in runs for the cancels, and found again through sessions    *)
(* and queues that change between the critical sections.                   *)
(***************************************************************************)
OneWorkerPerRun ==
  \A v, w \in Workers : \A d \in received[v], e \in received[w] :
    d[1] = e[1] => v = w

(***************************************************************************)
(* All of a stream's requests that are received at all are received by one *)
(* worker, for any number of workers, connections and requests: a handler  *)
(* that has looked a session up never writes to another worker's, and a    *)
(* flush that fails puts nothing into another worker's queue.              *)
(***************************************************************************)
THEOREM StreamsKeepTheirWorker == Spec => []OneWorkerPerRun
<1>1. WorkersFit => OneWorkerPerRun
  <2> SUFFICES ASSUME WorkersFit, NEW v \in Workers, NEW w \in Workers,
                      NEW d \in received[v], NEW e \in received[w], d[1] = e[1]
               PROVE  v = w
    BY DEF OneWorkerPerRun
  <2>1. d \in For(v) /\ e \in For(w)
    BY DEF WorkersFit, Addressed
  <2> QED
    BY <2>1 DEF For, WorkersFit, RunsFit
<1> QED
  BY <1>1, AlwaysWithWorkers, PTL

-----------------------------------------------------------------------------
(* The mailbox *)

LEMMA OutstandingIs ==
  Fits /\ OnePlace =>
    Outstanding = [w \in Workers |-> {e \in Flight : dispatch[e].worker = w}]
<1> SUFFICES ASSUME Fits, OnePlace, NEW w \in Workers
             PROVE  {e \in Envelopes : dispatch[e].worker = w /\ Places(e) # {}}
                      = {e \in Flight : dispatch[e].worker = w}
  BY DEF Outstanding
<1> QED
  BY InFlight

\* No step gives a dispatched request another worker.
LEMMA WorkersKept ==
  ASSUME Fits, [Next]_vars, NEW e \in Envelopes, dispatch[e].pc # "idle"
  PROVE  dispatch'[e].worker = dispatch[e].worker
<1>1. CASE \E st \in Streams :
             DispatchRun(st) \/ DispatchCancel(st) \/ RecordRun(st) \/ ForgetRun(st)
  BY <1>1, RunsKeepWorkers
<1>2. CASE \E f \in Envelopes : Handlers(f)
  BY <1>2, HandlersKeepWorkers DEF Handlers
<1>3. CASE \E s \in Sessions, w \in Workers : Connect(s, w)
  BY <1>3 DEF Connect
<1>4. CASE \E s \in Sessions : Serve(s) \/ PeerGone(s) \/ Deliver(s)
  BY <1>4 DEF Serve, Register, TakeQueue, FlushNext, Requeue, FlushReturns,
             Unregister, PeerGone, Deliver
<1>5. CASE \E w \in Workers : Poll(w)
  BY <1>5 DEF Poll, handleWorkerPoll
<1>6. CASE UNCHANGED vars
  BY <1>6 DEF vars
<1> QED
  BY <1>1, <1>2, <1>3, <1>4, <1>5, <1>6 DEF Next

\* What a step settles in a worker's favour was dispatched to that worker.
LEMMA SettledForWorker ==
  ASSUME InPlace, WorkersFit', [Next]_vars,
         NEW w \in Workers, NEW batch, NEW gone, Settles(w, batch, gone)
  PROVE  batch \subseteq {e \in Flight : dispatch[e].worker = w}
<1> SUFFICES ASSUME NEW e \in batch
             PROVE  e \in Flight /\ dispatch[e].worker = w
  OBVIOUS
<1>1. e \in Flight /\ e \in Envelopes /\ dispatch[e].pc # "idle"
  BY InFlight DEF Settles, InPlace, Unused
<1>2. e \in received'[w]
  BY DEF Settles, InPlace, Fits, TypeOK
<1>3. dispatch'[e].worker = w
  BY <1>2 DEF WorkersFit, Addressed, For
<1> QED
  BY <1>1, <1>3, WorkersKept DEF InPlace

(***************************************************************************)
(* The channel implements the mailbox: every one of its steps dispatches   *)
(* one request that was never on its way, settles requests that are, those *)
(* received with the worker they were dispatched to, or leaves the mailbox *)
(* as it is.                                                               *)
(***************************************************************************)
THEOREM ChannelImplementsMailbox == Spec => ImplementsMailbox
<1> USE DEF Box!mailboxVars
<1>1. Init => Box!MailboxInit
  <2> SUFFICES ASSUME Init PROVE Box!MailboxInit
    OBVIOUS
  <2>1. Fits /\ OnePlace
    BY InPlaceInit DEF InPlace
  <2>2. \A h \in Holders : contents[h] = <<>>
    <3>1. /\ \A w \in Workers : workerQueue[w] = <<>>
          /\ \A s \in Sessions : session[s].rest = <<>> /\ session[s].wire = <<>>
      BY DEF Init, FreeSession
    <3> QED
      BY <3>1, NothingHeld
  <2>3. Flight = {}
    BY <2>2, NoElems DEF Init, Flight, Pending, WithHandler, Held
  <2>4. Outstanding = [w \in Workers |-> {}]
    BY <2>1, <2>3, OutstandingIs
  <2> QED
    BY <2>4 DEF Init, Box!MailboxInit
<1>2. InPlace /\ InPlace' /\ WorkersFit' /\ [Next]_vars
        => [Box!MailboxNext]_<<Outstanding, received, lost>>
  <2> SUFFICES ASSUME InPlace, InPlace', WorkersFit', [Next]_vars
               PROVE  [Box!MailboxNext]_<<Outstanding, received, lost>>
    OBVIOUS
  <2> DEFINE To(w) == {e \in Flight : dispatch[e].worker = w}
             ToNext(w) == {e \in Flight' : dispatch'[e].worker = w}
  <2>1. Outstanding = [w \in Workers |-> To(w)]
    BY OutstandingIs DEF InPlace
  <2>2. Outstanding' = [w \in Workers |-> ToNext(w)]
    <3>1. (Fits /\ OnePlace)' =>
            (Outstanding = [w \in Workers |-> {e \in Flight : dispatch[e].worker = w}])'
      BY OutstandingIs, PTL
    <3> QED
      BY <3>1 DEF InPlace
  <2>3. \A e \in Flight : dispatch'[e].worker = dispatch[e].worker
    BY InFlight, WorkersKept DEF InPlace, Unused
  <2>4. Flow
    BY FlowNext DEF InPlace, Unused
  <2>5. CASE Stays
    <3>1. Flight' = Flight /\ UNCHANGED <<received, lost>>
      BY <2>5 DEF Stays
    <3>2. \A w \in Workers : ToNext(w) = To(w)
      BY <2>3, <3>1
    <3> QED
      BY <2>1, <2>2, <3>1, <3>2
  <2>6. CASE \E e \in Envelopes : Starts(e)
    <3>1. PICK e \in Envelopes : Starts(e)
      BY <2>6
    <3>2. /\ Flight' = Flight \cup {e} /\ UNCHANGED <<received, lost>>
          /\ dispatch[e].pc = "idle" /\ dispatch'[e].pc # "idle"
      BY <3>1 DEF Starts
    <3>3. e \notin Flight \cup Settled
      BY <3>2 DEF InPlace, Unused
    <3> DEFINE w == dispatch'[e].worker
    <3>4. w \in Workers
      BY <3>2 DEF InPlace, Fits, HandlersFit
    <3> HIDE DEF w
    <3>5. \A v \in Workers : ToNext(v) = IF v = w THEN To(v) \cup {e} ELSE To(v)
      BY <2>3, <3>2, <3>3 DEF w
    <3>6. Outstanding' = [Outstanding EXCEPT ![w] = @ \cup {e}]
      <4> HIDE DEF To, ToNext
      <4> QED
        BY <2>1, <2>2, <3>4, <3>5
    <3>7. e \notin lost /\ \A v \in Workers : e \notin Outstanding[v] \cup received[v]
      BY <2>1, <3>3 DEF Settled
    <3> QED
      BY <3>2, <3>4, <3>6, <3>7 DEF Box!MailboxNext, Box!Dispatch
  <2>7. CASE \E w \in Workers : \E batch, gone : Settles(w, batch, gone)
    <3>0. PICK w \in Workers : \E batch, gone : Settles(w, batch, gone)
      BY <2>7
    <3>1. PICK batch, gone : Settles(w, batch, gone)
      BY <3>0
    <3>2. /\ Flight' = Flight \ (batch \cup gone)
          /\ gone \subseteq Flight /\ batch \cap gone = {}
          /\ received' = [received EXCEPT ![w] = @ \cup batch]
          /\ lost' = lost \cup gone
      BY <3>1 DEF Settles
    <3>3. batch \subseteq Outstanding[w] \ gone
      BY <2>1, <3>1, <3>2, SettledForWorker
    <3>4. \A v \in Workers : ToNext(v) = To(v) \ (batch \cup gone)
      BY <2>3, <3>2
    <3>5. Outstanding' = [v \in Workers |-> Outstanding[v] \ (batch \cup gone)]
      <4> HIDE DEF To, ToNext
      <4> QED
        BY <2>1, <2>2, <3>4
    <3>6. gone \subseteq UNION {Outstanding[v] : v \in Workers}
      <4> SUFFICES ASSUME NEW e \in gone
                   PROVE  \E v \in Workers : e \in Outstanding[v]
        OBVIOUS
      <4>1. e \in Flight /\ e \in Envelopes /\ dispatch[e].pc # "idle"
        BY <3>2, InFlight DEF InPlace, Unused
      <4>2. dispatch[e].worker \in Workers
        BY <4>1 DEF InPlace, Fits, HandlersFit
      <4> QED
        BY <2>1, <4>1, <4>2
    <3>7. Box!Resolve(w, batch, gone)
      BY <3>2, <3>3, <3>5 DEF Box!Resolve
    <3> QED
      BY <3>3, <3>6, <3>7 DEF Box!MailboxNext
  <2> QED
    BY <2>4, <2>5, <2>6, <2>7 DEF Flow
<1> QED
  BY <1>1, <1>2, AlwaysInPlace, AlwaysWithWorkers, PTL
     DEF Spec, ImplementsMailbox, Box!MailboxSpec
=============================================================================
