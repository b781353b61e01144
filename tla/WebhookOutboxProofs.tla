------------------------ MODULE WebhookOutboxProofs -------------------------
(***************************************************************************)
(* For any processes, threads, items and limits: the webhook outbox is     *)
(* well typed, its queue is bounded, the files follow memory, and until a  *)
(* process crashes every item is in exactly one place.                     *)
(*                                                                         *)
(* The lemmas of the first part say what cutting, joining and picking from *)
(* a queue does to its length and to its items.  The second part has one   *)
(* set of facts per action, which the four theorems share.                 *)
(***************************************************************************)
EXTENDS WebhookOutbox, FiniteSetTheorems, SequenceTheorems, TLAPS

(* No item is in the queue twice.                                          *)
Uniq(s) == \A i, j \in 1..Len(s) : s[i].id = s[j].id => i = j

(* The assumptions on the constants, one by one.                           *)
LEMMA Consts ==
    /\ MaxItems \in Nat /\ MaxOutbox \in Nat /\ MaxDlq \in Nat
    /\ MaxN \in Nat /\ MaxAttempts \in Nat /\ MaxAttempts >= 1
    /\ MaxCrash \in Nat /\ MaxDiskFail \in Nat
    /\ Enqueuer \cap Drainer = {} /\ IsFiniteSet(Proc) /\ IsFiniteSet(Drainer)
    /\ None \notin Proc /\ None \notin Id
BY ConstAssumption

(* A queue cut in two at c.                                                *)
LEMMA Split ==
    ASSUME NEW S, NEW s \in Seq(S), NEW c \in 0..Len(s)
    PROVE  LET a == SubSeq(s, 1, c)
               b == SubSeq(s, c + 1, Len(s))
           IN /\ a \in Seq(S) /\ b \in Seq(S) /\ Len(a) = c /\ Len(b) = Len(s) - c
              /\ Ids(a) \cup Ids(b) = Ids(s)
              /\ Uniq(s) => Uniq(a) /\ Uniq(b) /\ Ids(a) \cap Ids(b) = {}
<1> DEFINE a == SubSeq(s, 1, c)
           b == SubSeq(s, c + 1, Len(s))
<1>0. Len(s) \in Nat /\ c \in Nat /\ c <= Len(s) /\ \A i \in 1..Len(s) : s[i] \in S
  OBVIOUS
<1>1. a \in Seq(S) /\ Len(a) = c /\ \A i \in 1..c : a[i] = s[i]
  <2>1. \A i \in 1..c : s[i] \in S
    BY <1>0
  <2>2. /\ SubSeq(s, 1, c) \in Seq(S)
        /\ Len(SubSeq(s, 1, c)) = IF 1 <= c THEN c - 1 + 1 ELSE 0
        /\ \A i \in 1..c - 1 + 1 : SubSeq(s, 1, c)[i] = s[1 + i - 1]
    BY <1>0, <2>1, SubSeqProperties
  <2> QED BY <1>0, <2>2
<1>2. b \in Seq(S) /\ Len(b) = Len(s) - c /\ \A i \in 1..Len(s) - c : b[i] = s[c + i]
  <2>1. \A i \in c + 1..Len(s) : s[i] \in S
    BY <1>0
  <2>2. /\ SubSeq(s, c + 1, Len(s)) \in Seq(S)
        /\ Len(SubSeq(s, c + 1, Len(s))) = IF c + 1 <= Len(s) THEN Len(s) - (c + 1) + 1 ELSE 0
        /\ \A i \in 1..Len(s) - (c + 1) + 1 : SubSeq(s, c + 1, Len(s))[i] = s[c + 1 + i - 1]
    BY <1>0, <2>1, SubSeqProperties
  <2> QED BY <1>0, <2>2
<1> HIDE DEF a, b
<1>3. Ids(a) \cup Ids(b) = Ids(s)
  <2>1. ASSUME NEW x \in Ids(a) PROVE x \in Ids(s)
    BY <1>0, <1>1, <2>1 DEF Ids
  <2>2. ASSUME NEW x \in Ids(b) PROVE x \in Ids(s)
    <3>1. PICK i \in 1..Len(b) : x = b[i].id
      BY <2>2 DEF Ids
    <3>2. c + i \in 1..Len(s) /\ x = s[c + i].id
      BY <1>0, <1>2, <3>1
    <3> QED BY <3>2 DEF Ids
  <2>3. ASSUME NEW x \in Ids(s) PROVE x \in Ids(a) \cup Ids(b)
    <3>1. PICK k \in 1..Len(s) : x = s[k].id
      BY <2>3 DEF Ids
    <3>2. CASE k <= c
      <4>1. k \in 1..Len(a) /\ x = a[k].id
        BY <1>0, <1>1, <3>1, <3>2
      <4> QED BY <4>1 DEF Ids
    <3>3. CASE k > c
      <4>1. k - c \in 1..Len(b) /\ x = b[k - c].id
        BY <1>0, <1>2, <3>1, <3>3
      <4> QED BY <4>1 DEF Ids
    <3> QED BY <1>0, <3>2, <3>3
  <2> QED BY <2>1, <2>2, <2>3
<1>4. ASSUME Uniq(s) PROVE Uniq(a) /\ Uniq(b) /\ Ids(a) \cap Ids(b) = {}
  <2>1. Uniq(a)
    BY <1>0, <1>1, <1>4 DEF Uniq
  <2>2. ASSUME NEW i \in 1..Len(b), NEW j \in 1..Len(b), b[i].id = b[j].id PROVE i = j
    <3>1. c + i \in 1..Len(s) /\ c + j \in 1..Len(s) /\ s[c + i].id = s[c + j].id
      BY <1>0, <1>2, <2>2
    <3>2. c + i = c + j
      BY <1>4, <3>1 DEF Uniq
    <3> QED BY <1>0, <3>2
  <2>3. ASSUME NEW x, x \in Ids(a), x \in Ids(b) PROVE FALSE
    <3>1. PICK i \in 1..Len(a) : x = a[i].id
      BY <2>3 DEF Ids
    <3>2. PICK j \in 1..Len(b) : x = b[j].id
      BY <2>3 DEF Ids
    <3>3. i \in 1..Len(s) /\ c + j \in 1..Len(s) /\ s[i].id = s[c + j].id /\ i # c + j
      <4>1. i \in 1..c /\ a[i] = s[i] /\ j \in 1..Len(s) - c /\ b[j] = s[c + j]
        BY <1>1, <1>2
      <4>2. i \in 1..Len(s) /\ c + j \in 1..Len(s) /\ i # c + j
        BY <1>0, <4>1
      <4> QED BY <3>1, <3>2, <4>1, <4>2
    <3> QED BY <1>4, <3>3 DEF Uniq
  <2> QED BY <2>1, <2>2, <2>3 DEF Uniq
<1> QED BY <1>1, <1>2, <1>3, <1>4 DEF a, b

(* One queue put behind another.                                           *)
LEMMA Concat ==
    ASSUME NEW S, NEW s \in Seq(S), NEW u \in Seq(S)
    PROVE  /\ s \o u \in Seq(S) /\ Len(s \o u) = Len(s) + Len(u)
           /\ Ids(s \o u) = Ids(s) \cup Ids(u)
           /\ Uniq(s) /\ Uniq(u) /\ Ids(s) \cap Ids(u) = {} => Uniq(s \o u)
<1> DEFINE w == s \o u
<1>0. Len(s) \in Nat /\ Len(u) \in Nat
  OBVIOUS
<1>1. /\ w \in Seq(S) /\ Len(w) = Len(s) + Len(u)
      /\ \A i \in 1..Len(s) + Len(u) : w[i] = IF i <= Len(s) THEN s[i] ELSE u[i - Len(s)]
  BY ConcatProperties
<1> HIDE DEF w
<1>2. ASSUME NEW x \in Ids(w) PROVE x \in Ids(s) \cup Ids(u)
  <2>1. PICK k \in 1..Len(w) : x = w[k].id
    BY <1>2 DEF Ids
  <2>2. CASE k <= Len(s)
    <3>1. k \in 1..Len(s) /\ x = s[k].id
      BY <1>0, <1>1, <2>1, <2>2
    <3> QED BY <3>1 DEF Ids
  <2>3. CASE k > Len(s)
    <3>1. k - Len(s) \in 1..Len(u) /\ x = u[k - Len(s)].id
      BY <1>0, <1>1, <2>1, <2>3
    <3> QED BY <3>1 DEF Ids
  <2> QED BY <1>0, <1>1, <2>2, <2>3
<1>3. ASSUME NEW x \in Ids(s) PROVE x \in Ids(w)
  <2>1. PICK k \in 1..Len(s) : x = s[k].id
    BY <1>3 DEF Ids
  <2>2. k \in 1..Len(w) /\ x = w[k].id
    BY <1>0, <1>1, <2>1
  <2> QED BY <2>2 DEF Ids
<1>4. ASSUME NEW x \in Ids(u) PROVE x \in Ids(w)
  <2>1. PICK k \in 1..Len(u) : x = u[k].id
    BY <1>4 DEF Ids
  <2>2. k + Len(s) \in 1..Len(w) /\ x = w[k + Len(s)].id
    <3>1. k + Len(s) \in 1..Len(w) /\ ~(k + Len(s) <= Len(s)) /\ k + Len(s) - Len(s) = k
      BY <1>0, <1>1
    <3>2. w[k + Len(s)] = u[k]
      BY <1>1, <3>1
    <3> QED BY <2>1, <3>1, <3>2
  <2> QED BY <2>2 DEF Ids
<1>5. ASSUME Uniq(s), Uniq(u), Ids(s) \cap Ids(u) = {} PROVE Uniq(w)
  <2> SUFFICES ASSUME NEW i \in 1..Len(w), NEW j \in 1..Len(w), w[i].id = w[j].id PROVE i = j
    BY DEF Uniq
  <2>1. ASSUME NEW x \in 1..Len(s), NEW y \in 1..Len(u), s[x].id = u[y].id PROVE FALSE
    BY <1>5, <2>1 DEF Ids
  <2>2. CASE i <= Len(s) /\ j <= Len(s)
    BY <1>0, <1>1, <1>5, <2>2 DEF Uniq
  <2>3. CASE i > Len(s) /\ j > Len(s)
    <3>1. i - Len(s) \in 1..Len(u) /\ j - Len(s) \in 1..Len(u) /\ u[i - Len(s)].id = u[j - Len(s)].id
      BY <1>0, <1>1, <2>3
    <3>2. i - Len(s) = j - Len(s)
      BY <1>5, <3>1 DEF Uniq
    <3> QED BY <1>0, <1>1, <3>2
  <2>4. CASE i <= Len(s) /\ j > Len(s)
    <3>1. i \in 1..Len(s) /\ j - Len(s) \in 1..Len(u) /\ s[i].id = u[j - Len(s)].id
      BY <1>0, <1>1, <2>4
    <3> QED BY <2>1, <3>1
  <2>5. CASE i > Len(s) /\ j <= Len(s)
    <3>1. j \in 1..Len(s) /\ i - Len(s) \in 1..Len(u) /\ s[j].id = u[i - Len(s)].id
      BY <1>0, <1>1, <2>5
    <3> QED BY <2>1, <3>1
  <2> QED BY <1>0, <1>1, <2>2, <2>3, <2>4, <2>5
<1> QED BY <1>1, <1>2, <1>3, <1>4, <1>5 DEF w

(* One item, added at the end or taken from the front.                     *)
LEMMA One ==
    ASSUME NEW S, NEW x \in S
    PROVE  <<x>> \in Seq(S) /\ Len(<<x>>) = 1 /\ Ids(<<x>>) = {x.id} /\ Uniq(<<x>>)
BY DEF Ids, Uniq

LEMMA Push ==
    ASSUME NEW S, NEW s \in Seq(S), NEW x \in S
    PROVE  /\ Append(s, x) \in Seq(S) /\ Len(Append(s, x)) = Len(s) + 1
           /\ Ids(Append(s, x)) = Ids(s) \cup {x.id}
           /\ Uniq(s) /\ x.id \notin Ids(s) => Uniq(Append(s, x))
<1>1. Append(s, x) = s \o <<x>>
  OBVIOUS
<1>2. <<x>> \in Seq(S) /\ Len(<<x>>) = 1 /\ Ids(<<x>>) = {x.id} /\ Uniq(<<x>>)
  BY One
<1>3. /\ s \o <<x>> \in Seq(S) /\ Len(s \o <<x>>) = Len(s) + Len(<<x>>)
      /\ Ids(s \o <<x>>) = Ids(s) \cup Ids(<<x>>)
      /\ Uniq(s) /\ Uniq(<<x>>) /\ Ids(s) \cap Ids(<<x>>) = {} => Uniq(s \o <<x>>)
  BY <1>2, Concat
<1> QED BY <1>1, <1>2, <1>3

LEMMA Pop ==
    ASSUME NEW S, NEW s \in Seq(S), s # <<>>
    PROVE  /\ Tail(s) \in Seq(S) /\ Len(Tail(s)) = Len(s) - 1 /\ Head(s) \in S /\ Len(s) >= 1
           /\ Ids(s) = Ids(Tail(s)) \cup {Head(s).id}
           /\ Uniq(s) => Uniq(Tail(s)) /\ Head(s).id \notin Ids(Tail(s))
<1>0. /\ Tail(s) \in Seq(S) /\ Len(Tail(s)) = Len(s) - 1 /\ Head(s) \in S /\ Len(s) >= 1
      /\ Len(s) \in Nat /\ Head(s) = s[1] /\ \A i \in 1..Len(s) - 1 : Tail(s)[i] = s[i + 1]
  OBVIOUS
<1> DEFINE u == Tail(s)
<1>1. u \in Seq(S) /\ Len(u) = Len(s) - 1 /\ \A i \in 1..Len(s) - 1 : u[i] = s[i + 1]
  BY <1>0
<1> HIDE DEF u
<1>2. ASSUME NEW x \in Ids(s), x # Head(s).id PROVE x \in Ids(u)
  <2>1. PICK k \in 1..Len(s) : x = s[k].id
    BY <1>2 DEF Ids
  <2>2. k - 1 \in 1..Len(u) /\ x = u[k - 1].id
    BY <1>0, <1>1, <1>2, <2>1
  <2> QED BY <2>2 DEF Ids
<1>3. ASSUME NEW x \in Ids(u) PROVE \E k \in 2..Len(s) : x = s[k].id
  <2>1. PICK k \in 1..Len(u) : x = u[k].id
    BY <1>3 DEF Ids
  <2>2. k + 1 \in 2..Len(s) /\ x = s[k + 1].id
    BY <1>0, <1>1, <2>1
  <2> QED BY <2>2
<1>4. Ids(s) = Ids(u) \cup {Head(s).id}
  <2>1. Head(s).id \in Ids(s)
    BY <1>0 DEF Ids
  <2>2. \A x \in Ids(u) : x \in Ids(s)
    <3> SUFFICES ASSUME NEW x \in Ids(u) PROVE x \in Ids(s)
      OBVIOUS
    <3>1. PICK k \in 2..Len(s) : x = s[k].id
      BY <1>3
    <3>2. k \in 1..Len(s)
      BY <1>0
    <3> QED BY <3>1, <3>2 DEF Ids
  <2> QED BY <1>2, <2>1, <2>2
<1>5. ASSUME Uniq(s) PROVE Uniq(u) /\ Head(s).id \notin Ids(u)
  <2>1. ASSUME NEW i \in 1..Len(u), NEW j \in 1..Len(u), u[i].id = u[j].id PROVE i = j
    <3>1. i + 1 \in 1..Len(s) /\ j + 1 \in 1..Len(s) /\ s[i + 1].id = s[j + 1].id
      BY <1>0, <1>1, <2>1
    <3>2. i + 1 = j + 1
      BY <1>5, <3>1 DEF Uniq
    <3> QED BY <1>0, <1>1, <3>2
  <2>2. ASSUME Head(s).id \in Ids(u) PROVE FALSE
    <3>1. PICK k \in 2..Len(s) : Head(s).id = s[k].id
      BY <1>3, <2>2
    <3>2. k \in 1..Len(s) /\ 1 \in 1..Len(s) /\ k # 1 /\ s[k].id = s[1].id
      BY <1>0, <3>1
    <3> QED BY <1>5, <3>2 DEF Uniq
  <2> QED BY <2>1, <2>2 DEF Uniq
<1> QED BY <1>0, <1>4, <1>5 DEF u

(* The items of s at the positions K, and the others.                      *)
LEMMA Pick ==
    ASSUME NEW S, NEW s \in Seq(S), NEW K \in SUBSET (1..Len(s)), NEW u \in Picked(s, K)
    PROVE  /\ u \in Seq(S) /\ Len(u) = Cardinality(K) /\ Cardinality(K) \in Nat
           /\ \A x : x \in Ids(u) <=> \E k \in K : x = s[k].id
           /\ Uniq(s) => Uniq(u)
<1>0. Len(s) \in Nat /\ \A i \in 1..Len(s) : s[i] \in S
  OBVIOUS
<1>1. Cardinality(K) \in Nat
  <2>1. IsFiniteSet(1..Len(s))
    BY <1>0, FS_Interval
  <2> QED BY <2>1, FS_Subset, FS_CardinalityType
<1> DEFINE n == Cardinality(K)
<1>2. PICK f \in [1..n -> K] :
        /\ \A i, j \in DOMAIN f : i < j => f[i] < f[j]
        /\ \A k \in K : \E i \in DOMAIN f : f[i] = k
        /\ u = [i \in DOMAIN f |-> s[f[i]]]
  BY DEF Picked
<1>3. u = [i \in 1..n |-> s[f[i]]] /\ \A i \in 1..n : f[i] \in K
  BY <1>2
<1> HIDE DEF n
<1>4. n \in Nat
  BY <1>1 DEF n
<1>5. \A i \in 1..n : f[i] \in 1..Len(s) /\ s[f[i]] \in S
  BY <1>0, <1>3
<1>6. u \in [1..n -> S]
  BY <1>3, <1>5
<1>7. u \in Seq(S) /\ Len(u) = n
  BY <1>4, <1>6
<1>8. \A i \in 1..n : u[i] = s[f[i]]
  BY <1>3
<1>9. ASSUME NEW x, x \in Ids(u) PROVE \E k \in K : x = s[k].id
  BY <1>3, <1>7, <1>8, <1>9 DEF Ids
<1>10. ASSUME NEW x, NEW k \in K, x = s[k].id PROVE x \in Ids(u)
  <2>1. PICK i \in 1..n : f[i] = k
    BY <1>2
  <2>2. i \in 1..Len(u) /\ x = u[i].id
    BY <1>7, <1>8, <1>10, <2>1
  <2> QED BY <2>2 DEF Ids
<1>11. ASSUME Uniq(s), NEW i \in 1..n, NEW j \in 1..n, u[i].id = u[j].id PROVE i = j
  <2>1. f[i] = f[j]
    BY <1>5, <1>8, <1>11 DEF Uniq
  <2>2. i \in Int /\ j \in Int /\ f[i] \in Int /\ f[j] \in Int
    BY <1>0, <1>4, <1>5
  <2>3. ~(i < j) /\ ~(j < i)
    BY <1>2, <2>1, <2>2
  <2> QED BY <2>2, <2>3
<1> QED BY <1>1, <1>7, <1>9, <1>10, <1>11 DEF Uniq, n

(* A drain takes the items at K and leaves the others: nothing is lost and *)
(* nothing is in both.                                                     *)
LEMMA PickRest ==
    ASSUME NEW S, NEW s \in Seq(S), NEW K \in SUBSET (1..Len(s)),
           NEW u \in Picked(s, K), NEW r \in Rest(s, K)
    PROVE  /\ u \in Seq(S) /\ r \in Seq(S)
           /\ Len(u) = Cardinality(K) /\ Len(u) + Len(r) = Len(s)
           /\ Ids(u) \cup Ids(r) = Ids(s)
           /\ Uniq(s) => Uniq(u) /\ Uniq(r) /\ Ids(u) \cap Ids(r) = {}
<1> DEFINE M == (1..Len(s)) \ K
<1>0. Len(s) \in Nat /\ DOMAIN s = 1..Len(s) /\ M \in SUBSET (1..Len(s)) /\ r \in Picked(s, M)
  <2>1. Len(s) \in Nat /\ DOMAIN s = 1..Len(s)
    OBVIOUS
  <2>2. (DOMAIN s) \ K = M
    BY <2>1
  <2>3. r \in Picked(s, (DOMAIN s) \ K)
    BY Zenon DEF Rest
  <2> QED BY <2>1, <2>2, <2>3
<1>1. /\ u \in Seq(S) /\ Len(u) = Cardinality(K) /\ Cardinality(K) \in Nat
      /\ \A x : x \in Ids(u) <=> \E k \in K : x = s[k].id
      /\ Uniq(s) => Uniq(u)
  BY Pick
<1>2. /\ r \in Seq(S) /\ Len(r) = Cardinality(M) /\ Cardinality(M) \in Nat
      /\ \A x : x \in Ids(r) <=> \E k \in M : x = s[k].id
      /\ Uniq(s) => Uniq(r)
  <2> HIDE DEF M
  <2> QED BY <1>0, Pick
<1>3. Cardinality(K) + Cardinality(M) = Len(s)
  <2>1. IsFiniteSet(1..Len(s)) /\ Cardinality(1..Len(s)) = Len(s)
    <3>1. IsFiniteSet(1..Len(s)) /\ Cardinality(1..Len(s)) = IF 1 > Len(s) THEN 0 ELSE Len(s) - 1 + 1
      BY <1>0, FS_Interval
    <3> QED BY <1>0, <3>1
  <2>2. Cardinality(M) = Cardinality(1..Len(s)) - Cardinality((1..Len(s)) \cap K)
    BY <2>1, FS_Difference
  <2>3. (1..Len(s)) \cap K = K
    OBVIOUS
  <2>4. Cardinality((1..Len(s)) \cap K) = Cardinality(K)
    BY <2>3
  <2> HIDE DEF M
  <2>5. Cardinality(M) = Len(s) - Cardinality(K)
    BY <2>1, <2>2, <2>4
  <2> QED BY <1>0, <1>1, <1>2, <2>5
<1>4. Ids(u) \cup Ids(r) = Ids(s)
  <2>1. \A x : x \in Ids(s) <=> \E k \in 1..Len(s) : x = s[k].id
    BY DEF Ids
  <2> QED BY <1>1, <1>2, <2>1
<1>5. ASSUME Uniq(s), NEW x, x \in Ids(u), x \in Ids(r) PROVE FALSE
  <2>1. PICK k \in K : x = s[k].id
    BY <1>1, <1>5
  <2>2. PICK m \in M : x = s[m].id
    BY <1>2, <1>5
  <2> QED BY <1>5, <2>1, <2>2 DEF Uniq
<1> QED BY <1>1, <1>2, <1>3, <1>4, <1>5

(* What the limit of a queue takes away.                                   *)
LEMMA Limit ==
    ASSUME NEW S, NEW s \in Seq(S), NEW n \in Nat
    PROVE  /\ Cut(s, n) \in Seq(S) /\ Trim(s, n) \in Seq(S) /\ Len(Trim(s, n)) <= n
           /\ Len(Cut(s, n)) \in 0..Len(s) /\ Trim(s, n) = SubSeq(s, Len(Cut(s, n)) + 1, Len(s))
           /\ Ids(Cut(s, n)) \cup Ids(Trim(s, n)) = Ids(s)
           /\ Uniq(s) => /\ Uniq(Cut(s, n)) /\ Uniq(Trim(s, n))
                         /\ Ids(Cut(s, n)) \cap Ids(Trim(s, n)) = {}
<1> DEFINE c == Excess(s, n)
<1>1. Len(s) \in Nat
  OBVIOUS
<1>2. c \in 0..Len(s) /\ Len(s) - c <= n
  BY <1>1 DEF Excess
<1>3. Cut(s, n) = SubSeq(s, 1, c) /\ Trim(s, n) = SubSeq(s, c + 1, Len(s))
  BY DEF Cut, Trim
<1> HIDE DEF c
<1>4. LET a == SubSeq(s, 1, c)
          b == SubSeq(s, c + 1, Len(s))
      IN /\ a \in Seq(S) /\ b \in Seq(S) /\ Len(a) = c /\ Len(b) = Len(s) - c
         /\ Ids(a) \cup Ids(b) = Ids(s)
         /\ Uniq(s) => Uniq(a) /\ Uniq(b) /\ Ids(a) \cap Ids(b) = {}
  BY <1>2, Split
<1> QED BY <1>2, <1>3, <1>4

-----------------------------------------------------------------------------
(* An item that may be posted once more: a queue or a hand holds no other, *)
(* since PostFailed compares with a limit of at most MaxAttempts.          *)
Fresh == [id : Id, attempts : 0..MaxAttempts - 1]

(* ThreadType with only such items in the hand.                            *)
ThreadRec == [pc : {"idle", "post", "failed", "save_pending", "save_dlq"},
              hand : Seq(Fresh), item : Id \cup {None}, then : {"idle", "post"}]

(* What holds of thread t in state r while the processes u run.  A thread  *)
(* holds items only in a drain, at most MaxN, and the threads of a process *)
(* that is down have none.                                                 *)
ThreadOK(t, r, u) ==
    /\ r \in ThreadRec
    /\ r.pc = "idle" => r.hand = <<>>
    /\ r.pc \in {"save_pending", "save_dlq"} /\ r.then = "idle" => r.hand = <<>>
    /\ r.pc = "failed" => r.hand # <<>>
    /\ Len(r.hand) <= MaxN
    /\ r.hand # <<>> => t[2] \in Drainer
    /\ t[1] \notin u => r = Idle

(* The types of the other variables.                                       *)
Base ==
    /\ up \subseteq Proc
    /\ pending \in [Proc -> Seq(Fresh)] /\ dlq \in [Proc -> Seq(OutboxItem)]
    /\ filePending \in Seq(Fresh) /\ fileDlq \in Seq(OutboxItem)
    /\ owner \in [Id -> Proc \cup {None}]
    /\ acked \subseteq Id /\ delivered \subseteq Id /\ dropped \subseteq Id
    /\ crashes \in 0..MaxCrash /\ diskFails \in 0..MaxDiskFail

(* The inductive form of TypeOK.                                           *)
TypeInv ==
    /\ Base
    /\ th \in [Thread -> ThreadRec] /\ \A t \in Thread : ThreadOK(t, th[t], up)

(* Items that may be posted are items, and the identities of items are     *)
(* identities.                                                             *)
LEMMA FreshItem ==
    /\ \A x \in Fresh : x \in OutboxItem
    /\ \A s \in Seq(Fresh) : s \in Seq(OutboxItem)
    /\ \A s \in Seq(OutboxItem) : Ids(s) \subseteq Id
<1>1. ASSUME NEW x \in Fresh PROVE x \in OutboxItem
  BY Consts DEF Fresh, OutboxItem
<1>2. ASSUME NEW s \in Seq(Fresh) PROVE s \in Seq(OutboxItem)
  <2>1. Len(s) \in Nat /\ s \in [1..Len(s) -> Fresh]
    OBVIOUS
  <2>2. s \in [1..Len(s) -> OutboxItem]
    BY <1>1, <2>1
  <2> QED BY <2>1, <2>2
<1>3. ASSUME NEW s \in Seq(OutboxItem), NEW k \in 1..Len(s) PROVE s[k].id \in Id
  <2>1. s[k] \in OutboxItem
    OBVIOUS
  <2> QED BY <2>1 DEF OutboxItem
<1> QED BY <1>1, <1>2, <1>3 DEF Ids

LEMMA ThreadPairs ==
    /\ \A t \in Thread : t[1] \in Proc /\ t[2] \in Enqueuer \cup Drainer
    /\ \A t \in Proc \X Enqueuer : t \in Thread
    /\ \A t \in Proc \X Drainer : t \in Thread /\ t[2] \in Drainer
BY DEF Thread

LEMMA IdleRec ==
    /\ Idle \in ThreadRec /\ Idle.hand = <<>> /\ Idle.pc = "idle"
    /\ \A t, u : ThreadOK(t, Idle, u)
<1>1. Idle \in ThreadRec /\ Idle.hand = <<>> /\ Idle.pc = "idle"
  BY DEF Idle, ThreadRec
<1> QED BY <1>1, Consts DEF ThreadOK

(* One thread moves, in a process that runs.                               *)
LEMMA ThreadMoves ==
    ASSUME TypeInv, Base', up' = up, NEW t \in Thread, NEW r, ThreadOK(t, r, up),
           th' = [th EXCEPT ![t] = r]
    PROVE  TypeInv'
<1>1. r \in ThreadRec /\ th \in [Thread -> ThreadRec]
  BY DEF ThreadOK, TypeInv
<1>2. th' \in [Thread -> ThreadRec] /\ \A x \in Thread : th'[x] = IF x = t THEN r ELSE th[x]
  BY <1>1
<1>3. \A x \in Thread : ThreadOK(x, th[x], up)
  BY DEF TypeInv
<1>4. \A x \in Thread : ThreadOK(x, th'[x], up)
  BY <1>2, <1>3
<1> QED BY <1>2, <1>4 DEF TypeInv

(* A thread that does something belongs to a running process.              *)
LEMMA Awake ==
    ASSUME TypeInv, NEW t \in Thread, th[t].pc # "idle"
    PROVE  t[1] \in up
BY IdleRec DEF TypeInv, ThreadOK

(* PushDlq: what the limit discards (R) and what stays (d) are what was    *)
(* there and what came.                                                    *)
LEMMA DlqPush ==
    ASSUME TypeInv, NEW p \in Proc, NEW s \in Seq(OutboxItem), PushDlq(p, s)
    PROVE  \E d \in Seq(OutboxItem), R \in SUBSET Id :
             /\ dlq' = [dlq EXCEPT ![p] = d] /\ dropped' = dropped \cup R
             /\ R \cup Ids(d) = Ids(dlq[p]) \cup Ids(s)
             /\ Uniq(dlq[p]) /\ Uniq(s) /\ Ids(dlq[p]) \cap Ids(s) = {} =>
                   Uniq(d) /\ R \cap Ids(d) = {}
<1> DEFINE full == dlq[p] \o s
           d == Trim(full, MaxDlq)
           R == Ids(Cut(full, MaxDlq))
<1>0. dlq[p] \in Seq(OutboxItem)
  BY DEF TypeInv, Base
<1>1. /\ full \in Seq(OutboxItem) /\ Ids(full) = Ids(dlq[p]) \cup Ids(s)
      /\ Uniq(dlq[p]) /\ Uniq(s) /\ Ids(dlq[p]) \cap Ids(s) = {} => Uniq(full)
  BY <1>0, Concat
<1>2. dlq' = [dlq EXCEPT ![p] = d] /\ dropped' = dropped \cup R
  BY DEF PushDlq
<1> HIDE DEF full
<1>3. /\ Cut(full, MaxDlq) \in Seq(OutboxItem) /\ Trim(full, MaxDlq) \in Seq(OutboxItem)
      /\ Len(Trim(full, MaxDlq)) <= MaxDlq
      /\ Len(Cut(full, MaxDlq)) \in 0..Len(full)
      /\ Trim(full, MaxDlq) = SubSeq(full, Len(Cut(full, MaxDlq)) + 1, Len(full))
      /\ Ids(Cut(full, MaxDlq)) \cup Ids(Trim(full, MaxDlq)) = Ids(full)
      /\ Uniq(full) => /\ Uniq(Cut(full, MaxDlq)) /\ Uniq(Trim(full, MaxDlq))
                       /\ Ids(Cut(full, MaxDlq)) \cap Ids(Trim(full, MaxDlq)) = {}
  BY <1>1, Consts, Limit
<1>4. d \in Seq(OutboxItem) /\ R \in SUBSET Id
  BY <1>3, FreshItem
<1>5. R \cup Ids(d) = Ids(dlq[p]) \cup Ids(s)
  BY <1>1, <1>3
<1>6. Uniq(dlq[p]) /\ Uniq(s) /\ Ids(dlq[p]) \cap Ids(s) = {} => Uniq(d) /\ R \cap Ids(d) = {}
  BY <1>1, <1>3
<1> HIDE DEF d, R
<1> QED BY <1>2, <1>4, <1>5, <1>6

(* enqueue_webhook: what goes to the end of the pending queue, and what    *)
(* its limit takes from the front (m) to the dead letters.                 *)
LEMMA EnqueueFacts ==
    ASSUME TypeInv, NEW t \in Thread, NEW i \in Id, enqueue_webhook(t, i)
    PROVE  LET p == t[1] IN
           \E q \in Seq(Fresh), m \in Seq(Fresh) :
             /\ pending' = [pending EXCEPT ![p] = q] /\ Len(q) <= MaxOutbox
             /\ Ids(m) \cup Ids(q) = Ids(pending[p]) \cup {i}
             /\ Uniq(pending[p]) /\ i \notin Ids(pending[p]) =>
                   Uniq(m) /\ Uniq(q) /\ Ids(m) \cap Ids(q) = {}
             /\ PushDlq(p, m)
<1> DEFINE p == t[1]
           x == [id |-> i, attempts |-> 0]
           q == Append(pending[p], x)
<1>0. p \in Proc /\ pending[p] \in Seq(Fresh) /\ x \in Fresh /\ x.id = i
  <2>1. p \in Proc /\ pending \in [Proc -> Seq(Fresh)]
    BY ThreadPairs DEF TypeInv, Base
  <2>2. 0 \in 0..MaxAttempts - 1
    BY Consts
  <2>3. x \in Fresh /\ x.id = i
    BY <2>2 DEF Fresh
  <2> QED BY <2>1, <2>3
<1>1. /\ q \in Seq(Fresh) /\ Len(q) = Len(pending[p]) + 1
      /\ Ids(q) = Ids(pending[p]) \cup {x.id}
      /\ Uniq(pending[p]) /\ x.id \notin Ids(pending[p]) => Uniq(q)
  <2> HIDE DEF x
  <2> QED BY <1>0, Push
<1>2. /\ pending' = [pending EXCEPT ![p] = SubSeq(q, Len(Overflow(q)) + 1, Len(q))]
      /\ PushDlq(p, Overflow(q)) /\ Overflow(q) = Cut(q, MaxOutbox)
  BY DEF enqueue_webhook, Overflow
<1> HIDE DEF q
<1>3. /\ Cut(q, MaxOutbox) \in Seq(Fresh) /\ Trim(q, MaxOutbox) \in Seq(Fresh)
      /\ Len(Trim(q, MaxOutbox)) <= MaxOutbox
      /\ Len(Cut(q, MaxOutbox)) \in 0..Len(q)
      /\ Trim(q, MaxOutbox) = SubSeq(q, Len(Cut(q, MaxOutbox)) + 1, Len(q))
      /\ Ids(Cut(q, MaxOutbox)) \cup Ids(Trim(q, MaxOutbox)) = Ids(q)
      /\ Uniq(q) => /\ Uniq(Cut(q, MaxOutbox)) /\ Uniq(Trim(q, MaxOutbox))
                    /\ Ids(Cut(q, MaxOutbox)) \cap Ids(Trim(q, MaxOutbox)) = {}
  BY <1>1, Consts, Limit
<1> DEFINE m == Cut(q, MaxOutbox)
           l == Trim(q, MaxOutbox)
<1>4. pending' = [pending EXCEPT ![p] = l] /\ PushDlq(p, m)
  BY <1>2, <1>3
<1>5. /\ m \in Seq(Fresh) /\ l \in Seq(Fresh) /\ Len(l) <= MaxOutbox
      /\ Ids(m) \cup Ids(l) = Ids(pending[p]) \cup {i}
      /\ Uniq(pending[p]) /\ i \notin Ids(pending[p]) =>
                   Uniq(m) /\ Uniq(l) /\ Ids(m) \cap Ids(l) = {}
  BY <1>0, <1>1, <1>3
<1> HIDE DEF m, l
<1> QED BY <1>4, <1>5

LEMMA TypeEnqueue ==
    ASSUME TypeInv, NEW t \in Proc \X Enqueuer, NEW i \in Id, enqueue_webhook(t, i)
    PROVE  TypeInv'
<1> DEFINE p == t[1]
           r == [Idle EXCEPT !.pc = "save_pending", !.item = i]
<1>0. t \in Thread /\ p \in Proc /\ p \in up /\ th' = [th EXCEPT ![t] = r] /\ up' = up
  BY ThreadPairs DEF enqueue_webhook
<1>1. PICK q \in Seq(Fresh), m \in Seq(Fresh) : pending' = [pending EXCEPT ![p] = q] /\ PushDlq(p, m)
  BY <1>0, EnqueueFacts
<1>2. m \in Seq(OutboxItem)
  BY FreshItem
<1>3. PICK d \in Seq(OutboxItem), R \in SUBSET Id :
             /\ dlq' = [dlq EXCEPT ![p] = d] /\ dropped' = dropped \cup R
             /\ R \cup Ids(d) = Ids(dlq[p]) \cup Ids(m)
             /\ Uniq(dlq[p]) /\ Uniq(m) /\ Ids(dlq[p]) \cap Ids(m) = {} =>
                   Uniq(d) /\ R \cap Ids(d) = {}
  <2> HIDE DEF p, r
  <2> QED BY <1>0, <1>1, <1>2, DlqPush
<1>4. owner' \in [Id -> Proc \cup {None}]
  BY <1>0 DEF enqueue_webhook, TypeInv, Base
<1>5. Base'
  <2>1. Base /\ UNCHANGED <<up, filePending, fileDlq, acked, delivered, crashes, diskFails>>
    BY DEF enqueue_webhook, TypeInv
  <2> HIDE DEF p, r
  <2>2. /\ pending' \in [Proc -> Seq(Fresh)] /\ dlq' \in [Proc -> Seq(OutboxItem)]
        /\ dropped' \subseteq Id
    BY <1>0, <1>1, <1>3, <2>1 DEF Base
  <2> QED BY <1>4, <2>1, <2>2 DEF Base
<1>6. r \in ThreadRec /\ r.hand = <<>> /\ r.pc = "save_pending"
  BY IdleRec DEF ThreadRec
<1> HIDE DEF r
<1>7. ThreadOK(t, r, up)
  BY <1>0, <1>6, Consts DEF ThreadOK
<1> QED BY <1>0, <1>5, <1>7, ThreadMoves

LEMMA TypeSave ==
    ASSUME TypeInv, NEW t \in Thread, SavePending(t) \/ SaveDlq(t)
    PROVE  TypeInv'
<1> DEFINE r == th[t]
<1>0. Base /\ r \in ThreadRec /\ ThreadOK(t, r, up) /\ t[1] \in Proc /\ up' = up
      /\ r.pc \in {"save_pending", "save_dlq"}
  BY ThreadPairs DEF TypeInv, SavePending, SaveDlq
<1>1. t[1] \in up
  BY <1>0, Awake
<1>2. diskFails' \in 0..MaxDiskFail
  BY <1>0, Consts DEF Base, SavePending, SaveDlq
<1>3. filePending' \in Seq(Fresh) /\ fileDlq' \in Seq(OutboxItem)
  BY <1>0 DEF Base, SavePending, SaveDlq
<1>4. acked' \subseteq Id
  <2>1. r.item \in Id \cup {None}
    BY <1>0 DEF ThreadRec
  <2> QED BY <1>0, <2>1 DEF Base, SavePending, SaveDlq
<1>5. Base'
  BY <1>0, <1>2, <1>3, <1>4 DEF Base, SavePending, SaveDlq
<1>6. CASE SavePending(t)
  <2> DEFINE u == [r EXCEPT !.pc = "save_dlq"]
  <2>1. th' = [th EXCEPT ![t] = u] /\ r.pc = "save_pending"
    BY <1>6 DEF SavePending, TypeInv
  <2>2. u \in ThreadRec /\ u.pc = "save_dlq" /\ u.hand = r.hand /\ u.then = r.then
    BY <1>0 DEF ThreadRec
  <2> HIDE DEF u
  <2>3. ThreadOK(t, u, up)
    BY <1>0, <1>1, <2>1, <2>2 DEF ThreadOK
  <2> QED BY <1>0, <1>5, <2>1, <2>3, ThreadMoves
<1>7. CASE SaveDlq(t)
  <2> DEFINE u == [r EXCEPT !.pc = r.then, !.item = None]
  <2>1. th' = [th EXCEPT ![t] = u] /\ r.pc = "save_dlq"
    BY <1>7 DEF SaveDlq, TypeInv
  <2>2. u \in ThreadRec /\ u.pc = r.then /\ u.hand = r.hand /\ r.then \in {"idle", "post"}
    BY <1>0 DEF ThreadRec
  <2> HIDE DEF u
  <2>3. ThreadOK(t, u, up)
    BY <1>0, <1>1, <2>1, <2>2 DEF ThreadOK
  <2> QED BY <1>0, <1>5, <2>1, <2>3, ThreadMoves
<1> QED BY <1>6, <1>7

(* drain_webhooks: what is taken (u) and what is left (q).                 *)
LEMMA DrainFacts ==
    ASSUME TypeInv, NEW t \in Thread, NEW K \in SUBSET DOMAIN pending[t[1]], drain_webhooks(t, K)
    PROVE  LET p == t[1] IN
           \E u \in Seq(Fresh), q \in Seq(Fresh) :
             /\ pending' = [pending EXCEPT ![p] = q]
             /\ th' = [th EXCEPT ![t] = [Idle EXCEPT !.pc = "post", !.hand = u]]
             /\ Len(u) <= MaxN /\ Len(u) + Len(q) = Len(pending[p])
             /\ Ids(u) \cup Ids(q) = Ids(pending[p])
             /\ Uniq(pending[p]) => Uniq(u) /\ Uniq(q) /\ Ids(u) \cap Ids(q) = {}
<1> DEFINE p == t[1]
           s == pending[p]
<1>0. p \in Proc /\ s \in Seq(Fresh) /\ K \in SUBSET (1..Len(s))
  <2>1. p \in Proc /\ pending \in [Proc -> Seq(Fresh)]
    BY ThreadPairs DEF TypeInv, Base
  <2>2. s \in Seq(Fresh)
    BY <2>1
  <2>3. DOMAIN s = 1..Len(s)
    BY <2>2
  <2> QED BY <2>1, <2>2, <2>3
<1>1. PICK u \in Picked(s, K) : th' = [th EXCEPT ![t] = [Idle EXCEPT !.pc = "post", !.hand = u]]
  BY DEF drain_webhooks
<1>2. PICK q \in Rest(s, K) : pending' = [pending EXCEPT ![p] = q]
  BY DEF drain_webhooks
<1>3. Cardinality(K) <= MaxN
  BY DEF drain_webhooks
<1> HIDE DEF s
<1>4. /\ u \in Seq(Fresh) /\ q \in Seq(Fresh)
      /\ Len(u) = Cardinality(K) /\ Len(u) + Len(q) = Len(s)
      /\ Ids(u) \cup Ids(q) = Ids(s)
      /\ Uniq(s) => Uniq(u) /\ Uniq(q) /\ Ids(u) \cap Ids(q) = {}
  BY <1>0, PickRest
<1>5. Len(u) <= MaxN
  BY <1>3, <1>4
<1> QED BY <1>1, <1>2, <1>4, <1>5 DEF s

LEMMA TypeDrain ==
    ASSUME TypeInv, NEW t \in Proc \X Drainer, NEW K \in SUBSET DOMAIN pending[t[1]], drain_webhooks(t, K)
    PROVE  TypeInv'
<1> DEFINE p == t[1]
<1>0. /\ t \in Thread /\ p \in Proc /\ t[2] \in Drainer /\ p \in up /\ Base
      /\ UNCHANGED <<up, dlq, filePending, fileDlq, owner, acked, delivered, dropped, crashes, diskFails>>
  BY ThreadPairs DEF drain_webhooks, TypeInv
<1>1. PICK u \in Seq(Fresh), q \in Seq(Fresh) :
        /\ pending' = [pending EXCEPT ![p] = q]
        /\ th' = [th EXCEPT ![t] = [Idle EXCEPT !.pc = "post", !.hand = u]]
        /\ Len(u) <= MaxN
  BY <1>0, DrainFacts
<1> DEFINE r == [Idle EXCEPT !.pc = "post", !.hand = u]
<1>2. r \in ThreadRec /\ r.pc = "post" /\ r.hand = u
  BY IdleRec DEF ThreadRec
<1>3. th' = [th EXCEPT ![t] = r]
  BY <1>1
<1> HIDE DEF r, p
<1>4. ThreadOK(t, r, up)
  BY <1>0, <1>1, <1>2 DEF ThreadOK, p
<1>5. Base'
  <2>1. pending' \in [Proc -> Seq(Fresh)]
    BY <1>0, <1>1 DEF Base
  <2> QED BY <1>0, <2>1 DEF Base
<1> QED BY <1>0, <1>3, <1>4, <1>5, ThreadMoves

(* http_post_json: the head of the hand is delivered, or will be noted as  *)
(* failed.                                                                 *)
LEMMA PostFacts ==
    ASSUME TypeInv, NEW t \in Thread, Post(t)
    PROVE  LET s == th[t].hand IN
           /\ th[t].pc = "post" /\ s # <<>> /\ s \in Seq(Fresh)
           /\ \/ /\ delivered' = delivered \cup {Head(s).id}
                 /\ th' = [th EXCEPT ![t] = [th[t] EXCEPT !.hand = Tail(s)]]
              \/ /\ delivered' = delivered
                 /\ th' = [th EXCEPT ![t] = [th[t] EXCEPT !.pc = "failed"]]
<1>1. th \in [Thread -> ThreadRec] /\ th[t] \in ThreadRec
  BY DEF TypeInv
<1>2. th[t].hand \in Seq(Fresh)
  BY <1>1 DEF ThreadRec
<1> QED BY <1>1, <1>2 DEF Post

LEMMA TypePost ==
    ASSUME TypeInv, NEW t \in Thread, Post(t)
    PROVE  TypeInv'
<1> DEFINE r == th[t]
           s == r.hand
<1>0. /\ Base /\ r \in ThreadRec /\ ThreadOK(t, r, up) /\ r.pc = "post"
      /\ UNCHANGED <<up, pending, dlq, filePending, fileDlq, owner, acked, dropped, crashes, diskFails>>
  BY DEF TypeInv, Post
<1>1. t[1] \in up
  BY <1>0, Awake
<1>2. /\ r.pc = "post" /\ s # <<>> /\ s \in Seq(Fresh)
      /\ \/ /\ delivered' = delivered \cup {Head(s).id}
            /\ th' = [th EXCEPT ![t] = [r EXCEPT !.hand = Tail(s)]]
         \/ /\ delivered' = delivered
            /\ th' = [th EXCEPT ![t] = [r EXCEPT !.pc = "failed"]]
  BY PostFacts
<1>3. /\ Tail(s) \in Seq(Fresh) /\ Len(Tail(s)) = Len(s) - 1 /\ Head(s) \in Fresh /\ Len(s) >= 1
  BY <1>2, Pop
<1>4. Len(s) \in Nat /\ Len(s) <= MaxN /\ t[2] \in Drainer
  BY <1>0, <1>2 DEF ThreadOK
<1>5. Base'
  <2>1. Head(s).id \in Id
    BY <1>3 DEF Fresh
  <2>2. delivered' \subseteq Id
    BY <1>0, <1>2, <2>1 DEF Base
  <2> QED BY <1>0, <2>2 DEF Base
<1>6. CASE th' = [th EXCEPT ![t] = [r EXCEPT !.hand = Tail(s)]]
  <2> DEFINE u == [r EXCEPT !.hand = Tail(s)]
  <2>1. u \in ThreadRec /\ u.pc = "post" /\ u.hand = Tail(s)
    BY <1>0, <1>3 DEF ThreadRec
  <2>2. th' = [th EXCEPT ![t] = u]
    BY <1>6
  <2> HIDE DEF u
  <2>3. Len(Tail(s)) <= MaxN
    BY <1>3, <1>4, Consts
  <2>4. ThreadOK(t, u, up)
    BY <1>1, <1>4, <2>1, <2>3 DEF ThreadOK
  <2> QED BY <1>0, <1>5, <2>2, <2>4, ThreadMoves
<1>7. CASE th' = [th EXCEPT ![t] = [r EXCEPT !.pc = "failed"]]
  <2> DEFINE u == [r EXCEPT !.pc = "failed"]
  <2>1. u \in ThreadRec /\ u.pc = "failed" /\ u.hand = s
    BY <1>0 DEF ThreadRec
  <2>2. th' = [th EXCEPT ![t] = u]
    BY <1>7
  <2> HIDE DEF u
  <2>3. ThreadOK(t, u, up)
    BY <1>1, <1>2, <1>4, <2>1 DEF ThreadOK
  <2> QED BY <1>0, <1>5, <2>2, <2>3, ThreadMoves
<1> QED BY <1>2, <1>6, <1>7

(* A failed item leaves the hand, for the end of the pending queue or for  *)
(* the dead letters.                                                       *)
LEMMA FailedFacts ==
    ASSUME TypeInv, NEW t \in Thread, NEW limit \in 1..MaxAttempts, PostFailed(t, limit)
    PROVE  LET s == th[t].hand
               p == t[1]
           IN
           /\ s # <<>> /\ s \in Seq(Fresh)
           /\ th' = [th EXCEPT ![t] = [th[t] EXCEPT !.pc = "save_pending", !.hand = Tail(s), !.then = "post"]]
           /\ \E x \in OutboxItem :
                 /\ x.id = Head(s).id
                 /\ \/ PushDlq(p, <<x>>) /\ pending' = pending
                    \/ /\ x \in Fresh /\ pending' = [pending EXCEPT ![p] = Append(pending[p], x)]
                       /\ dlq' = dlq /\ dropped' = dropped
<1> DEFINE s == th[t].hand
           p == t[1]
           x == [Head(s) EXCEPT !.attempts = @ + 1]
<1>1. th \in [Thread -> ThreadRec] /\ th[t] \in ThreadRec /\ ThreadOK(t, th[t], up)
      /\ th[t].pc = "failed"
  BY DEF TypeInv, PostFailed
<1>2. s \in Seq(Fresh) /\ s # <<>>
  BY <1>1 DEF ThreadRec, ThreadOK
<1>3. Head(s) \in Fresh
  BY <1>2
<1>4. Head(s).attempts \in 0..MaxAttempts - 1 /\ Head(s).id \in Id
  BY <1>3 DEF Fresh
<1>5. x = [Head(s) EXCEPT !.attempts = Head(s).attempts + 1]
  BY <1>3 DEF Fresh
<1>6. x.id = Head(s).id /\ x.attempts = Head(s).attempts + 1 /\ DOMAIN x = {"id", "attempts"}
      /\ x = [id |-> Head(s).id, attempts |-> Head(s).attempts + 1]
  BY <1>3, <1>5 DEF Fresh
<1>7. x \in OutboxItem
  BY <1>4, <1>6, Consts DEF OutboxItem
<1>8. x.attempts < limit => x \in Fresh
  BY <1>4, <1>6, Consts DEF Fresh
<1>9. th' = [th EXCEPT ![t] = [th[t] EXCEPT !.pc = "save_pending", !.hand = Tail(s), !.then = "post"]]
  BY DEF PostFailed
<1>10. \/ PushDlq(p, <<x>>) /\ pending' = pending
       \/ /\ ~ Exhausted(x, limit) /\ pending' = [pending EXCEPT ![p] = Append(pending[p], x)]
          /\ dlq' = dlq /\ dropped' = dropped
  <2>1. p \in Proc /\ pending \in [Proc -> Seq(Fresh)]
    BY ThreadPairs DEF TypeInv, Base
  <2> QED BY <2>1 DEF PostFailed
<1>11. ~ Exhausted(x, limit) => x.attempts < limit
  BY <1>4, <1>6, Consts DEF Exhausted
<1> HIDE DEF x
<1> QED BY <1>2, <1>6, <1>7, <1>8, <1>9, <1>10, <1>11

LEMMA TypeFailed ==
    ASSUME TypeInv, NEW t \in Thread, NEW limit \in 1..MaxAttempts, PostFailed(t, limit)
    PROVE  TypeInv'
<1> DEFINE r == th[t]
           s == r.hand
           p == t[1]
           u == [r EXCEPT !.pc = "save_pending", !.hand = Tail(s), !.then = "post"]
<1>0. /\ Base /\ r \in ThreadRec /\ ThreadOK(t, r, up) /\ r.pc = "failed" /\ p \in Proc
      /\ UNCHANGED <<up, filePending, fileDlq, owner, acked, delivered, crashes, diskFails>>
  BY ThreadPairs DEF TypeInv, PostFailed
<1>1. p \in up
  BY <1>0, Awake
<1>2. s # <<>> /\ s \in Seq(Fresh) /\ th' = [th EXCEPT ![t] = u]
  BY FailedFacts
<1>3. PICK x \in OutboxItem :
        \/ PushDlq(p, <<x>>) /\ pending' = pending
        \/ /\ x \in Fresh /\ pending' = [pending EXCEPT ![p] = Append(pending[p], x)]
           /\ dlq' = dlq /\ dropped' = dropped
  BY FailedFacts
<1>4. /\ Tail(s) \in Seq(Fresh) /\ Len(Tail(s)) = Len(s) - 1
  BY <1>2, Pop
<1>5. u \in ThreadRec /\ u.pc = "save_pending" /\ u.hand = Tail(s) /\ u.then = "post"
  BY <1>0, <1>4 DEF ThreadRec
<1>6. Len(s) \in Nat /\ Len(s) <= MaxN /\ t[2] \in Drainer
  BY <1>0, <1>2 DEF ThreadOK
<1>7. Len(Tail(s)) <= MaxN
  BY <1>4, <1>6, Consts
<1> HIDE DEF u
<1>8. ThreadOK(t, u, up)
  BY <1>1, <1>5, <1>6, <1>7 DEF ThreadOK
<1>9. Base'
  <2>1. CASE PushDlq(p, <<x>>) /\ pending' = pending
    <3>1. <<x>> \in Seq(OutboxItem)
      OBVIOUS
    <3>2. PICK d \in Seq(OutboxItem), R \in SUBSET Id :
             /\ dlq' = [dlq EXCEPT ![p] = d] /\ dropped' = dropped \cup R
             /\ R \cup Ids(d) = Ids(dlq[p]) \cup Ids(<<x>>)
             /\ Uniq(dlq[p]) /\ Uniq(<<x>>) /\ Ids(dlq[p]) \cap Ids(<<x>>) = {} =>
                   Uniq(d) /\ R \cap Ids(d) = {}
      <4> HIDE DEF p
      <4> QED BY <1>0, <2>1, <3>1, DlqPush
    <3> HIDE DEF p
    <3>3. dlq' \in [Proc -> Seq(OutboxItem)] /\ dropped' \subseteq Id
      BY <1>0, <3>2 DEF Base
    <3> QED BY <1>0, <2>1, <3>3 DEF Base
  <2>2. CASE /\ x \in Fresh /\ pending' = [pending EXCEPT ![p] = Append(pending[p], x)]
             /\ dlq' = dlq /\ dropped' = dropped
    <3> HIDE DEF p
    <3>1. pending[p] \in Seq(Fresh)
      BY <1>0 DEF Base
    <3>2. Append(pending[p], x) \in Seq(Fresh)
      BY <2>2, <3>1
    <3>3. pending' \in [Proc -> Seq(Fresh)]
      BY <1>0, <2>2, <3>2 DEF Base
    <3> QED BY <1>0, <2>2, <3>3 DEF Base
  <2> QED BY <1>3, <2>1, <2>2
<1> QED BY <1>0, <1>2, <1>8, <1>9, ThreadMoves

LEMMA TypeRest ==
    ASSUME TypeInv,
           \/ \E t \in Thread : DrainEnd(t)
           \/ \E p \in Proc : Crash(p) \/ boxes(p)
           \/ UNCHANGED vars
    PROVE  TypeInv'
<1>0. Base /\ th \in [Thread -> ThreadRec] /\ \A t \in Thread : ThreadOK(t, th[t], up)
  BY DEF TypeInv
<1>1. ASSUME NEW t \in Thread, DrainEnd(t) PROVE TypeInv'
  <2> DEFINE r == [Idle EXCEPT !.pc = "save_pending"]
  <2>1. r \in ThreadRec /\ r.hand = <<>> /\ r.pc = "save_pending"
    BY IdleRec DEF ThreadRec
  <2>2. th' = [th EXCEPT ![t] = r] /\ up' = up /\ t[1] \in up
    BY <1>1, Awake DEF DrainEnd
  <2>3. Base'
    BY <1>0, <1>1 DEF DrainEnd, Base
  <2> HIDE DEF r
  <2>4. ThreadOK(t, r, up)
    BY <2>1, <2>2, Consts DEF ThreadOK
  <2> QED BY <2>2, <2>3, <2>4, ThreadMoves
<1>2. ASSUME NEW p \in Proc, Crash(p) PROVE TypeInv'
  <2>1. Base'
    BY <1>0, <1>2, Consts DEF Base, Crash
  <2>2. \A t \in Thread : th'[t] = IF t[1] = p THEN Idle ELSE th[t]
    BY <1>2 DEF Crash
  <2>3. up' = up \ {p}
    BY <1>2 DEF Crash
  <2>4. \A t \in Thread : ThreadOK(t, th'[t], up')
    BY <1>0, <2>2, <2>3, IdleRec DEF ThreadOK
  <2>5. th' \in [Thread -> ThreadRec]
    BY <1>0, <1>2, IdleRec DEF Crash
  <2> QED BY <2>1, <2>4, <2>5 DEF TypeInv
<1>3. ASSUME NEW p \in Proc, boxes(p) PROVE TypeInv'
  <2>1. Base'
    BY <1>0, <1>3 DEF Base, boxes
  <2>2. th' = th /\ up' = up \cup {p}
    BY <1>3 DEF boxes
  <2>3. \A t \in Thread : ThreadOK(t, th'[t], up')
    BY <1>0, <2>2 DEF ThreadOK
  <2> QED BY <1>0, <2>1, <2>2, <2>3 DEF TypeInv
<1>4. CASE UNCHANGED vars
  BY <1>0, <1>4 DEF vars, TypeInv, Base
<1> QED BY <1>1, <1>2, <1>3, <1>4

LEMMA TypeStep ==
    ASSUME TypeInv, [Next]_vars
    PROVE  TypeInv'
<1>1. ASSUME NEW t \in Proc \X Enqueuer, NEW i \in Id, enqueue_webhook(t, i) PROVE TypeInv'
  BY <1>1, TypeEnqueue
<1>2. ASSUME NEW t \in Proc \X Drainer, NEW K \in SUBSET DOMAIN pending[t[1]], drain_webhooks(t, K)
      PROVE  TypeInv'
  BY <1>2, TypeDrain
<1>3. ASSUME NEW t \in Proc \X Drainer, NEW limit \in 1..MaxAttempts, PostFailed(t, limit)
      PROVE  TypeInv'
  BY <1>3, ThreadPairs, TypeFailed
<1>4. ASSUME NEW t \in Proc \X Drainer, Post(t) PROVE TypeInv'
  BY <1>4, ThreadPairs, TypePost
<1>5. ASSUME NEW t \in Proc \X Drainer, DrainEnd(t) PROVE TypeInv'
  <2>1. t \in Thread
    BY ThreadPairs
  <2> QED BY <1>5, <2>1, TypeRest
<1>6. ASSUME NEW t \in Thread, SavePending(t) \/ SaveDlq(t) PROVE TypeInv'
  BY <1>6, TypeSave
<1>7. ASSUME NEW p \in Proc, Crash(p) \/ boxes(p) PROVE TypeInv'
  BY <1>7, TypeRest
<1>8. CASE UNCHANGED vars
  BY <1>8, TypeRest
<1> QED BY <1>1, <1>2, <1>3, <1>4, <1>5, <1>6, <1>7, <1>8 DEF Next

LEMMA TypeStart == Init => TypeInv
<1> SUFFICES ASSUME Init PROVE TypeInv
  OBVIOUS
<1>1. Base
  BY Consts DEF Init, Base
<1>2. th \in [Thread -> ThreadRec] /\ \A t \in Thread : th[t] = Idle
  BY IdleRec DEF Init
<1> QED BY <1>1, <1>2, IdleRec DEF TypeInv

LEMMA TypeAlways == Spec => []TypeInv
BY TypeStart, TypeStep, PTL DEF Spec

LEMMA TypeImplied == TypeInv => TypeOK
<1> SUFFICES ASSUME TypeInv PROVE TypeOK
  OBVIOUS
<1>1. \A r \in ThreadRec : r \in ThreadType
  BY FreshItem DEF ThreadRec, ThreadType
<1>2. th \in [Thread -> ThreadType]
  BY <1>1 DEF TypeInv
<1>3. pending \in [Proc -> Seq(OutboxItem)] /\ filePending \in Seq(OutboxItem)
  BY FreshItem DEF TypeInv, Base
<1> QED BY <1>2, <1>3 DEF TypeInv, Base, TypeOK

(* Every variable of the outbox keeps its type: no step of an enqueue, a   *)
(* drain, a save, a crash or a reload leaves a queue, a file or a thread   *)
(* in a shape the code does not know, and no attempt count passes the      *)
(* limit.                                                                  *)
THEOREM TypeCorrect == Spec => []TypeOK
BY TypeAlways, TypeImplied, PTL

-----------------------------------------------------------------------------
(* At most one process uses the directory.                                 *)
OneProc == \A p, q \in Proc : p = q

(* With one process and no failed write, the pending file is right while   *)
(* no thread has work or has yet to write it, and the dead-letter file is  *)
(* right when none has work.                                               *)
Saved ==
    diskFails = 0 /\ OneProc => \A p \in up :
        /\ (\A t \in Thread : th[t].pc \in {"idle", "save_dlq"}) => filePending = pending[p]
        /\ Quiet => fileDlq = dlq[p]

(* While a thread holds items or has yet to save, Saved promises nothing.  *)
LEMMA Unsaved ==
    ASSUME NEW t \in Thread, th'[t].pc \in {"post", "failed", "save_pending"}
    PROVE  Saved'
BY DEF Saved, Quiet

(* persist_boxes makes the pending file right, then the other one.         *)
LEMMA SavedSave ==
    ASSUME TypeInv, Saved, NEW t \in Thread, SavePending(t) \/ SaveDlq(t)
    PROVE  Saved'
<1> SUFFICES ASSUME diskFails' = 0, OneProc, NEW p \in up'
             PROVE  /\ (\A u \in Thread : th'[u].pc \in {"idle", "save_dlq"}) => filePending' = pending'[p]
                    /\ (\A u \in Thread : th'[u].pc = "idle") => fileDlq' = dlq'[p]
  BY DEF Saved, Quiet, OneProc
<1>0. /\ up' = up /\ up \subseteq Proc /\ t[1] \in Proc /\ diskFails \in Nat
      /\ pending' = pending /\ dlq' = dlq
      /\ th \in [Thread -> ThreadRec] /\ th[t] \in ThreadRec
  BY ThreadPairs DEF SavePending, SaveDlq, TypeInv, Base
<1>1. p = t[1]
  BY <1>0 DEF OneProc
<1>2. diskFails' = diskFails
  BY <1>0 DEF SavePending, SaveDlq
<1>3. CASE SavePending(t)
  <2>1. filePending' = pending[t[1]]
    BY <1>0, <1>2, <1>3 DEF SavePending
  <2>2. th'[t].pc = "save_dlq"
    BY <1>0, <1>3 DEF SavePending, ThreadRec
  <2> QED BY <1>0, <1>1, <2>1, <2>2
<1>4. CASE SaveDlq(t)
  <2>1. fileDlq' = dlq[t[1]] /\ filePending' = filePending /\ th[t].pc = "save_dlq"
    BY <1>0, <1>2, <1>4 DEF SaveDlq
  <2>2. \A u \in Thread : u # t => th'[u] = th[u]
    BY <1>0, <1>4 DEF SaveDlq
  <2>3. ASSUME \A u \in Thread : th'[u].pc \in {"idle", "save_dlq"}
        PROVE  filePending' = pending'[p]
    <3>1. \A u \in Thread : th[u].pc \in {"idle", "save_dlq"}
      BY <2>1, <2>2, <2>3
    <3> QED BY <1>0, <1>2, <2>1, <3>1 DEF Saved
  <2> QED BY <1>0, <1>1, <2>1, <2>3
<1> QED BY <1>3, <1>4

LEMMA SavedStep ==
    ASSUME TypeInv, Saved, [Next]_vars
    PROVE  Saved'
<1>0. th \in [Thread -> ThreadRec] /\ up \subseteq Proc /\ pending \in [Proc -> Seq(Fresh)]
      /\ dlq \in [Proc -> Seq(OutboxItem)]
  BY DEF TypeInv, Base
<1>1. ASSUME NEW t \in Proc \X Enqueuer, NEW i \in Id, enqueue_webhook(t, i) PROVE Saved'
  <2>1. t \in Thread
    BY ThreadPairs
  <2>2. th'[t].pc = "save_pending"
    BY <1>0, <1>1, <2>1 DEF enqueue_webhook, Idle
  <2> QED BY <2>1, <2>2, Unsaved
<1>2. ASSUME NEW t \in Proc \X Drainer, NEW K \in SUBSET DOMAIN pending[t[1]], drain_webhooks(t, K)
      PROVE  Saved'
  <2>1. t \in Thread
    BY ThreadPairs
  <2>2. th'[t].pc = "post"
    BY <1>0, <1>2, <2>1 DEF drain_webhooks, Idle
  <2> QED BY <2>1, <2>2, Unsaved
<1>3. ASSUME NEW t \in Proc \X Drainer, NEW limit \in 1..MaxAttempts, PostFailed(t, limit)
      PROVE  Saved'
  <2>1. t \in Thread
    BY ThreadPairs
  <2>2. th[t] \in ThreadRec
    BY <1>0, <2>1
  <2>3. th'[t].pc = "save_pending"
    BY <1>0, <1>3, <2>1, <2>2 DEF PostFailed, ThreadRec
  <2> QED BY <2>1, <2>3, Unsaved
<1>4. ASSUME NEW t \in Proc \X Drainer, Post(t) PROVE Saved'
  <2>1. t \in Thread
    BY ThreadPairs
  <2>2. th[t] \in ThreadRec
    BY <1>0, <2>1
  <2>3. th'[t].pc \in {"post", "failed"}
    BY <1>0, <1>4, <2>1, <2>2 DEF Post, ThreadRec
  <2> QED BY <2>1, <2>3, Unsaved
<1>5. ASSUME NEW t \in Proc \X Drainer, DrainEnd(t) PROVE Saved'
  <2>1. t \in Thread
    BY ThreadPairs
  <2>2. th'[t].pc = "save_pending"
    BY <1>0, <1>5, <2>1 DEF DrainEnd, Idle
  <2> QED BY <2>1, <2>2, Unsaved
<1>6. ASSUME NEW t \in Thread, SavePending(t) \/ SaveDlq(t) PROVE Saved'
  BY <1>6, SavedSave
<1>7. ASSUME NEW p \in Proc, Crash(p) PROVE Saved'
  BY <1>0, <1>7 DEF Crash, Saved, OneProc
<1>8. ASSUME NEW p \in Proc, boxes(p) PROVE Saved'
  BY <1>0, <1>8 DEF boxes, Saved, OneProc
<1>9. CASE UNCHANGED vars
  BY <1>9 DEF vars, Saved, Quiet
<1> QED BY <1>1, <1>2, <1>3, <1>4, <1>5, <1>6, <1>7, <1>8, <1>9 DEF Next

(* SavedWhenQuiet: with one process and a disk that works, the two files   *)
(* hold exactly what memory holds whenever no request is being served, for *)
(* any number of threads, items and limits.                                *)
THEOREM FilesFollowMemory == Spec => []SavedWhenQuiet
<1>1. Init => Saved
  BY DEF Init, Saved
<1>2. TypeInv /\ Saved /\ [Next]_vars => Saved'
  BY SavedStep
<1>3. Saved => SavedWhenQuiet
  <2> SUFFICES ASSUME Saved, Quiet, diskFails = 0, Cardinality(Proc) = 1
               PROVE  \A p \in up : filePending = pending[p] /\ fileDlq = dlq[p]
    BY DEF SavedWhenQuiet
  <2>1. \E x : Proc = {x}
    BY Consts, FS_Singleton
  <2>2. OneProc
    BY <2>1 DEF OneProc
  <2> QED BY <2>2 DEF Saved, Quiet
<1> QED BY <1>1, <1>2, <1>3, TypeAlways, PTL DEF Spec

-----------------------------------------------------------------------------
(* InHand, for given thread states.                                        *)
HandSet(p, f) == {x \in Thread \X (1..MaxN) : x[1][1] = p /\ x[2] <= Len(f[x[1]].hand)}

(* What the drains of a process can hold together.                         *)
Room == MaxN * Cardinality(Drainer)

(* The lengths of the hands, as ThreadOK bounds them.                      *)
HandsOK(f) == \A t \in Thread : /\ Len(f[t].hand) \in 0..MaxN
                                /\ Len(f[t].hand) > 0 => t[2] \in Drainer

(* OutboxBounded, and the same bound for the file: a restart loads it.     *)
Bounded ==
    /\ Len(filePending) <= MaxOutbox + Room
    /\ \A p \in Proc : Len(pending[p]) + Cardinality(HandSet(p, th)) <= MaxOutbox + Room

LEMMA RoomNat == Room \in Nat
<1>1. Cardinality(Drainer) \in Nat
  BY Consts, FS_CardinalityType
<1> QED BY <1>1, Consts DEF Room

LEMMA HandsTyped ==
    ASSUME NEW f, NEW u, \A t \in Thread : ThreadOK(t, f[t], u)
    PROVE  HandsOK(f)
<1> SUFFICES ASSUME NEW t \in Thread
             PROVE  Len(f[t].hand) \in 0..MaxN /\ (Len(f[t].hand) > 0 => t[2] \in Drainer)
  BY DEF HandsOK
<1>1. f[t] \in ThreadRec /\ ThreadOK(t, f[t], u)
  BY DEF ThreadOK
<1>2. f[t].hand \in Seq(Fresh) /\ Len(f[t].hand) <= MaxN /\ (f[t].hand # <<>> => t[2] \in Drainer)
  BY <1>1 DEF ThreadRec, ThreadOK
<1>3. Len(f[t].hand) \in Nat /\ (Len(f[t].hand) > 0 => f[t].hand # <<>>)
  BY <1>2
<1> QED BY <1>2, <1>3, Consts

(* The hands of a process hold at most Room items.                         *)
LEMMA HandRoom ==
    ASSUME NEW f, HandsOK(f), NEW p \in Proc
    PROVE  IsFiniteSet(HandSet(p, f)) /\ Cardinality(HandSet(p, f)) \in 0..Room
<1> DEFINE W == ({p} \X Drainer) \X (1..MaxN)
<1>1. IsFiniteSet({p}) /\ Cardinality({p}) = 1 /\ IsFiniteSet(Drainer) /\ Cardinality(Drainer) \in Nat
  BY Consts, FS_Singleton, FS_CardinalityType
<1>2. IsFiniteSet({p} \X Drainer) /\ Cardinality({p} \X Drainer) = Cardinality({p}) * Cardinality(Drainer)
  BY <1>1, FS_Product
<1>3. IsFiniteSet(1..MaxN) /\ Cardinality(1..MaxN) = MaxN
  <2>1. IsFiniteSet(1..MaxN) /\ Cardinality(1..MaxN) = IF 1 > MaxN THEN 0 ELSE MaxN - 1 + 1
    BY Consts, FS_Interval
  <2> QED BY <2>1, Consts
<1>4. IsFiniteSet(W) /\ Cardinality(W) = Cardinality({p} \X Drainer) * Cardinality(1..MaxN)
  BY <1>2, <1>3, FS_Product
<1>5. Cardinality(W) = Room
  BY <1>1, <1>2, <1>3, <1>4, Consts DEF Room
<1>6. HandSet(p, f) \in SUBSET W
  <2> SUFFICES ASSUME NEW x \in HandSet(p, f) PROVE x \in W
    OBVIOUS
  <2>1. x \in Thread \X (1..MaxN) /\ x[1][1] = p /\ x[2] <= Len(f[x[1]].hand)
    BY DEF HandSet
  <2>2. x[1] \in Thread /\ x[2] \in 1..MaxN /\ x = <<x[1], x[2]>>
    BY <2>1
  <2>3. Len(f[x[1]].hand) > 0 /\ Len(f[x[1]].hand) \in Nat
    BY <2>1, <2>2, Consts DEF HandsOK
  <2>4. x[1][2] \in Drainer
    BY <2>2, <2>3 DEF HandsOK
  <2>5. x[1] = <<x[1][1], x[1][2]>>
    BY <2>2 DEF Thread
  <2> QED BY <2>1, <2>2, <2>4, <2>5
<1> HIDE DEF W
<1>7. IsFiniteSet(HandSet(p, f)) /\ Cardinality(HandSet(p, f)) <= Cardinality(W)
  BY <1>4, <1>6, FS_Subset
<1>8. Cardinality(HandSet(p, f)) \in Nat
  BY <1>7, FS_CardinalityType
<1> QED BY <1>5, <1>7, <1>8, RoomNat

(* The items in the hands of the other threads.                            *)
LEMMA HandOthers ==
    ASSUME NEW f, HandsOK(f), NEW t \in Thread, NEW p \in Proc, p = t[1]
    PROVE  Cardinality(HandSet(p, f) \ ({t} \X (1..MaxN))) = Cardinality(HandSet(p, f)) - Len(f[t].hand)
<1> DEFINE S == HandSet(p, f)
           T == {t} \X (1..MaxN)
           n == Len(f[t].hand)
<1>0. n \in 0..MaxN
  BY DEF HandsOK
<1>1. S \cap T = {t} \X (1..n)
  <2>1. ASSUME NEW x, x \in S, x \in T PROVE x \in {t} \X (1..n)
    <3>1. x[1] = t /\ x[2] \in 1..MaxN /\ x = <<x[1], x[2]>>
      BY <2>1
    <3>2. x[2] <= n
      BY <2>1, <3>1 DEF HandSet
    <3>3. x[2] \in 1..n
      BY <1>0, <3>1, <3>2, Consts
    <3> QED BY <3>1, <3>3
  <2>2. ASSUME NEW x \in {t} \X (1..n) PROVE x \in S /\ x \in T
    <3>1. x[1] = t /\ x[2] \in 1..n /\ x = <<x[1], x[2]>>
      BY <2>2
    <3>2. x[2] \in 1..MaxN /\ x[2] <= n
      BY <1>0, <3>1, Consts
    <3>3. x \in T /\ x \in Thread \X (1..MaxN)
      BY <3>1, <3>2
    <3>4. x \in S
      BY <3>1, <3>2, <3>3 DEF HandSet
    <3> QED BY <3>3, <3>4
  <2> QED BY <2>1, <2>2
<1>2. Cardinality({t} \X (1..n)) = n
  <2>1. IsFiniteSet({t}) /\ Cardinality({t}) = 1
    BY FS_Singleton
  <2>2. IsFiniteSet(1..n) /\ Cardinality(1..n) = IF 1 > n THEN 0 ELSE n - 1 + 1
    BY <1>0, Consts, FS_Interval
  <2>3. Cardinality({t} \X (1..n)) = Cardinality({t}) * Cardinality(1..n)
    BY <2>1, <2>2, FS_Product
  <2>4. Cardinality(1..n) = n
    BY <1>0, <2>2, Consts
  <2> HIDE DEF n
  <2> QED BY <1>0, <2>1, <2>3, <2>4, Consts
<1>3. IsFiniteSet(S)
  BY HandRoom
<1> HIDE DEF S, T
<1>4. Cardinality(S \ T) = Cardinality(S) - Cardinality(S \cap T)
  BY <1>3, FS_Difference
<1> QED BY <1>1, <1>2, <1>4 DEF S, T

(* One hand changes.                                                       *)
LEMMA HandMoves ==
    ASSUME NEW f, NEW g, HandsOK(f), HandsOK(g), NEW t \in Thread,
           \A u \in Thread : u # t => g[u] = f[u]
    PROVE  \A p \in Proc : Cardinality(HandSet(p, g)) = Cardinality(HandSet(p, f))
              + (IF p = t[1] THEN Len(g[t].hand) - Len(f[t].hand) ELSE 0)
<1> SUFFICES ASSUME NEW p \in Proc
             PROVE  Cardinality(HandSet(p, g)) = Cardinality(HandSet(p, f))
                      + (IF p = t[1] THEN Len(g[t].hand) - Len(f[t].hand) ELSE 0)
  OBVIOUS
<1>0. Cardinality(HandSet(p, f)) \in Nat /\ Cardinality(HandSet(p, g)) \in Nat
  BY HandRoom, RoomNat
<1>1. CASE p # t[1]
  <2>1. HandSet(p, f) = HandSet(p, g)
    <3>1. \A x \in Thread \X (1..MaxN) : x[1][1] = p => f[x[1]] = g[x[1]]
      BY <1>1
    <3> QED BY <3>1 DEF HandSet
  <2> QED BY <1>0, <1>1, <2>1
<1>2. CASE p = t[1]
  <2> DEFINE T == {t} \X (1..MaxN)
  <2>1. HandSet(p, f) \ T = HandSet(p, g) \ T
    <3>1. \A x \in Thread \X (1..MaxN) : x \notin T => f[x[1]] = g[x[1]]
      OBVIOUS
    <3> HIDE DEF T
    <3> QED BY <3>1 DEF HandSet
  <2>2. /\ Cardinality(HandSet(p, f) \ T) = Cardinality(HandSet(p, f)) - Len(f[t].hand)
        /\ Cardinality(HandSet(p, g) \ T) = Cardinality(HandSet(p, g)) - Len(g[t].hand)
    BY <1>2, HandOthers
  <2>3. Len(f[t].hand) \in Nat /\ Len(g[t].hand) \in Nat
    BY Consts DEF HandsOK
  <2>4. Cardinality(HandSet(p, f) \ T) = Cardinality(HandSet(p, g) \ T)
    BY <2>1
  <2> DEFINE a == Cardinality(HandSet(p, f))
             b == Cardinality(HandSet(p, g))
             m == Len(f[t].hand)
             n == Len(g[t].hand)
  <2>5. a - m = b - n /\ a \in Nat /\ b \in Nat /\ m \in Nat /\ n \in Nat
    BY <1>0, <2>2, <2>3, <2>4
  <2> HIDE DEF a, b, m, n
  <2>6. b = a + (n - m)
    BY <2>5
  <2> QED BY <1>2, <2>6 DEF a, b, m, n
<1> QED BY <1>1, <1>2

(* A step of one thread that adds no more to the queue than it takes from  *)
(* the hand, or leaves the queue within its limit.                         *)
LEMMA BoundedMoves ==
    ASSUME TypeInv, TypeInv', Bounded, filePending' = filePending, NEW t \in Thread,
           \A u \in Thread : u # t => th'[u] = th[u],
           \A p \in Proc : p # t[1] => pending'[p] = pending[p],
           \/ Len(pending'[t[1]]) <= MaxOutbox
           \/ Len(pending'[t[1]]) + Len(th'[t].hand) <= Len(pending[t[1]]) + Len(th[t].hand)
    PROVE  Bounded'
<1> SUFFICES ASSUME NEW p \in Proc
             PROVE  Len(pending'[p]) + Cardinality(HandSet(p, th')) <= MaxOutbox + Room
  BY DEF Bounded, HandSet, Room
<1> DEFINE a == Cardinality(HandSet(p, th))
           b == Cardinality(HandSet(p, th'))
<1>1. HandsOK(th) /\ HandsOK(th')
  <2>1. /\ \A u \in Thread : ThreadOK(u, th[u], up)
        /\ \A u \in Thread : ThreadOK(u, th'[u], up')
    BY DEF TypeInv, ThreadOK
  <2> QED BY <2>1, HandsTyped
<1>2. a \in 0..Room /\ b \in 0..Room
  BY <1>1, HandRoom
<1>3. /\ Len(pending[p]) \in Nat /\ Len(pending'[p]) \in Nat
      /\ Len(th[t].hand) \in Nat /\ Len(th'[t].hand) \in Nat
  <2>1. pending[p] \in Seq(Fresh) /\ pending'[p] \in Seq(Fresh)
    BY DEF TypeInv, Base
  <2>2. Len(th[t].hand) \in Nat /\ Len(th'[t].hand) \in Nat
    BY <1>1, Consts DEF HandsOK
  <2> QED BY <2>1, <2>2
<1>4. b = a + (IF p = t[1] THEN Len(th'[t].hand) - Len(th[t].hand) ELSE 0)
  BY <1>1, HandMoves
<1>5. Len(pending[p]) + a <= MaxOutbox + Room
  BY DEF Bounded
<1> HIDE DEF a, b
<1>6. Len(pending'[p]) + b <= MaxOutbox + Room
  <2>1. CASE p # t[1]
    <3>1. pending'[p] = pending[p] /\ b = a
      BY <1>2, <1>4, <2>1
    <3> QED BY <1>5, <3>1
  <2>2. CASE p = t[1]
    <3> DEFINE l == Len(pending[p])
               k == Len(pending'[p])
               m == Len(th[t].hand)
               n == Len(th'[t].hand)
    <3>1. /\ l \in Nat /\ k \in Nat /\ m \in Nat /\ n \in Nat
          /\ b = a + (n - m) /\ l + a <= MaxOutbox + Room
          /\ k <= MaxOutbox \/ k + n <= l + m
      BY <1>3, <1>4, <1>5, <2>2
    <3> HIDE DEF l, k, m, n
    <3>2. k + b <= MaxOutbox + Room
      BY <1>2, <3>1, Consts, RoomNat
    <3> QED BY <3>2 DEF k
  <2> QED BY <2>1, <2>2
<1> QED BY <1>6 DEF b

LEMMA BoundedStep ==
    ASSUME TypeInv, TypeInv', Bounded, [Next]_vars
    PROVE  Bounded'
<1>0. /\ th \in [Thread -> ThreadRec] /\ pending \in [Proc -> Seq(Fresh)] /\ up \subseteq Proc
      /\ \A t \in Thread : th[t] \in ThreadRec /\ ThreadOK(t, th[t], up)
      /\ \A t \in Thread : th[t].hand \in Seq(Fresh) /\ t[1] \in Proc
      /\ HandsOK(th) /\ HandsOK(th')
  <2>1. /\ th \in [Thread -> ThreadRec] /\ pending \in [Proc -> Seq(Fresh)] /\ up \subseteq Proc
        /\ \A t \in Thread : ThreadOK(t, th[t], up)
        /\ \A t \in Thread : ThreadOK(t, th'[t], up')
    BY DEF TypeInv, Base, ThreadOK
  <2>2. \A t \in Thread : th[t].hand \in Seq(Fresh)
    BY <2>1 DEF ThreadRec
  <2>3. HandsOK(th) /\ HandsOK(th')
    BY <2>1, HandsTyped
  <2> QED BY <2>1, <2>2, <2>3, ThreadPairs
<1>1. ASSUME NEW t \in Proc \X Enqueuer, NEW i \in Id, enqueue_webhook(t, i) PROVE Bounded'
  <2>1. t \in Thread
    BY ThreadPairs
  <2>2. PICK q \in Seq(Fresh) : pending' = [pending EXCEPT ![t[1]] = q] /\ Len(q) <= MaxOutbox
    BY <1>1, <2>1, EnqueueFacts
  <2>3. Len(pending'[t[1]]) <= MaxOutbox /\ \A p \in Proc : p # t[1] => pending'[p] = pending[p]
    BY <1>0, <2>1, <2>2
  <2>4. filePending' = filePending /\ \A u \in Thread : u # t => th'[u] = th[u]
    BY <1>0, <1>1 DEF enqueue_webhook
  <2> QED BY <2>1, <2>3, <2>4, BoundedMoves
<1>2. ASSUME NEW t \in Proc \X Drainer, NEW K \in SUBSET DOMAIN pending[t[1]], drain_webhooks(t, K)
      PROVE  Bounded'
  <2>1. t \in Thread
    BY ThreadPairs
  <2>2. PICK u \in Seq(Fresh), q \in Seq(Fresh) :
             /\ pending' = [pending EXCEPT ![t[1]] = q]
             /\ th' = [th EXCEPT ![t] = [Idle EXCEPT !.pc = "post", !.hand = u]]
             /\ Len(u) + Len(q) = Len(pending[t[1]])
    BY <1>2, <2>1, DrainFacts
  <2>3. pending'[t[1]] = q /\ \A p \in Proc : p # t[1] => pending'[p] = pending[p]
    BY <1>0, <2>1, <2>2
  <2>4. th'[t].hand = u /\ \A x \in Thread : x # t => th'[x] = th[x]
    BY <1>0, <2>1, <2>2 DEF Idle
  <2>5. filePending' = filePending
    BY <1>2 DEF drain_webhooks
  <2>6. Len(pending'[t[1]]) + Len(th'[t].hand) <= Len(pending[t[1]]) + Len(th[t].hand)
    <3>1. Len(th[t].hand) \in Nat /\ Len(u) \in Nat /\ Len(q) \in Nat
      BY <1>0, <2>1
    <3>2. Len(q) + Len(u) = Len(pending[t[1]])
      BY <2>2, <3>1
    <3>3. Len(pending[t[1]]) <= Len(pending[t[1]]) + Len(th[t].hand)
      <4>1. pending[t[1]] \in Seq(Fresh)
        BY <1>0, <2>1
      <4>2. Len(pending[t[1]]) \in Nat
        BY <4>1
      <4> DEFINE l == Len(pending[t[1]])
                 m == Len(th[t].hand)
      <4>3. l \in Nat /\ m \in Nat
        BY <3>1, <4>2
      <4> HIDE DEF l, m
      <4>4. l <= l + m
        BY <4>3
      <4> QED BY <4>4 DEF l, m
    <3>4. Len(pending'[t[1]]) = Len(q) /\ Len(th'[t].hand) = Len(u)
      BY <2>3, <2>4
    <3> QED BY <3>2, <3>3, <3>4
  <2> QED BY <2>1, <2>3, <2>4, <2>5, <2>6, BoundedMoves
<1>3. ASSUME NEW t \in Proc \X Drainer, NEW limit \in 1..MaxAttempts, PostFailed(t, limit)
      PROVE  Bounded'
  <2> DEFINE s == th[t].hand
             p == t[1]
  <2>1. t \in Thread
    BY ThreadPairs
  <2>2. /\ s # <<>> /\ s \in Seq(Fresh)
        /\ th' = [th EXCEPT ![t] = [th[t] EXCEPT !.pc = "save_pending", !.hand = Tail(s), !.then = "post"]]
        /\ \E x \in OutboxItem :
                 /\ x.id = Head(s).id
                 /\ \/ PushDlq(p, <<x>>) /\ pending' = pending
                    \/ /\ x \in Fresh /\ pending' = [pending EXCEPT ![p] = Append(pending[p], x)]
                       /\ dlq' = dlq /\ dropped' = dropped
    BY <1>3, <2>1, FailedFacts
  <2>3. th'[t].hand = Tail(s) /\ \A u \in Thread : u # t => th'[u] = th[u]
    BY <1>0, <2>1, <2>2 DEF ThreadRec
  <2>4. Len(Tail(s)) = Len(s) - 1 /\ Len(s) \in Nat
    BY <2>2, Pop
  <2>5. pending[p] \in Seq(Fresh)
    BY <1>0, <2>1
  <2>6. /\ Len(pending'[p]) <= Len(pending[p]) + 1
        /\ \A x \in Proc : x # p => pending'[x] = pending[x]
    <3>1. CASE pending' = pending
      BY <2>5, <3>1
    <3>2. ASSUME NEW x \in Fresh, pending' = [pending EXCEPT ![p] = Append(pending[p], x)]
          PROVE  Len(pending'[p]) <= Len(pending[p]) + 1 /\ \A y \in Proc : y # p => pending'[y] = pending[y]
      <4>1. pending'[p] = Append(pending[p], x)
        BY <1>0, <2>1, <3>2
      <4> QED BY <2>5, <3>2, <4>1
    <3> QED BY <2>2, <3>1, <3>2
  <2>7. Len(pending[p]) \in Nat /\ Len(pending'[p]) \in Nat
    <3>1. pending'[p] \in Seq(Fresh)
      BY <1>0, <2>1 DEF TypeInv, Base
    <3> QED BY <2>5, <3>1
  <2>8. Len(pending'[p]) + Len(th'[t].hand) <= Len(pending[p]) + Len(th[t].hand)
    <3> DEFINE l == Len(pending[p])
               k == Len(pending'[p])
               m == Len(s)
               n == Len(Tail(s))
    <3>1. k <= l + 1 /\ k \in Nat /\ l \in Nat /\ m \in Nat /\ n = m - 1
      BY <2>4, <2>6, <2>7
    <3>2. Len(th'[t].hand) = n /\ Len(th[t].hand) = m
      BY <2>3
    <3> HIDE DEF l, k, m, n
    <3>3. k + n <= l + m
      BY <3>1
    <3> QED BY <3>2, <3>3 DEF l, k
  <2>9. filePending' = filePending
    BY <1>3 DEF PostFailed
  <2> QED BY <2>1, <2>3, <2>6, <2>8, <2>9, BoundedMoves
<1>4. ASSUME NEW t \in Thread, \/ Post(t)
                               \/ DrainEnd(t)
      PROVE  Bounded'
  <2> DEFINE s == th[t].hand
  <2>1. filePending' = filePending /\ pending' = pending /\ s \in Seq(Fresh)
    BY <1>0, <1>4 DEF Post, DrainEnd
  <2>2. \A u \in Thread : u # t => th'[u] = th[u]
    BY <1>0, <1>4 DEF Post, DrainEnd
  <2>3. th'[t].hand = s \/ (s # <<>> /\ th'[t].hand = Tail(s))
    <3>1. th[t] \in ThreadRec
      BY <1>0
    <3>2. CASE Post(t)
      BY <1>0, <3>1, <3>2 DEF Post, ThreadRec
    <3>3. CASE DrainEnd(t)
      <4>1. s = <<>> /\ th'[t] = [Idle EXCEPT !.pc = "save_pending"]
        BY <1>0, <3>3 DEF DrainEnd
      <4> QED BY <4>1 DEF Idle
    <3> QED BY <1>4, <3>2, <3>3
  <2>4. Len(th'[t].hand) <= Len(s) /\ Len(s) \in Nat /\ Len(th'[t].hand) \in Nat
    <3>1. Len(s) \in Nat
      BY <2>1
    <3>2. s # <<>> => Len(Tail(s)) = Len(s) - 1 /\ Len(s) >= 1
      BY <2>1, Pop
    <3> DEFINE m == Len(s)
               n == Len(th'[t].hand)
    <3>3. m \in Nat /\ (n = m \/ (m >= 1 /\ n = m - 1))
      BY <2>3, <3>1, <3>2
    <3> HIDE DEF m, n
    <3>4. n <= m /\ m \in Nat /\ n \in Nat
      BY <3>3
    <3> QED BY <3>4 DEF m, n
  <2>5. Len(pending[t[1]]) \in Nat
    <3>1. pending[t[1]] \in Seq(Fresh)
      BY <1>0
    <3> QED BY <3>1
  <2>6. Len(pending'[t[1]]) + Len(th'[t].hand) <= Len(pending[t[1]]) + Len(th[t].hand)
    BY <2>1, <2>4, <2>5
  <2> QED BY <2>1, <2>2, <2>6, BoundedMoves
<1>5. ASSUME NEW t \in Thread, SavePending(t) \/ SaveDlq(t) PROVE Bounded'
  <2>1. /\ pending' = pending
        /\ filePending' = filePending \/ filePending' = pending[t[1]]
        /\ \A u \in Thread : u # t => th'[u] = th[u]
    BY <1>0, <1>5 DEF SavePending, SaveDlq
  <2>2. th'[t].hand = th[t].hand
    <3>1. CASE SavePending(t)
      <4>1. th' = [th EXCEPT ![t].pc = "save_dlq"]
        BY <3>1 DEF SavePending
      <4> QED BY <1>0, <4>1 DEF ThreadRec
    <3>2. CASE SaveDlq(t)
      <4>1. th' = [th EXCEPT ![t] = [@ EXCEPT !.pc = th[t].then, !.item = None]]
        BY <3>2 DEF SaveDlq
      <4> QED BY <1>0, <4>1 DEF ThreadRec
    <3> QED BY <1>5, <3>1, <3>2
  <2>3. \A p \in Proc : HandSet(p, th') = HandSet(p, th)
    BY <2>1, <2>2 DEF HandSet
  <2>4. Len(pending[t[1]]) <= MaxOutbox + Room
    <3> DEFINE l == Len(pending[t[1]])
               c == Cardinality(HandSet(t[1], th))
    <3>1. l + c <= MaxOutbox + Room /\ c \in Nat
      BY <1>0, HandRoom, RoomNat DEF Bounded
    <3>2. l \in Nat
      <4>1. pending[t[1]] \in Seq(Fresh)
        BY <1>0
      <4> QED BY <4>1
    <3> HIDE DEF l, c
    <3>3. l <= MaxOutbox + Room
      BY <3>1, <3>2, Consts, RoomNat
    <3> QED BY <3>3 DEF l
  <2>5. \A p \in Proc : Len(pending[p]) + Cardinality(HandSet(p, th)) <= MaxOutbox + Room
    BY DEF Bounded
  <2>6. \A p \in Proc : Len(pending'[p]) + Cardinality(HandSet(p, th')) <= MaxOutbox + Room
    BY <2>1, <2>3, <2>5
  <2>7. Len(filePending') <= MaxOutbox + Room
    BY <2>1, <2>4 DEF Bounded
  <2> QED BY <2>6, <2>7 DEF Bounded, HandSet, Room
<1>6. ASSUME NEW p \in Proc, Crash(p) \/ boxes(p) PROVE Bounded'
  <2>1. /\ filePending' = filePending /\ \A q \in Proc : q # p => pending'[q] = pending[q]
        /\ \A t \in Thread : t[1] # p => th'[t] = th[t]
        /\ \A t \in Thread : t[1] = p => th'[t] = Idle
        /\ pending'[p] = <<>> \/ pending'[p] = filePending
    <3>1. CASE Crash(p)
      BY <1>0, <3>1 DEF Crash
    <3>2. CASE boxes(p)
      <4>1. \A t \in Thread : t[1] = p => th[t] = Idle
        BY <1>0, <3>2 DEF boxes, ThreadOK
      <4> QED BY <1>0, <3>2, <4>1 DEF boxes
    <3> QED BY <1>6, <3>1, <3>2
  <2>2. \A q \in Proc : q # p => HandSet(q, th') = HandSet(q, th)
    BY <2>1 DEF HandSet
  <2>3. Cardinality(HandSet(p, th')) = 0
    <3>1. ASSUME NEW x \in HandSet(p, th') PROVE FALSE
      <4>1. x[1] \in Thread /\ x[2] \in 1..MaxN /\ x[1][1] = p /\ x[2] <= Len(th'[x[1]].hand)
        BY <3>1 DEF HandSet
      <4>2. Len(th'[x[1]].hand) = 0
        BY <2>1, <4>1, IdleRec
      <4> QED BY <4>1, <4>2, Consts
    <3>2. HandSet(p, th') = {}
      BY <3>1
    <3> QED BY <3>2, FS_EmptySet
  <2>4. Len(pending'[p]) <= MaxOutbox + Room /\ Len(pending'[p]) \in Nat
    <3>1. Len(filePending) <= MaxOutbox + Room /\ Len(filePending) \in Nat
      BY DEF Bounded, TypeInv, Base
    <3>2. Len(<<>>) = 0
      OBVIOUS
    <3> QED BY <2>1, <3>1, <3>2, Consts, RoomNat
  <2>5. ASSUME NEW q \in Proc PROVE Len(pending'[q]) + Cardinality(HandSet(q, th')) <= MaxOutbox + Room
    <3>1. CASE q = p
      BY <2>3, <2>4, <3>1
    <3>2. CASE q # p
      BY <2>1, <2>2, <3>2 DEF Bounded
    <3> QED BY <3>1, <3>2
  <2>6. Len(filePending') <= MaxOutbox + Room
    BY <2>1 DEF Bounded
  <2> QED BY <2>5, <2>6 DEF Bounded, HandSet, Room
<1>7. CASE UNCHANGED vars
  BY <1>7 DEF vars, Bounded, HandSet, Room
<1> QED BY <1>1, <1>2, <1>3, <1>4, <1>5, <1>6, <1>7, ThreadPairs DEF Next

(* OutboxBounded: the queue and the hands of a process hold at most        *)
(* MAX_OUTBOX items and one full drain of each thread, although a failed   *)
(* post puts items back without looking at the limit.                      *)
THEOREM QueueBounded == Spec => []OutboxBounded
<1>1. Init => Bounded
  <2> SUFFICES ASSUME Init PROVE Bounded
    OBVIOUS
  <2>1. TypeInv
    BY TypeStart
  <2>2. HandsOK(th)
    BY <2>1, HandsTyped DEF TypeInv
  <2>3. ASSUME NEW p \in Proc PROVE Len(pending[p]) = 0 /\ Cardinality(HandSet(p, th)) \in 0..Room
    BY <2>2, HandRoom DEF Init
  <2>4. Len(filePending) = 0
    BY DEF Init
  <2> QED BY <2>3, <2>4, Consts, RoomNat DEF Bounded
<1>2. TypeInv /\ TypeInv' /\ Bounded /\ [Next]_vars => Bounded'
  BY BoundedStep
<1>3. Bounded => OutboxBounded
  <2>1. \A p \in Proc : InHand(p) = HandSet(p, th)
    BY DEF InHand, HandSet
  <2> QED BY <2>1 DEF Bounded, OutboxBounded, Room
<1> QED BY <1>1, <1>2, <1>3, TypeAlways, PTL DEF Spec

-----------------------------------------------------------------------------
(* The places an item can be in.                                           *)
Kind == {"new", "pending", "dlq", "hand", "delivered", "dropped"}

(* Item i is in the place k, in the hand of h if k is "hand", and nowhere  *)
(* else.                                                                   *)
At(i, k, h) ==
    /\ k \in Kind
    /\ owner[i] = None <=> k = "new"
    /\ \A p \in Proc : i \in Ids(pending[p]) <=> (k = "pending" /\ owner[i] = p)
    /\ \A p \in Proc : i \in Ids(dlq[p]) <=> (k = "dlq" /\ owner[i] = p)
    /\ \A t \in Thread : i \in Ids(th[t].hand) <=> (k = "hand" /\ h = t)
    /\ k = "hand" => h \in Thread /\ h[1] = owner[i]
    /\ i \in delivered <=> k = "delivered"
    /\ i \in dropped <=> k = "dropped"

(* No queue and no hand has an item twice.                                 *)
Distinct ==
    /\ \A p \in Proc : Uniq(pending[p]) /\ Uniq(dlq[p])
    /\ \A t \in Thread : Uniq(th[t].hand)

(* Until a process crashes, every process runs and every item is in one    *)
(* place.                                                                  *)
Placed ==
    crashes = 0 => /\ up = Proc /\ Distinct
                   /\ \A i \in Id : \E k, h : At(i, k, h)

(* How often an item of a queue without repetitions is in it.              *)
LEMMA CountOne ==
    ASSUME NEW S, NEW s \in Seq(S), Uniq(s), NEW i
    PROVE  Occurrences(s, i) = IF i \in Ids(s) THEN 1 ELSE 0
<1> DEFINE K == {k \in 1..Len(s) : s[k].id = i}
<1>1. CASE i \in Ids(s)
  <2>1. PICK k \in 1..Len(s) : s[k].id = i
    BY <1>1 DEF Ids
  <2>2. K = {k}
    BY <2>1 DEF Uniq
  <2>3. Cardinality({k}) = 1
    BY FS_Singleton
  <2> QED BY <1>1, <2>2, <2>3 DEF Occurrences
<1>2. CASE i \notin Ids(s)
  <2>1. K = {}
    BY <1>2 DEF Ids
  <2>2. Cardinality({}) = 0
    BY FS_EmptySet
  <2> QED BY <1>2, <2>1, <2>2 DEF Occurrences
<1> QED BY <1>1, <1>2

(* Places counts one place for each item taken in.                         *)
LEMMA PlacedMeansOne == TypeInv /\ Placed => InOnePlace
<1> SUFFICES ASSUME TypeInv, Placed, crashes = 0, NEW i \in Id, owner[i] # None
             PROVE  Places(i) = 1
  BY DEF InOnePlace
<1> DEFINE p == owner[i]
           H == {t \in Thread : t[1] = p /\ Occurrences(th[t].hand, i) > 0}
<1>0. p \in Proc /\ pending[p] \in Seq(Fresh) /\ dlq[p] \in Seq(OutboxItem)
      /\ \A t \in Thread : th[t].hand \in Seq(Fresh)
  <2>1. \A t \in Thread : th[t] \in ThreadRec
    BY DEF TypeInv
  <2>2. \A t \in Thread : th[t].hand \in Seq(Fresh)
    BY <2>1 DEF ThreadRec
  <2> QED BY <2>2 DEF TypeInv, Base
<1>1. Distinct
  BY DEF Placed
<1>2. PICK k, h : At(i, k, h)
  BY DEF Placed
<1> DEFINE a == Occurrences(pending[p], i)
           b == Occurrences(dlq[p], i)
           c == Cardinality(H)
           d == IF i \in delivered THEN 1 ELSE 0
           e == IF i \in dropped THEN 1 ELSE 0
<1>3. a = IF i \in Ids(pending[p]) THEN 1 ELSE 0
  BY <1>0, <1>1, CountOne DEF Distinct
<1>4. b = IF i \in Ids(dlq[p]) THEN 1 ELSE 0
  BY <1>0, <1>1, CountOne DEF Distinct
<1>5. \A t \in Thread : Occurrences(th[t].hand, i) = IF i \in Ids(th[t].hand) THEN 1 ELSE 0
  BY <1>0, <1>1, CountOne DEF Distinct
<1>6. c = IF k = "hand" THEN 1 ELSE 0
  <2>1. H = {t \in Thread : t[1] = p /\ i \in Ids(th[t].hand)}
    BY <1>5
  <2>2. CASE k = "hand"
    <3>1. H = {h}
      BY <1>2, <2>1, <2>2 DEF At
    <3> QED BY <2>2, <3>1, FS_Singleton
  <2>3. CASE k # "hand"
    <3>1. H = {}
      BY <1>2, <2>1, <2>3 DEF At
    <3> QED BY <2>3, <3>1, FS_EmptySet
  <2> QED BY <2>2, <2>3
<1>7. Places(i) = a + b + c + d + e
  BY DEF Places
<1>8. /\ a = IF k = "pending" THEN 1 ELSE 0
      /\ b = IF k = "dlq" THEN 1 ELSE 0
      /\ d = IF k = "delivered" THEN 1 ELSE 0
      /\ e = IF k = "dropped" THEN 1 ELSE 0
      /\ k \in Kind \ {"new"}
  BY <1>0, <1>2, <1>3, <1>4 DEF At
<1> HIDE DEF a, b, c, d, e
<1> QED BY <1>6, <1>7, <1>8 DEF Kind

LEMMA PlacedStart == Init => Placed
<1> SUFFICES ASSUME Init PROVE Placed
  OBVIOUS
<1>1. Ids(<<>>) = {} /\ Uniq(<<>>)
  BY DEF Ids, Uniq
<1>2. \A t \in Thread : th[t].hand = <<>>
  BY IdleRec DEF Init
<1>3. Distinct
  BY <1>1, <1>2 DEF Init, Distinct
<1>4. ASSUME NEW i \in Id PROVE At(i, "new", None)
  BY <1>1, <1>2 DEF Init, At, Kind
<1> QED BY <1>3, <1>4 DEF Placed, Init

(* Thread t moves items between its hand, the queues of its process p, and *)
(* the two ends; the items of N are new.                                   *)
Moved(t, p, Q, D, H, R, V, N) ==
    /\ p = t[1] /\ N \subseteq Id
    /\ Ids(pending'[p]) = Q /\ \A q \in Proc : q # p => pending'[q] = pending[q]
    /\ Ids(dlq'[p]) = D /\ \A q \in Proc : q # p => dlq'[q] = dlq[q]
    /\ Ids(th'[t].hand) = H /\ \A u \in Thread : u # t => th'[u].hand = th[u].hand
    /\ dropped' = dropped \cup R /\ delivered' = delivered \cup V
    /\ \A j \in Id : owner'[j] = IF j \in N THEN p ELSE owner[j]
    /\ \A j \in N : owner[j] = None
    /\ Q \cap D = {} /\ Q \cap H = {} /\ Q \cap R = {} /\ Q \cap V = {}
    /\ D \cap H = {} /\ D \cap R = {} /\ D \cap V = {}
    /\ H \cap R = {} /\ H \cap V = {} /\ R \cap V = {}
    /\ Q \cup D \cup H \cup R \cup V
         = Ids(pending[p]) \cup Ids(dlq[p]) \cup Ids(th[t].hand) \cup N

LEMMA Rearranged ==
    ASSUME TypeInv, TypeInv', NEW t \in Thread, NEW p \in Proc,
           \A j \in Id : \E k, h : At(j, k, h),
           NEW Q, NEW D, NEW H, NEW R, NEW V, NEW N, Moved(t, p, Q, D, H, R, V, N)
    PROVE  \A j \in Id : \E k, h : At(j, k, h)'
<1> SUFFICES ASSUME NEW j \in Id PROVE \E k, h : At(j, k, h)'
  OBVIOUS
<1> USE DEF Moved
<1> DEFINE U == Ids(pending[p]) \cup Ids(dlq[p]) \cup Ids(th[t].hand) \cup N
<1>0. None \notin Proc
  BY Consts
<1>1. PICK k, h : At(j, k, h)
  OBVIOUS
<1>2. CASE j \notin U
  <2>1. j \notin Q /\ j \notin D /\ j \notin H /\ j \notin R /\ j \notin V /\ j \notin N
    BY <1>2
  <2>2. /\ j \notin Ids(pending[p]) /\ j \notin Ids(dlq[p]) /\ j \notin Ids(th[t].hand)
    BY <1>2
  <2>3. owner'[j] = owner[j] /\ (j \in dropped' <=> j \in dropped) /\ (j \in delivered' <=> j \in delivered)
    BY <2>1
  <2>4. /\ \A q \in Proc : j \in Ids(pending'[q]) <=> j \in Ids(pending[q])
        /\ \A q \in Proc : j \in Ids(dlq'[q]) <=> j \in Ids(dlq[q])
        /\ \A u \in Thread : j \in Ids(th'[u].hand) <=> j \in Ids(th[u].hand)
    BY <2>1, <2>2
  <2>5. At(j, k, h)'
    BY <1>1, <2>3, <2>4 DEF At
  <2> QED BY <2>5
<1>3. CASE j \in U
  <2>1. /\ \A q \in Proc : q # p => j \notin Ids(pending[q]) /\ j \notin Ids(dlq[q])
        /\ \A u \in Thread : u # t => j \notin Ids(th[u].hand)
        /\ j \notin delivered /\ j \notin dropped
    BY <1>0, <1>1, <1>3 DEF At, Kind
  <2>2. owner'[j] = p
    BY <1>1, <1>3 DEF At
  <2>3. j \in Q \/ j \in D \/ j \in H \/ j \in R \/ j \in V
    BY <1>3
  <2>4. /\ \A q \in Proc : j \in Ids(pending'[q]) <=> (j \in Q /\ q = p)
        /\ \A q \in Proc : j \in Ids(dlq'[q]) <=> (j \in D /\ q = p)
        /\ \A u \in Thread : j \in Ids(th'[u].hand) <=> (j \in H /\ u = t)
        /\ j \in delivered' <=> j \in V
        /\ j \in dropped' <=> j \in R
    BY <2>1
  <2>5. CASE j \in Q
    <3>1. At(j, "pending", t)'
      BY <1>0, <2>2, <2>4, <2>5 DEF At, Kind
    <3> QED BY <3>1
  <2>6. CASE j \in D
    <3>1. At(j, "dlq", t)'
      BY <1>0, <2>2, <2>4, <2>6 DEF At, Kind
    <3> QED BY <3>1
  <2>7. CASE j \in H
    <3>1. At(j, "hand", t)'
      BY <1>0, <2>2, <2>4, <2>7 DEF At, Kind
    <3> QED BY <3>1
  <2>8. CASE j \in R
    <3>1. At(j, "dropped", t)'
      BY <1>0, <2>2, <2>4, <2>8 DEF At, Kind
    <3> QED BY <3>1
  <2>9. CASE j \in V
    <3>1. At(j, "delivered", t)'
      BY <1>0, <2>2, <2>4, <2>9 DEF At, Kind
    <3> QED BY <3>1
  <2> QED BY <2>3, <2>5, <2>6, <2>7, <2>8, <2>9
<1> QED BY <1>2, <1>3

(* Before the step, what a process holds is held in one of its places.     *)
LEMMA Apart ==
    ASSUME TypeInv, \A j \in Id : \E k, h : At(j, k, h), NEW t \in Thread
    PROVE  LET P == Ids(pending[t[1]])
               D == Ids(dlq[t[1]])
               H == Ids(th[t].hand)
           IN /\ P \subseteq Id /\ D \subseteq Id /\ H \subseteq Id
              /\ P \cap D = {} /\ P \cap H = {} /\ D \cap H = {}
              /\ \A j \in Id : owner[j] = None => j \notin P \cup D \cup H
<1> DEFINE p == t[1]
<1>1. p \in Proc /\ pending[p] \in Seq(OutboxItem) /\ dlq[p] \in Seq(OutboxItem)
  BY ThreadPairs, FreshItem DEF TypeInv, Base
<1>2. th[t].hand \in Seq(OutboxItem)
  <2>1. th[t] \in ThreadRec
    BY DEF TypeInv
  <2>2. th[t].hand \in Seq(Fresh)
    BY <2>1 DEF ThreadRec
  <2> QED BY <2>2, FreshItem
<1>3. Ids(pending[p]) \subseteq Id /\ Ids(dlq[p]) \subseteq Id /\ Ids(th[t].hand) \subseteq Id
  BY <1>1, <1>2, FreshItem
<1> HIDE DEF p
<1>4. ASSUME NEW j \in Id
      PROVE  /\ ~(j \in Ids(pending[p]) /\ j \in Ids(dlq[p]))
             /\ ~(j \in Ids(pending[p]) /\ j \in Ids(th[t].hand))
             /\ ~(j \in Ids(dlq[p]) /\ j \in Ids(th[t].hand))
             /\ owner[j] = None => j \notin Ids(pending[p]) \cup Ids(dlq[p]) \cup Ids(th[t].hand)
  <2>1. PICK k, h : At(j, k, h)
    OBVIOUS
  <2> QED BY <1>1, <2>1 DEF At
<1> QED BY <1>3, <1>4 DEF p

(* The queues and the hand of the moving thread keep their items distinct. *)
LEMMA DistinctMoves ==
    ASSUME Distinct, NEW t \in Thread, NEW p \in Proc, p = t[1],
           \A q \in Proc : q # p => pending'[q] = pending[q] /\ dlq'[q] = dlq[q],
           \A u \in Thread : u # t => th'[u].hand = th[u].hand,
           Uniq(pending'[p]), Uniq(dlq'[p]), Uniq(th'[t].hand)
    PROVE  Distinct'
<1>1. \A q \in Proc : Uniq(pending'[q]) /\ Uniq(dlq'[q])
  BY DEF Distinct
<1>2. \A u \in Thread : Uniq(th'[u].hand)
  BY DEF Distinct
<1> QED BY <1>1, <1>2 DEF Distinct, Uniq

LEMMA PlacedEnqueue ==
    ASSUME TypeInv, TypeInv', Placed, NEW t \in Proc \X Enqueuer, NEW i \in Id, enqueue_webhook(t, i)
    PROVE  Placed'
<1> SUFFICES ASSUME crashes' = 0
             PROVE  up' = Proc /\ Distinct' /\ \A j \in Id : \E k, h : At(j, k, h)'
  BY DEF Placed
<1> DEFINE p == t[1]
           P == Ids(pending[p])
           D == Ids(dlq[p])
<1>0. /\ t \in Thread /\ p \in Proc /\ up' = up /\ crashes' = crashes /\ delivered' = delivered
      /\ owner[i] = None /\ owner' = [owner EXCEPT ![i] = p] /\ th[t].pc = "idle"
  BY ThreadPairs DEF enqueue_webhook
<1>1. up = Proc /\ Distinct /\ \A j \in Id : \E k, h : At(j, k, h)
  BY <1>0 DEF Placed
<1>2. /\ pending \in [Proc -> Seq(Fresh)] /\ dlq \in [Proc -> Seq(OutboxItem)]
      /\ owner \in [Id -> Proc \cup {None}] /\ th \in [Thread -> ThreadRec] /\ th[t].hand = <<>>
  BY <1>0 DEF TypeInv, Base, ThreadOK
<1>3. /\ P \subseteq Id /\ D \subseteq Id /\ P \cap D = {} /\ i \notin P /\ i \notin D
  BY <1>0, <1>1, Apart
<1>4. PICK q \in Seq(Fresh), m \in Seq(Fresh) :
             /\ pending' = [pending EXCEPT ![p] = q] /\ Len(q) <= MaxOutbox
             /\ Ids(m) \cup Ids(q) = Ids(pending[p]) \cup {i}
             /\ Uniq(pending[p]) /\ i \notin Ids(pending[p]) =>
                   Uniq(m) /\ Uniq(q) /\ Ids(m) \cap Ids(q) = {}
             /\ PushDlq(p, m)
  BY <1>0, EnqueueFacts
<1>5. m \in Seq(OutboxItem)
  BY FreshItem
<1>6. Uniq(pending[p]) /\ Uniq(dlq[p])
  BY <1>0, <1>1 DEF Distinct
<1>7. th'[t].hand = <<>> /\ \A u \in Thread : u # t => th'[u].hand = th[u].hand
  BY <1>0, <1>2 DEF enqueue_webhook, Idle
<1> HIDE DEF p
<1>8. PICK d \in Seq(OutboxItem), R \in SUBSET Id :
             /\ dlq' = [dlq EXCEPT ![p] = d] /\ dropped' = dropped \cup R
             /\ R \cup Ids(d) = Ids(dlq[p]) \cup Ids(m)
             /\ Uniq(dlq[p]) /\ Uniq(m) /\ Ids(dlq[p]) \cap Ids(m) = {} =>
                   Uniq(d) /\ R \cap Ids(d) = {}
  BY <1>0, <1>4, <1>5, DlqPush
<1>9. Uniq(m) /\ Uniq(q) /\ Ids(m) \cap Ids(q) = {} /\ Ids(m) \cup Ids(q) = P \cup {i}
  BY <1>3, <1>4, <1>6
<1>10. Uniq(d) /\ R \cap Ids(d) = {} /\ R \cup Ids(d) = D \cup Ids(m)
  <2>1. Ids(dlq[p]) \cap Ids(m) = {}
    BY <1>3, <1>9
  <2> QED BY <1>6, <1>8, <1>9, <2>1
<1>11. /\ pending'[p] = q /\ dlq'[p] = d
       /\ \A x \in Proc : x # p => pending'[x] = pending[x] /\ dlq'[x] = dlq[x]
  BY <1>0, <1>2, <1>4, <1>8
<1>12. Ids(<<>>) = {} /\ Uniq(<<>>)
  BY DEF Ids, Uniq
<1>13. Distinct'
  BY <1>0, <1>1, <1>7, <1>9, <1>10, <1>11, <1>12, DistinctMoves DEF p
<1>14. \A j \in Id : owner'[j] = IF j \in {i} THEN p ELSE owner[j]
  BY <1>0, <1>2
<1> DEFINE Q == Ids(q)
           E == Ids(d)
           H == {}
           V == {}
           N == {i}
<1>15. /\ Ids(pending'[p]) = Q /\ \A x \in Proc : x # p => pending'[x] = pending[x]
       /\ Ids(dlq'[p]) = E /\ \A x \in Proc : x # p => dlq'[x] = dlq[x]
       /\ Ids(th'[t].hand) = H /\ \A u \in Thread : u # t => th'[u].hand = th[u].hand
       /\ dropped' = dropped \cup R /\ delivered' = delivered \cup V
       /\ \A j \in Id : owner'[j] = IF j \in N THEN p ELSE owner[j]
       /\ \A j \in N : owner[j] = None
  BY <1>0, <1>7, <1>8, <1>11, <1>12, <1>14
<1>16. /\ Q \cap E = {} /\ Q \cap H = {} /\ Q \cap R = {} /\ Q \cap V = {}
       /\ E \cap H = {} /\ E \cap R = {} /\ E \cap V = {}
       /\ H \cap R = {} /\ H \cap V = {} /\ R \cap V = {}
       /\ Q \cup E \cup H \cup R \cup V
            = Ids(pending[p]) \cup Ids(dlq[p]) \cup Ids(th[t].hand) \cup N
  <2>1. Q \cap E = {} /\ Q \cap R = {}
    BY <1>3, <1>9, <1>10
  <2>2. Ids(th[t].hand) = {}
    BY <1>2, <1>12
  <2> QED BY <1>9, <1>10, <2>1, <2>2
<1>17. \A j \in Id : \E k, h : At(j, k, h)'
  <2>1. p = t[1] /\ N \subseteq Id
    BY DEF p
  <2> HIDE DEF Q, E, H, V, N
  <2>2. Moved(t, p, Q, E, H, R, V, N)
    BY <1>15, <1>16, <2>1 DEF Moved
  <2> QED BY <1>0, <1>1, <2>2, Rearranged
<1> QED BY <1>0, <1>1, <1>13, <1>17

LEMMA PlacedDrain ==
    ASSUME TypeInv, TypeInv', Placed, NEW t \in Proc \X Drainer,
           NEW K \in SUBSET DOMAIN pending[t[1]], drain_webhooks(t, K)
    PROVE  Placed'
<1> SUFFICES ASSUME crashes' = 0
             PROVE  up' = Proc /\ Distinct' /\ \A j \in Id : \E k, h : At(j, k, h)'
  BY DEF Placed
<1> DEFINE p == t[1]
           D == Ids(dlq[p])
<1>0. /\ t \in Thread /\ p \in Proc /\ th[t].pc = "idle"
      /\ UNCHANGED <<up, dlq, owner, delivered, dropped, crashes>>
  BY ThreadPairs DEF drain_webhooks
<1>1. up = Proc /\ Distinct /\ \A j \in Id : \E k, h : At(j, k, h)
  BY <1>0 DEF Placed
<1>2. /\ pending \in [Proc -> Seq(Fresh)] /\ th \in [Thread -> ThreadRec] /\ th[t].hand = <<>>
  BY <1>0 DEF TypeInv, Base, ThreadOK
<1>3. Ids(pending[p]) \cap D = {}
  BY <1>0, <1>1, Apart
<1>4. PICK u \in Seq(Fresh), q \in Seq(Fresh) :
             /\ pending' = [pending EXCEPT ![p] = q]
             /\ th' = [th EXCEPT ![t] = [Idle EXCEPT !.pc = "post", !.hand = u]]
             /\ Len(u) <= MaxN /\ Len(u) + Len(q) = Len(pending[p])
             /\ Ids(u) \cup Ids(q) = Ids(pending[p])
             /\ Uniq(pending[p]) => Uniq(u) /\ Uniq(q) /\ Ids(u) \cap Ids(q) = {}
  BY <1>0, DrainFacts
<1>5. Uniq(pending[p]) /\ Uniq(dlq[p])
  BY <1>0, <1>1 DEF Distinct
<1>6. Uniq(u) /\ Uniq(q) /\ Ids(u) \cap Ids(q) = {} /\ Ids(u) \cup Ids(q) = Ids(pending[p])
  BY <1>4, <1>5
<1>7. th'[t].hand = u /\ \A x \in Thread : x # t => th'[x].hand = th[x].hand
  BY <1>0, <1>2, <1>4 DEF Idle
<1>8. /\ pending'[p] = q /\ dlq'[p] = dlq[p]
      /\ \A x \in Proc : x # p => pending'[x] = pending[x] /\ dlq'[x] = dlq[x]
  BY <1>0, <1>2, <1>4
<1>9. p = t[1]
  OBVIOUS
<1> HIDE DEF p
<1>10. Distinct'
  BY <1>0, <1>1, <1>5, <1>6, <1>7, <1>8, <1>9, DistinctMoves
<1>11. Ids(th[t].hand) = {}
  BY <1>2 DEF Ids
<1>12. Moved(t, p, Ids(q), D, Ids(u), {}, {}, {})
  BY <1>0, <1>3, <1>6, <1>7, <1>8, <1>9, <1>11 DEF Moved
<1> HIDE DEF D
<1>13. \A j \in Id : \E k, h : At(j, k, h)'
  BY <1>0, <1>1, <1>12, Rearranged
<1> QED BY <1>0, <1>1, <1>10, <1>13

LEMMA PlacedPost ==
    ASSUME TypeInv, TypeInv', Placed, NEW t \in Thread, Post(t)
    PROVE  Placed'
<1> SUFFICES ASSUME crashes' = 0
             PROVE  up' = Proc /\ Distinct' /\ \A j \in Id : \E k, h : At(j, k, h)'
  BY DEF Placed
<1> DEFINE p == t[1]
           s == th[t].hand
<1>0. p \in Proc /\ UNCHANGED <<up, pending, dlq, owner, dropped, crashes>>
  BY ThreadPairs DEF Post
<1>1. up = Proc /\ Distinct /\ \A j \in Id : \E k, h : At(j, k, h)
  BY <1>0 DEF Placed
<1>2. th \in [Thread -> ThreadRec] /\ th[t] \in ThreadRec
  BY DEF TypeInv
<1>3. /\ th[t].pc = "post" /\ s # <<>> /\ s \in Seq(Fresh)
      /\ \/ /\ delivered' = delivered \cup {Head(s).id}
            /\ th' = [th EXCEPT ![t] = [th[t] EXCEPT !.hand = Tail(s)]]
         \/ /\ delivered' = delivered
            /\ th' = [th EXCEPT ![t] = [th[t] EXCEPT !.pc = "failed"]]
  BY PostFacts
<1>4. /\ Ids(pending[p]) \cap Ids(dlq[p]) = {} /\ Ids(pending[p]) \cap Ids(s) = {}
      /\ Ids(dlq[p]) \cap Ids(s) = {}
  BY <1>1, Apart
<1>5. Uniq(pending[p]) /\ Uniq(dlq[p]) /\ Uniq(s)
  BY <1>0, <1>1 DEF Distinct
<1>6. /\ Ids(s) = Ids(Tail(s)) \cup {Head(s).id}
      /\ Uniq(Tail(s)) /\ Head(s).id \notin Ids(Tail(s))
  BY <1>3, <1>5, Pop
<1>7. \A x \in Thread : x # t => th'[x].hand = th[x].hand
  BY <1>2, <1>3
<1>8. p = t[1]
  OBVIOUS
<1> HIDE DEF p
<1>9. CASE /\ delivered' = delivered \cup {Head(s).id}
           /\ th' = [th EXCEPT ![t] = [th[t] EXCEPT !.hand = Tail(s)]]
  <2>1. th'[t].hand = Tail(s)
    BY <1>2, <1>9 DEF ThreadRec
  <2>2. Distinct'
    BY <1>0, <1>1, <1>5, <1>6, <1>7, <1>8, <2>1, DistinctMoves
  <2>3. PICK v : v = Head(s).id
    OBVIOUS
  <2>4. Moved(t, p, Ids(pending[p]), Ids(dlq[p]), Ids(Tail(s)), {}, {v}, {})
    BY <1>0, <1>4, <1>6, <1>7, <1>8, <1>9, <2>1, <2>3 DEF Moved
  <2>5. \A j \in Id : \E k, h : At(j, k, h)'
    BY <1>0, <1>1, <2>4, Rearranged
  <2> QED BY <1>0, <1>1, <2>2, <2>5
<1>10. CASE /\ delivered' = delivered
            /\ th' = [th EXCEPT ![t] = [th[t] EXCEPT !.pc = "failed"]]
  <2>1. th'[t].hand = s
    BY <1>2, <1>10 DEF ThreadRec
  <2>2. Distinct'
    BY <1>0, <1>1, <1>5, <1>7, <1>8, <2>1, DistinctMoves
  <2>3. Moved(t, p, Ids(pending[p]), Ids(dlq[p]), Ids(s), {}, {}, {})
    BY <1>0, <1>4, <1>7, <1>8, <1>10, <2>1 DEF Moved
  <2>4. \A j \in Id : \E k, h : At(j, k, h)'
    BY <1>0, <1>1, <2>3, Rearranged
  <2> QED BY <1>0, <1>1, <2>2, <2>4
<1> QED BY <1>3, <1>9, <1>10

LEMMA PlacedFailed ==
    ASSUME TypeInv, TypeInv', Placed, NEW t \in Thread, NEW limit \in 1..MaxAttempts, PostFailed(t, limit)
    PROVE  Placed'
<1> SUFFICES ASSUME crashes' = 0
             PROVE  up' = Proc /\ Distinct' /\ \A j \in Id : \E k, h : At(j, k, h)'
  BY DEF Placed
<1> DEFINE p == t[1]
           s == th[t].hand
<1>0. p \in Proc /\ UNCHANGED <<up, owner, delivered, crashes>>
  BY ThreadPairs DEF PostFailed
<1>1. up = Proc /\ Distinct /\ \A j \in Id : \E k, h : At(j, k, h)
  BY <1>0 DEF Placed
<1>2. /\ th \in [Thread -> ThreadRec] /\ th[t] \in ThreadRec
      /\ pending \in [Proc -> Seq(Fresh)] /\ dlq \in [Proc -> Seq(OutboxItem)]
  BY DEF TypeInv, Base
<1>3. /\ s # <<>> /\ s \in Seq(Fresh)
      /\ th' = [th EXCEPT ![t] = [th[t] EXCEPT !.pc = "save_pending", !.hand = Tail(s), !.then = "post"]]
      /\ \E x \in OutboxItem :
            /\ x.id = Head(s).id
            /\ \/ PushDlq(p, <<x>>) /\ pending' = pending
               \/ /\ x \in Fresh /\ pending' = [pending EXCEPT ![p] = Append(pending[p], x)]
                  /\ dlq' = dlq /\ dropped' = dropped
  BY FailedFacts
<1>4. /\ Ids(pending[p]) \cap Ids(dlq[p]) = {} /\ Ids(pending[p]) \cap Ids(s) = {}
      /\ Ids(dlq[p]) \cap Ids(s) = {}
  BY <1>1, Apart
<1>5. Uniq(pending[p]) /\ Uniq(dlq[p]) /\ Uniq(s)
  BY <1>0, <1>1 DEF Distinct
<1>6. /\ Ids(s) = Ids(Tail(s)) \cup {Head(s).id}
      /\ Uniq(Tail(s)) /\ Head(s).id \notin Ids(Tail(s))
  BY <1>3, <1>5, Pop
<1>7. th'[t].hand = Tail(s) /\ \A u \in Thread : u # t => th'[u].hand = th[u].hand
  BY <1>2, <1>3 DEF ThreadRec
<1>8. p = t[1]
  OBVIOUS
<1>9. PICK x \in OutboxItem :
            /\ x.id = Head(s).id
            /\ \/ PushDlq(p, <<x>>) /\ pending' = pending
               \/ /\ x \in Fresh /\ pending' = [pending EXCEPT ![p] = Append(pending[p], x)]
                  /\ dlq' = dlq /\ dropped' = dropped
  BY <1>3
<1>10. PICK a \in SUBSET Id, T \in SUBSET Id :
         T = Ids(Tail(s)) /\ a = {x.id} /\ T \cap a = {} /\ Ids(s) = T \cup a
  <2>1. Ids(s) \subseteq Id
    BY <1>3, FreshItem
  <2> QED BY <1>6, <1>9, <2>1
<1> HIDE DEF p, s
<1>11. CASE PushDlq(p, <<x>>) /\ pending' = pending
  <2>1. <<x>> \in Seq(OutboxItem) /\ Ids(<<x>>) = {x.id} /\ Uniq(<<x>>)
    BY One
  <2>2. PICK d \in Seq(OutboxItem), R \in SUBSET Id :
             /\ dlq' = [dlq EXCEPT ![p] = d] /\ dropped' = dropped \cup R
             /\ R \cup Ids(d) = Ids(dlq[p]) \cup Ids(<<x>>)
             /\ Uniq(dlq[p]) /\ Uniq(<<x>>) /\ Ids(dlq[p]) \cap Ids(<<x>>) = {} =>
                   Uniq(d) /\ R \cap Ids(d) = {}
    BY <1>0, <1>11, <2>1, DlqPush
  <2>3. Uniq(d) /\ R \cap Ids(d) = {} /\ R \cup Ids(d) = Ids(dlq[p]) \cup a
    <3>1. Ids(<<x>>) = a /\ Ids(dlq[p]) \cap a = {}
      BY <1>4, <1>10, <2>1
    <3> QED BY <1>5, <2>1, <2>2, <3>1
  <2>4. dlq'[p] = d /\ \A q \in Proc : q # p => dlq'[q] = dlq[q] /\ pending'[q] = pending[q]
    BY <1>0, <1>2, <1>11, <2>2
  <2>5. Distinct'
    <3>1. Uniq(pending'[p]) /\ Uniq(dlq'[p]) /\ Uniq(th'[t].hand)
      BY <1>5, <1>6, <1>7, <1>11, <2>3, <2>4
    <3>2. p \in Proc /\ p = t[1] /\ Distinct
      BY <1>0, <1>1, <1>8
    <3> QED BY <1>7, <2>4, <3>1, <3>2, DistinctMoves
  <2>6. Moved(t, p, Ids(pending[p]), Ids(d), T, R, {}, {})
    <3>1. Ids(th[t].hand) = T \cup a /\ Ids(th'[t].hand) = T
      BY <1>7, <1>10 DEF s
    <3>2. Ids(pending[p]) \cap (T \cup a) = {} /\ Ids(dlq[p]) \cap (T \cup a) = {}
      BY <1>4, <1>10
    <3> QED BY <1>0, <1>4, <1>7, <1>8, <1>10, <1>11, <2>2, <2>3, <2>4, <3>1, <3>2 DEF Moved
  <2>7. \A j \in Id : \E k, h : At(j, k, h)'
    BY <1>0, <1>1, <2>6, Rearranged
  <2> QED BY <1>0, <1>1, <2>5, <2>7
<1>12. CASE /\ x \in Fresh /\ pending' = [pending EXCEPT ![p] = Append(pending[p], x)]
            /\ dlq' = dlq /\ dropped' = dropped
  <2>1. pending[p] \in Seq(Fresh)
    BY <1>0, <1>2
  <2>2. /\ Ids(Append(pending[p], x)) = Ids(pending[p]) \cup {x.id}
        /\ Uniq(pending[p]) /\ x.id \notin Ids(pending[p]) => Uniq(Append(pending[p], x))
    BY <1>12, <2>1, Push
  <2>3. PICK q : q = Append(pending[p], x)
    OBVIOUS
  <2>4. Uniq(q) /\ Ids(q) = Ids(pending[p]) \cup a
    BY <1>4, <1>5, <1>10, <2>2, <2>3
  <2>5. pending'[p] = q /\ \A y \in Proc : y # p => dlq'[y] = dlq[y] /\ pending'[y] = pending[y]
    BY <1>0, <1>2, <1>12, <2>3
  <2>6. Distinct'
    <3>1. Uniq(pending'[p]) /\ Uniq(dlq'[p]) /\ Uniq(th'[t].hand)
      BY <1>5, <1>6, <1>7, <1>12, <2>4, <2>5
    <3>2. p \in Proc /\ p = t[1] /\ Distinct
      BY <1>0, <1>1, <1>8
    <3> QED BY <1>7, <2>5, <3>1, <3>2, DistinctMoves
  <2>7. Moved(t, p, Ids(q), Ids(dlq[p]), T, {}, {}, {})
    <3>1. Ids(th[t].hand) = T \cup a /\ Ids(th'[t].hand) = T
      BY <1>7, <1>10 DEF s
    <3>2. Ids(pending[p]) \cap (T \cup a) = {} /\ Ids(dlq[p]) \cap (T \cup a) = {}
      BY <1>4, <1>10
    <3> QED BY <1>0, <1>4, <1>7, <1>8, <1>10, <1>12, <2>4, <2>5, <3>1, <3>2 DEF Moved
  <2>8. \A j \in Id : \E k, h : At(j, k, h)'
    BY <1>0, <1>1, <2>7, Rearranged
  <2> QED BY <1>0, <1>1, <2>6, <2>8
<1> QED BY <1>9, <1>11, <1>12

(* Saves move no item; without a crash no process starts again.            *)
LEMMA PlacedRest ==
    ASSUME TypeInv, Placed,
           \/ \E t \in Thread : DrainEnd(t) \/ SavePending(t) \/ SaveDlq(t)
           \/ \E p \in Proc : Crash(p) \/ boxes(p)
           \/ UNCHANGED vars
    PROVE  Placed'
<1> SUFFICES ASSUME crashes' = 0
             PROVE  up' = Proc /\ Distinct' /\ \A j \in Id : \E k, h : At(j, k, h)'
  BY DEF Placed
<1>0. crashes \in Nat /\ th \in [Thread -> ThreadRec] /\ \A t \in Thread : th[t] \in ThreadRec
  BY Consts DEF TypeInv, Base
<1>1. ASSUME UNCHANGED <<up, pending, dlq, owner, delivered, dropped, crashes>>,
             \A u \in Thread : th'[u].hand = th[u].hand
      PROVE  up' = Proc /\ Distinct' /\ \A j \in Id : \E k, h : At(j, k, h)'
  <2>1. up = Proc /\ Distinct /\ \A j \in Id : \E k, h : At(j, k, h)
    BY <1>1 DEF Placed
  <2>2. Distinct'
    BY <1>1, <2>1 DEF Distinct, Uniq
  <2>3. ASSUME NEW j \in Id PROVE \E k, h : At(j, k, h)'
    <3>1. PICK k, h : At(j, k, h)
      BY <2>1
    <3>2. At(j, k, h)'
      BY <1>1, <3>1 DEF At, Ids
    <3> QED BY <3>2
  <2> QED BY <1>1, <2>1, <2>2, <2>3
<1>2. ASSUME NEW t \in Thread, DrainEnd(t) PROVE \A u \in Thread : th'[u].hand = th[u].hand
  BY <1>0, <1>2 DEF DrainEnd, Idle
<1>3. ASSUME NEW t \in Thread, SavePending(t) \/ SaveDlq(t) PROVE \A u \in Thread : th'[u].hand = th[u].hand
  <2>1. \A u \in Thread : u # t => th'[u].hand = th[u].hand
    BY <1>0, <1>3 DEF SavePending, SaveDlq
  <2>2. th'[t].hand = th[t].hand
    <3>0. th[t] \in ThreadRec
      BY <1>0
    <3>1. CASE SavePending(t)
      BY <1>0, <3>0, <3>1 DEF SavePending, ThreadRec
    <3>2. CASE SaveDlq(t)
      <4>1. th'[t] = [th[t] EXCEPT !.pc = th[t].then, !.item = None]
        BY <1>0, <3>2 DEF SaveDlq
      <4> QED BY <3>0, <4>1 DEF ThreadRec
    <3> QED BY <1>3, <3>1, <3>2
  <2> QED BY <2>1, <2>2
<1>4. ASSUME NEW p \in Proc, Crash(p) PROVE FALSE
  BY <1>0, <1>4 DEF Crash
<1>5. ASSUME NEW p \in Proc, boxes(p) PROVE FALSE
  BY <1>5 DEF boxes, Placed
<1>6. CASE \E t \in Thread : DrainEnd(t) \/ SavePending(t) \/ SaveDlq(t)
  <2>1. UNCHANGED <<up, pending, dlq, owner, delivered, dropped, crashes>>
    <3>1. ASSUME NEW t \in Thread, DrainEnd(t)
          PROVE  UNCHANGED <<up, pending, dlq, owner, delivered, dropped, crashes>>
      BY <3>1 DEF DrainEnd
    <3>2. ASSUME NEW t \in Thread, SavePending(t) \/ SaveDlq(t)
          PROVE  UNCHANGED <<up, pending, dlq, owner, delivered, dropped, crashes>>
      BY <3>2 DEF SavePending, SaveDlq
    <3> QED BY <1>6, <3>1, <3>2
  <2>2. \A u \in Thread : th'[u].hand = th[u].hand
    BY <1>2, <1>3, <1>6
  <2> QED BY <1>1, <2>1, <2>2
<1>7. CASE UNCHANGED vars
  BY <1>1, <1>7 DEF vars
<1> QED BY <1>4, <1>5, <1>6, <1>7

LEMMA PlacedStep ==
    ASSUME TypeInv, TypeInv', Placed, [Next]_vars
    PROVE  Placed'
<1>1. ASSUME NEW t \in Proc \X Enqueuer, NEW i \in Id, enqueue_webhook(t, i) PROVE Placed'
  BY <1>1, PlacedEnqueue
<1>2. ASSUME NEW t \in Proc \X Drainer, NEW K \in SUBSET DOMAIN pending[t[1]], drain_webhooks(t, K)
      PROVE  Placed'
  BY <1>2, PlacedDrain
<1>3. ASSUME NEW t \in Proc \X Drainer, NEW limit \in 1..MaxAttempts, PostFailed(t, limit)
      PROVE  Placed'
  BY <1>3, ThreadPairs, PlacedFailed
<1>4. ASSUME NEW t \in Proc \X Drainer, Post(t) PROVE Placed'
  BY <1>4, ThreadPairs, PlacedPost
<1>5. ASSUME NEW t \in Proc \X Drainer, DrainEnd(t) PROVE Placed'
  <2>1. t \in Thread
    BY ThreadPairs
  <2> QED BY <1>5, <2>1, PlacedRest
<1>6. ASSUME NEW t \in Thread, SavePending(t) \/ SaveDlq(t) PROVE Placed'
  BY <1>6, PlacedRest
<1>7. ASSUME NEW p \in Proc, Crash(p) \/ boxes(p) PROVE Placed'
  BY <1>7, PlacedRest
<1>8. CASE UNCHANGED vars
  BY <1>8, PlacedRest
<1> QED BY <1>1, <1>2, <1>3, <1>4, <1>5, <1>6, <1>7, <1>8 DEF Next

(* InOnePlace: until a crash, an item that was taken in is pending, a dead *)
(* letter, in the hands of one drain, delivered or discarded, and only one *)
(* of these: enqueues, drains, failed posts and saves of any number of     *)
(* threads lose none and post none twice.                                  *)
THEOREM OnePlace == Spec => []InOnePlace
<1>1. TypeInv /\ TypeInv' /\ Placed /\ [Next]_vars => Placed'
  BY PlacedStep
<1> QED BY <1>1, PlacedStart, PlacedMeansOne, TypeAlways, PTL DEF Spec
=============================================================================
