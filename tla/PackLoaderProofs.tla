-------------------------- MODULE PackLoaderProofs --------------------------
(***************************************************************************)
(* Proofs about the pack loader and its resource bus, for every number of  *)
(* waves, packs and classes.  NoLostWaiter and HolderAlive are not         *)
(* inductive: a release looks at a class and not at its holder, so it has  *)
(* to be known who may stand in a queue (Waiter), that nobody stands in    *)
(* two places at once (Queued) and that a run which counts as re-entrant   *)
(* holds nothing itself (Held, Nesting).  The bus operators are treated    *)
(* first, as operators on a bus; the waves, which only decide what starts, *)
(* last.                                                                   *)
(***************************************************************************)
EXTENDS PackLoader, TLAPS

(* The assumptions on the constants, in the form the steps use.            *)
LEMMA Consts ==
    /\ None \notin Runs /\ None \notin Waves
    /\ Gpu \in Class /\ Forced \subseteq Class
    /\ resourceClasses \in [Packs -> SUBSET Class]
    /\ \A i \in DOMAIN Classes : Classes[i] \in Class
    /\ MaxEvents \in Nat
<1>1. 1 \in DOMAIN Classes
  BY ConstAssumption
<1> QED BY <1>1, ConstAssumption DEF Gpu, Class

(* The run o may be owed the class c by the bus b: it is taking its locks  *)
(* (acquireOne), c is one of its classes and it has not got it. The bus    *)
(* and its surroundings (runs r, re-entrant runs n, classes cl) are        *)
(* parameters, so that the lemmas below are about the bus operators alone. *)
Waiter(b, r, n, cl, c, o) ==
    r[o] = "lock" /\ o \notin n /\ c \in cl[o] /\ c \notin b.got[o]

(* A holder is in its run, took its locks one by one and wants the class.  *)
Held(b, r, n, cl) ==
    \A c \in Class : b.holders[c] # None =>
        /\ r[b.holders[c]] \in {"lock", "run"}
        /\ b.holders[c] \notin n /\ c \in cl[b.holders[c]]

(* Who is in a queue or about to be woken is owed the class, and is there  *)
(* once: a run that was forgotten by a forced release and queued again     *)
(* would be served twice.                                                  *)
Queued(b, r, n, cl) ==
    /\ \A c \in Class : \A i \in DOMAIN b.waiters[c] :
          /\ Waiter(b, r, n, cl, c, b.waiters[c][i])
          /\ <<c, b.waiters[c][i]>> \notin b.wakes
          /\ \A j \in DOMAIN b.waiters[c] : b.waiters[c][i] = b.waiters[c][j] => i = j
    /\ \A c \in Class, o \in Runs : <<c, o>> \in b.wakes => Waiter(b, r, n, cl, c, o)

(* A queue that is not empty belongs to a class that is held or passed on. *)
Served(b, c) ==
    b.waiters[c] # <<>> => b.holders[c] # None \/ \E o \in Runs : <<c, o>> \in b.wakes

(* A re-entrant run counts as having all of its classes.                   *)
Nesting(b, r, n, cl) ==
    \A o \in n : r[o] \in {"lock", "run"} /\ cl[o] \subseteq b.got[o]

Good(b, r, n, cl) ==
    /\ b \in Bus
    /\ Held(b, r, n, cl) /\ Queued(b, r, n, cl) /\ Nesting(b, r, n, cl)
    /\ \A c \in Class : Served(b, c)

(* The fields of the bus.                                                  *)
LEMMA BusFields ==
    ASSUME NEW b \in Bus
    PROVE  /\ b.holders \in [Class -> Runs \cup {None}] /\ b.depth \in [Class -> Int]
           /\ b.waiters \in [Class -> Seq(Runs)] /\ b.got \in [Runs -> SUBSET Class]
           /\ b.wakes \in SUBSET (Class \X Runs)
           /\ \A c \in Class : \A i \in DOMAIN b.waiters[c] : b.waiters[c][i] \in Runs
<1>1. /\ b.holders \in [Class -> Runs \cup {None}] /\ b.depth \in [Class -> Int]
      /\ b.waiters \in [Class -> Seq(Runs)] /\ b.got \in [Runs -> SUBSET Class]
      /\ b.wakes \in SUBSET (Class \X Runs)
  BY DEF Bus
<1>2. ASSUME NEW c \in Class, NEW i \in DOMAIN b.waiters[c] PROVE b.waiters[c][i] \in Runs
  <2>1. b.waiters[c] \in Seq(Runs)
    BY <1>1
  <2> QED BY <2>1
<1> QED BY <1>1, <1>2

(* tryTake, field by field.                                                *)
LEMMA TakeFields ==
    ASSUME NEW b \in Bus, NEW c \in Class, NEW o \in Runs
    PROVE  LET t == tryTake(b, c, o) IN
           /\ t \in Bus /\ t.wakes = b.wakes
           /\ b.holders[c] = None =>
                 /\ t.holders = [b.holders EXCEPT ![c] = o] /\ t.waiters = b.waiters
                 /\ t.got = [b.got EXCEPT ![o] = b.got[o] \cup {c}]
           /\ b.holders[c] # None =>
                 /\ t.holders = b.holders /\ t.got = b.got
                 /\ t.waiters = [b.waiters EXCEPT ![c] = Append(b.waiters[c], o)]
<1>0. /\ b.holders \in [Class -> Runs \cup {None}] /\ b.depth \in [Class -> Int]
      /\ b.waiters \in [Class -> Seq(Runs)] /\ b.got \in [Runs -> SUBSET Class]
      /\ b.wakes \in SUBSET (Class \X Runs)
  BY BusFields
<1>1. CASE b.holders[c] = None
  <2>1. tryTake(b, c, o) = [b EXCEPT !.holders[c] = o, !.depth[c] = 1, !.got[o] = @ \cup {c}]
    BY <1>1 DEF tryTake
  <2>2. tryTake(b, c, o) =
          [b EXCEPT !.holders = [b.holders EXCEPT ![c] = o],
                    !.depth = [b.depth EXCEPT ![c] = 1],
                    !.got = [b.got EXCEPT ![o] = b.got[o] \cup {c}]]
    BY <2>1, <1>0 DEF Bus
  <2>3. [b.holders EXCEPT ![c] = o] \in [Class -> Runs \cup {None}]
        /\ [b.depth EXCEPT ![c] = 1] \in [Class -> Int]
        /\ [b.got EXCEPT ![o] = b.got[o] \cup {c}] \in [Runs -> SUBSET Class]
    BY <1>0
  <2> QED BY <1>1, <2>2, <2>3, <1>0 DEF Bus
<1>2. CASE b.holders[c] # None
  <2>1. tryTake(b, c, o) = [b EXCEPT !.waiters = [b.waiters EXCEPT ![c] = Append(b.waiters[c], o)]]
    BY <1>2, <1>0 DEF tryTake, Bus
  <2>2. [b.waiters EXCEPT ![c] = Append(b.waiters[c], o)] \in [Class -> Seq(Runs)]
    BY <1>0
  <2> QED BY <1>2, <2>1, <2>2, <1>0 DEF Bus
<1> QED BY <1>1, <1>2

(* The queues after one waiter of each class in cs was taken off.          *)
popped(b, cs) == [c \in Class |-> IF c \in cs /\ b.waiters[c] # <<>>
                                  THEN Tail(b.waiters[c]) ELSE b.waiters[c]]

Queues == [Class -> Seq(Runs)]
Wakes == SUBSET (Class \X Runs)

LEMMA PoppedType ==
    ASSUME NEW b \in Bus, NEW cs
    PROVE  popped(b, cs) \in Queues
<1>1. ASSUME NEW c \in Class
      PROVE  (IF c \in cs /\ b.waiters[c] # <<>> THEN Tail(b.waiters[c]) ELSE b.waiters[c]) \in Seq(Runs)
  <2>1. b.waiters[c] \in Seq(Runs)
    BY BusFields
  <2> QED BY <2>1
<1> QED BY <1>1 DEF popped, Queues

(* What the two kinds of release have in common.                           *)
LEMMA ReleasedFields ==
    ASSUME NEW b \in Bus, NEW cs, NEW q \in Queues, NEW k \in Wakes
    PROVE  LET t == released(b, cs, q, k) IN
           /\ t \in Bus /\ t.waiters = q /\ t.wakes = k /\ t.got = b.got
           /\ t.holders = [c \in Class |-> IF c \in cs THEN None ELSE b.holders[c]]
           /\ t.depth = [c \in Class |-> IF c \in cs THEN 0 ELSE b.depth[c]]
<1> DEFINE h == [c \in Class |-> IF c \in cs THEN None ELSE b.holders[c]]
           d == [c \in Class |-> IF c \in cs THEN 0 ELSE b.depth[c]]
<1>0. b.holders \in [Class -> Runs \cup {None}] /\ b.depth \in [Class -> Int]
  BY BusFields
<1>1. released(b, cs, q, k) = [b EXCEPT !.holders = h, !.depth = d, !.waiters = q, !.wakes = k]
  BY DEF released, Bus
<1>2. h \in [Class -> Runs \cup {None}] /\ d \in [Class -> Int]
  BY <1>0
<1> HIDE DEF h, d
<1>3. LET t == released(b, cs, q, k) IN
           t \in Bus /\ t.waiters = q /\ t.wakes = k /\ t.got = b.got /\ t.holders = h /\ t.depth = d
  BY <1>1, <1>2 DEF Bus, Queues, Wakes
<1> QED BY <1>3 DEF h, d

(* releaseOne, field by field.                                             *)
LEMMA ReleaseFields ==
    ASSUME NEW b \in Bus, NEW cs \in SUBSET Class
    PROVE  LET t == releaseAll(b, cs) IN
           /\ t \in Bus /\ t.waiters = popped(b, cs) /\ t.got = b.got
           /\ t.holders = [c \in Class |-> IF c \in cs THEN None ELSE b.holders[c]]
           /\ t.wakes = b.wakes \cup {<<c, Head(b.waiters[c])>> : c \in {x \in cs : b.waiters[x] # <<>>}}
<1> DEFINE waited == {c \in cs : b.waiters[c] # <<>>}
           woken == b.wakes \cup {<<c, Head(b.waiters[c])>> : c \in waited}
<1>1. releaseAll(b, cs) = released(b, cs, popped(b, cs), woken)
  <2>1. [c \in Class |-> IF c \in waited THEN Tail(b.waiters[c]) ELSE b.waiters[c]] = popped(b, cs)
    BY DEF popped
  <2> QED BY <2>1 DEF releaseAll
<1>2. woken \in Wakes
  <2>1. ASSUME NEW c \in waited PROVE <<c, Head(b.waiters[c])>> \in Class \X Runs
    <3>1. b.waiters[c] \in Seq(Runs) /\ b.waiters[c] # <<>>
      BY BusFields
    <3> QED BY <3>1
  <2> QED BY <2>1, BusFields DEF Wakes
<1> HIDE DEF woken
<1>3. LET t == releaseAll(b, cs) IN
           /\ t \in Bus /\ t.waiters = popped(b, cs) /\ t.got = b.got
           /\ t.holders = [c \in Class |-> IF c \in cs THEN None ELSE b.holders[c]]
           /\ t.wakes = woken
  <2>1. popped(b, cs) \in Queues
    BY PoppedType
  <2>2. LET t == released(b, cs, popped(b, cs), woken) IN
           /\ t \in Bus /\ t.waiters = popped(b, cs) /\ t.got = b.got
           /\ t.holders = [c \in Class |-> IF c \in cs THEN None ELSE b.holders[c]]
           /\ t.wakes = woken
    <3>1. PICK q \in Queues, k \in Wakes : q = popped(b, cs) /\ k = woken
      BY <1>2, <2>1
    <3>2. LET t == released(b, cs, q, k) IN
           /\ t \in Bus /\ t.waiters = q /\ t.wakes = k /\ t.got = b.got
           /\ t.holders = [c \in Class |-> IF c \in cs THEN None ELSE b.holders[c]]
           /\ t.depth = [c \in Class |-> IF c \in cs THEN 0 ELSE b.depth[c]]
      BY ReleasedFields
    <3> QED BY <3>1, <3>2
  <2> QED BY <1>1, <2>2
<1> QED BY <1>3 DEF woken

(* forceReleaseResource, field by field.                                   *)
LEMMA ForceFields ==
    ASSUME NEW b \in Bus, NEW cs \in SUBSET Class
    PROVE  LET t == forceRelease(b, cs)
               waited == {x \in cs : b.waiters[x] # <<>>} IN
           /\ t \in Bus /\ t.waiters = popped(b, cs) /\ t.wakes = b.wakes
           /\ t.holders = [c \in Class |-> IF c \in waited THEN Head(b.waiters[c])
                                           ELSE IF c \in cs THEN None ELSE b.holders[c]]
           /\ t.got = [o \in Runs |-> b.got[o] \cup {c \in waited : Head(b.waiters[c]) = o}]
<1> DEFINE waited == {c \in cs : b.waiters[c] # <<>>}
           r == released(b, cs, popped(b, cs), b.wakes)
           h == [c \in Class |-> IF c \in waited THEN Head(b.waiters[c]) ELSE r.holders[c]]
           d == [c \in Class |-> IF c \in waited THEN 1 ELSE r.depth[c]]
           g == [o \in Runs |-> r.got[o] \cup {c \in waited : Head(b.waiters[c]) = o}]
<1>1. /\ r \in Bus /\ r.waiters = popped(b, cs) /\ r.wakes = b.wakes /\ r.got = b.got
      /\ r.holders = [c \in Class |-> IF c \in cs THEN None ELSE b.holders[c]]
      /\ r.depth = [c \in Class |-> IF c \in cs THEN 0 ELSE b.depth[c]]
  <2>1. popped(b, cs) \in Queues /\ b.wakes \in Wakes
    BY PoppedType, BusFields DEF Wakes
  <2> QED BY <2>1, ReleasedFields
<1>2. forceRelease(b, cs) = [r EXCEPT !.holders = h, !.depth = d, !.got = g]
  <2>1. [c \in Class |-> IF c \in waited THEN Tail(b.waiters[c]) ELSE b.waiters[c]] = popped(b, cs)
    BY DEF popped
  <2>2. forceRelease(b, cs) =
          [r EXCEPT !.holders = [c \in Class |-> IF c \in waited THEN Head(b.waiters[c]) ELSE @[c]],
                    !.depth   = [c \in Class |-> IF c \in waited THEN 1 ELSE @[c]],
                    !.got     = [o \in Runs |-> @[o] \cup {c \in waited : Head(b.waiters[c]) = o}]]
    BY <2>1 DEF forceRelease
  <2> HIDE DEF r
  <2> QED BY <1>1, <2>2 DEF Bus
<1>3. h \in [Class -> Runs \cup {None}] /\ d \in [Class -> Int] /\ g \in [Runs -> SUBSET Class]
  <2>1. \A c \in waited : Head(b.waiters[c]) \in Runs
    <3> SUFFICES ASSUME NEW c \in waited PROVE Head(b.waiters[c]) \in Runs
      OBVIOUS
    <3>1. b.waiters[c] \in Seq(Runs) /\ b.waiters[c] # <<>>
      BY BusFields
    <3> QED BY <3>1
  <2>2. r.holders \in [Class -> Runs \cup {None}] /\ r.depth \in [Class -> Int]
        /\ r.got \in [Runs -> SUBSET Class]
    <3> HIDE DEF r
    <3> QED BY <1>1, BusFields
  <2> HIDE DEF r
  <2> QED BY <2>1, <2>2
<1> HIDE DEF h, d, g, r
<1>4. LET t == forceRelease(b, cs) IN
       t \in Bus /\ t.waiters = popped(b, cs) /\ t.wakes = b.wakes /\ t.holders = h /\ t.got = g
  BY <1>1, <1>2, <1>3 DEF Bus
<1>5. h = [c \in Class |-> IF c \in waited THEN Head(b.waiters[c])
                           ELSE IF c \in cs THEN None ELSE b.holders[c]]
  BY <1>1 DEF h
<1>6. g = [o \in Runs |-> b.got[o] \cup {c \in waited : Head(b.waiters[c]) = o}]
  BY <1>1 DEF g
<1> QED BY <1>4, <1>5, <1>6

Ctx(r, n, cl) ==
    r \in [Runs -> RunState] /\ n \subseteq Runs /\ cl \in [Runs -> SUBSET Class]

(* The head of a queue that is not empty, and the rest of it.              *)
LEMMA HeadTail ==
    ASSUME NEW q \in Seq(Runs), q # <<>>
    PROVE  /\ 1 \in DOMAIN q /\ Head(q) = q[1] /\ Head(q) \in Runs
           /\ Tail(q) \in Seq(Runs)
           /\ \A i \in DOMAIN Tail(q) : i + 1 \in DOMAIN q /\ Tail(q)[i] = q[i + 1]
OBVIOUS

(* A queue that lost its head names nobody new, nobody twice, and the head *)
(* no longer.                                                              *)
LEMMA PoppedFrom ==
    ASSUME NEW b \in Bus, NEW cs, NEW c \in Class, NEW i \in DOMAIN popped(b, cs)[c]
    PROVE  \E j \in DOMAIN b.waiters[c] :
              /\ popped(b, cs)[c][i] = b.waiters[c][j]
              /\ c \in cs => j = i + 1
              /\ c \notin cs => j = i
<1>1. b.waiters[c] \in Seq(Runs)
  BY BusFields
<1>2. CASE c \in cs /\ b.waiters[c] # <<>>
  <2>1. popped(b, cs)[c] = Tail(b.waiters[c])
    BY <1>2 DEF popped
  <2>2. i + 1 \in DOMAIN b.waiters[c] /\ Tail(b.waiters[c])[i] = b.waiters[c][i + 1]
    BY <1>1, <1>2, <2>1, HeadTail
  <2> QED BY <1>2, <2>1, <2>2
<1>3. CASE c \notin cs
  <2>1. popped(b, cs)[c] = b.waiters[c]
    BY <1>3 DEF popped
  <2> QED BY <1>3, <2>1
<1>4. CASE c \in cs /\ b.waiters[c] = <<>>
  <2>1. popped(b, cs)[c] = b.waiters[c]
    BY <1>4 DEF popped
  <2>2. DOMAIN b.waiters[c] = {}
    BY <1>4
  <2> QED BY <2>1, <2>2
<1> QED BY <1>2, <1>3, <1>4

(* releaseOne keeps the bus in order, whoever calls it for whatever        *)
(* classes: the head of a queue becomes a wake-up.                         *)
LEMMA ReleaseGood ==
    ASSUME NEW b, NEW r, NEW n, NEW cl, NEW cs \in SUBSET Class,
           Ctx(r, n, cl), Good(b, r, n, cl)
    PROVE  /\ Good(releaseAll(b, cs), r, n, cl)
           /\ releaseAll(b, cs).got = b.got
           /\ \A c \in Class : releaseAll(b, cs).holders[c] = IF c \in cs THEN None ELSE b.holders[c]
<1> DEFINE t == releaseAll(b, cs)
<1>0. b \in Bus /\ Held(b, r, n, cl) /\ Queued(b, r, n, cl) /\ Nesting(b, r, n, cl)
      /\ \A c \in Class : Served(b, c)
  BY DEF Good
<1>1. t \in Bus /\ t.got = b.got /\ t.waiters = popped(b, cs)
  BY <1>0, ReleaseFields
<1>2. \A c \in Class : t.holders[c] = IF c \in cs THEN None ELSE b.holders[c]
  <2>1. t.holders = [c \in Class |-> IF c \in cs THEN None ELSE b.holders[c]]
    BY <1>0, ReleaseFields
  <2> QED BY <2>1
<1>3. \A c \in Class, o \in Runs : <<c, o>> \in t.wakes <=>
         \/ <<c, o>> \in b.wakes
         \/ c \in cs /\ b.waiters[c] # <<>> /\ o = Head(b.waiters[c])
  <2>1. t.wakes = b.wakes \cup {<<c, Head(b.waiters[c])>> : c \in {x \in cs : b.waiters[x] # <<>>}}
    BY <1>0, ReleaseFields
  <2> QED BY <2>1
<1> HIDE DEF t
<1>4. ASSUME NEW c \in Class PROVE b.waiters[c] \in Seq(Runs)
  BY <1>0, BusFields
<1>5. Held(t, r, n, cl)
  BY <1>0, <1>2 DEF Held
<1>6. Nesting(t, r, n, cl)
  BY <1>0, <1>1 DEF Nesting
<1>7. ASSUME NEW c \in Class PROVE Served(t, c)
  <2>1. CASE c \in cs
    <3>1. CASE b.waiters[c] = <<>>
      <4>1. t.waiters[c] = <<>>
        BY <1>1, <2>1, <3>1 DEF popped
      <4> QED BY <4>1 DEF Served
    <3>2. CASE b.waiters[c] # <<>>
      <4>1. Head(b.waiters[c]) \in Runs
        BY <1>4, <3>2, HeadTail
      <4>2. <<c, Head(b.waiters[c])>> \in t.wakes
        BY <1>3, <2>1, <3>2, <4>1
      <4> QED BY <4>1, <4>2 DEF Served
    <3> QED BY <3>1, <3>2
  <2>2. CASE c \notin cs
    <3>1. t.waiters[c] = b.waiters[c] /\ t.holders[c] = b.holders[c]
      BY <1>1, <1>2, <2>2 DEF popped
    <3> QED BY <1>0, <1>3, <3>1 DEF Served
  <2> QED BY <2>1, <2>2
<1>8. Queued(t, r, n, cl)
  <2>1. ASSUME NEW c \in Class, NEW o \in Runs, <<c, o>> \in t.wakes
        PROVE  Waiter(t, r, n, cl, c, o)
    <3>1. CASE <<c, o>> \in b.wakes
      BY <1>0, <1>1, <3>1 DEF Queued, Waiter
    <3>2. CASE c \in cs /\ b.waiters[c] # <<>> /\ o = Head(b.waiters[c])
      <4>1. 1 \in DOMAIN b.waiters[c] /\ o = b.waiters[c][1]
        BY <1>4, <3>2, HeadTail
      <4> QED BY <1>0, <1>1, <4>1 DEF Queued, Waiter
    <3> QED BY <1>3, <2>1, <3>1, <3>2
  <2>2. ASSUME NEW c \in Class, NEW i \in DOMAIN t.waiters[c]
        PROVE  /\ Waiter(t, r, n, cl, c, t.waiters[c][i])
               /\ <<c, t.waiters[c][i]>> \notin t.wakes
               /\ \A j \in DOMAIN t.waiters[c] : t.waiters[c][i] = t.waiters[c][j] => i = j
    <3>1. PICK k \in DOMAIN b.waiters[c] :
             /\ t.waiters[c][i] = b.waiters[c][k]
             /\ c \in cs => k = i + 1
             /\ c \notin cs => k = i
      BY <1>0, <1>1, PoppedFrom
    <3>2. Waiter(t, r, n, cl, c, t.waiters[c][i])
      <4>1. Waiter(b, r, n, cl, c, b.waiters[c][k])
        BY <1>0 DEF Queued
      <4> QED BY <1>1, <3>1, <4>1 DEF Waiter
    <3>3. i \in Nat /\ i >= 1
      <4>1. t.waiters[c] \in Seq(Runs)
        BY <1>1, BusFields
      <4> QED BY <4>1
    <3>4. <<c, t.waiters[c][i]>> \notin t.wakes
      <4>1. <<c, b.waiters[c][k]>> \notin b.wakes
        BY <1>0 DEF Queued
      <4>2. b.waiters[c][k] \in Runs
        BY <1>0, BusFields
      <4>3. ~(c \in cs /\ b.waiters[c] # <<>> /\ b.waiters[c][k] = Head(b.waiters[c]))
        <5> SUFFICES ASSUME c \in cs, b.waiters[c] # <<>>, b.waiters[c][k] = Head(b.waiters[c])
                     PROVE  FALSE
          OBVIOUS
        <5>1. 1 \in DOMAIN b.waiters[c] /\ b.waiters[c][k] = b.waiters[c][1]
          BY <1>4, HeadTail
        <5>2. k = 1
          BY <1>0, <5>1 DEF Queued
        <5> QED BY <3>1, <3>3, <5>2
      <4> QED BY <1>3, <3>1, <4>1, <4>2, <4>3
    <3>5. ASSUME NEW j \in DOMAIN t.waiters[c], t.waiters[c][i] = t.waiters[c][j]
          PROVE  i = j
      <4>1. PICK m \in DOMAIN b.waiters[c] :
             /\ t.waiters[c][j] = b.waiters[c][m]
             /\ c \in cs => m = j + 1
             /\ c \notin cs => m = j
        BY <1>0, <1>1, PoppedFrom
      <4>2. k = m
        BY <1>0, <3>1, <3>5, <4>1 DEF Queued
      <4>3. j \in Nat
        <5>1. t.waiters[c] \in Seq(Runs)
          BY <1>1, BusFields
        <5> QED BY <5>1
      <4> QED BY <3>1, <3>3, <4>1, <4>2, <4>3
    <3> QED BY <3>2, <3>4, <3>5
  <2> QED BY <2>1, <2>2 DEF Queued
<1> QED BY <1>1, <1>2, <1>5, <1>6, <1>7, <1>8 DEF Good, t

(* forceReleaseResource keeps the bus in order: the head of a queue        *)
(* becomes the holder.                                                     *)
LEMMA ForceGood ==
    ASSUME NEW b, NEW r, NEW n, NEW cl, NEW cs \in SUBSET Class,
           Ctx(r, n, cl), Good(b, r, n, cl)
    PROVE  /\ Good(forceRelease(b, cs), r, n, cl)
           /\ \A o \in Runs : r[o] # "lock" => forceRelease(b, cs).got[o] = b.got[o]
<1> DEFINE t == forceRelease(b, cs)
           waited == {x \in cs : b.waiters[x] # <<>>}
<1>0. b \in Bus /\ Held(b, r, n, cl) /\ Queued(b, r, n, cl) /\ Nesting(b, r, n, cl)
      /\ \A c \in Class : Served(b, c)
  BY DEF Good
<1>1. t \in Bus /\ t.wakes = b.wakes /\ t.waiters = popped(b, cs)
  BY <1>0, ForceFields
<1>2. \A c \in Class : t.holders[c] = IF c \in waited THEN Head(b.waiters[c])
                                      ELSE IF c \in cs THEN None ELSE b.holders[c]
  <2>1. t.holders = [c \in Class |-> IF c \in waited THEN Head(b.waiters[c])
                                     ELSE IF c \in cs THEN None ELSE b.holders[c]]
    BY <1>0, ForceFields
  <2> QED BY <2>1
<1>3. \A o \in Runs : t.got[o] = b.got[o] \cup {c \in waited : Head(b.waiters[c]) = o}
  <2>1. t.got = [o \in Runs |-> b.got[o] \cup {c \in waited : Head(b.waiters[c]) = o}]
    BY <1>0, ForceFields
  <2> QED BY <2>1
<1> HIDE DEF t
<1>4. ASSUME NEW c \in Class PROVE b.waiters[c] \in Seq(Runs)
  BY <1>0, BusFields
<1>5. ASSUME NEW c \in waited
      PROVE  /\ c \in Class /\ 1 \in DOMAIN b.waiters[c] /\ Head(b.waiters[c]) = b.waiters[c][1]
             /\ Head(b.waiters[c]) \in Runs /\ Waiter(b, r, n, cl, c, Head(b.waiters[c]))
  <2>1. c \in Class /\ 1 \in DOMAIN b.waiters[c] /\ Head(b.waiters[c]) = b.waiters[c][1]
        /\ Head(b.waiters[c]) \in Runs
    BY <1>4, HeadTail
  <2> QED BY <1>0, <2>1 DEF Queued
<1>6. Held(t, r, n, cl)
  <2> SUFFICES ASSUME NEW c \in Class, t.holders[c] # None
               PROVE  /\ r[t.holders[c]] \in {"lock", "run"}
                      /\ t.holders[c] \notin n /\ c \in cl[t.holders[c]]
    BY DEF Held
  <2>1. CASE c \in waited
    BY <1>2, <1>5, <2>1 DEF Waiter
  <2>2. CASE c \notin waited
    BY <1>0, <1>2, <2>2 DEF Held
  <2> QED BY <2>1, <2>2
<1>7. Nesting(t, r, n, cl)
  BY <1>0, <1>3 DEF Nesting, Ctx
<1>8. ASSUME NEW c \in Class PROVE Served(t, c)
  <2>1. CASE c \in waited
    <3>1. t.holders[c] \in Runs
      BY <1>2, <1>5, <2>1
    <3> QED BY <3>1, Consts DEF Served
  <2>2. CASE c \in cs /\ c \notin waited
    <3>1. t.waiters[c] = <<>>
      BY <1>1, <2>2 DEF popped
    <3> QED BY <3>1 DEF Served
  <2>3. CASE c \notin cs
    <3>1. t.waiters[c] = b.waiters[c] /\ t.holders[c] = b.holders[c]
      BY <1>1, <1>2, <2>3 DEF popped
    <3> QED BY <1>0, <1>1, <3>1 DEF Served
  <2> QED BY <2>1, <2>2, <2>3
<1>9. Queued(t, r, n, cl)
  <2>1. ASSUME NEW c \in Class, NEW o \in Runs, <<c, o>> \in t.wakes
        PROVE  Waiter(t, r, n, cl, c, o)
    <3>1. <<c, o>> \in b.wakes /\ Waiter(b, r, n, cl, c, o)
      BY <1>0, <1>1, <2>1 DEF Queued
    <3>2. c \notin t.got[o]
      <4>1. CASE c \in waited
        <5>1. <<c, Head(b.waiters[c])>> \notin b.wakes
          BY <1>0, <1>5, <4>1 DEF Queued
        <5> QED BY <1>3, <3>1, <5>1 DEF Waiter
      <4>2. CASE c \notin waited
        BY <1>3, <3>1, <4>2 DEF Waiter
      <4> QED BY <4>1, <4>2
    <3> QED BY <3>1, <3>2 DEF Waiter
  <2>2. ASSUME NEW c \in Class, NEW i \in DOMAIN t.waiters[c]
        PROVE  /\ Waiter(t, r, n, cl, c, t.waiters[c][i])
               /\ <<c, t.waiters[c][i]>> \notin t.wakes
               /\ \A j \in DOMAIN t.waiters[c] : t.waiters[c][i] = t.waiters[c][j] => i = j
    <3>1. PICK k \in DOMAIN b.waiters[c] :
             /\ t.waiters[c][i] = b.waiters[c][k]
             /\ c \in cs => k = i + 1
             /\ c \notin cs => k = i
      BY <1>0, <1>1, PoppedFrom
    <3>2. i \in Nat /\ i >= 1
      <4>1. t.waiters[c] \in Seq(Runs)
        BY <1>1, BusFields
      <4> QED BY <4>1
    <3>3. Waiter(b, r, n, cl, c, b.waiters[c][k]) /\ <<c, b.waiters[c][k]>> \notin b.wakes
          /\ b.waiters[c][k] \in Runs
      BY <1>0, BusFields DEF Queued
    <3>4. c \notin t.got[b.waiters[c][k]]
      <4>1. CASE c \in waited
        <5>1. b.waiters[c][k] # Head(b.waiters[c])
          <6> SUFFICES ASSUME b.waiters[c][k] = Head(b.waiters[c]) PROVE FALSE
            OBVIOUS
          <6>1. k = 1
            BY <1>0, <1>5, <4>1 DEF Queued
          <6> QED BY <3>1, <3>2, <4>1, <6>1
        <5> QED BY <1>3, <3>3, <5>1 DEF Waiter
      <4>2. CASE c \notin waited
        BY <1>3, <3>3, <4>2 DEF Waiter
      <4> QED BY <4>1, <4>2
    <3>5. ASSUME NEW j \in DOMAIN t.waiters[c], t.waiters[c][i] = t.waiters[c][j]
          PROVE  i = j
      <4>1. PICK m \in DOMAIN b.waiters[c] :
             /\ t.waiters[c][j] = b.waiters[c][m]
             /\ c \in cs => m = j + 1
             /\ c \notin cs => m = j
        BY <1>0, <1>1, PoppedFrom
      <4>2. k = m
        BY <1>0, <3>1, <3>5, <4>1 DEF Queued
      <4>3. j \in Nat
        <5>1. t.waiters[c] \in Seq(Runs)
          BY <1>1, BusFields
        <5> QED BY <5>1
      <4> QED BY <3>1, <3>2, <4>1, <4>2, <4>3
    <3> QED BY <1>1, <3>1, <3>3, <3>4, <3>5 DEF Waiter
  <2> QED BY <2>1, <2>2 DEF Queued
<1>10. ASSUME NEW o \in Runs, r[o] # "lock" PROVE t.got[o] = b.got[o]
  <2>1. \A c \in waited : Head(b.waiters[c]) # o
    BY <1>5, <1>10 DEF Waiter
  <2> QED BY <1>3, <2>1
<1> QED BY <1>1, <1>6, <1>7, <1>8, <1>9, <1>10 DEF Good, t

(* A run that is owed a class takes it or joins its queue.  The queue of   *)
(* that class may have been nobody's business before, as in a wake-up.     *)
LEMMA TakeGood ==
    ASSUME NEW b \in Bus, NEW r, NEW n, NEW cl, Ctx(r, n, cl), NEW c \in Class, NEW o \in Runs,
           Held(b, r, n, cl), Queued(b, r, n, cl), Nesting(b, r, n, cl),
           \A x \in Class \ {c} : Served(b, x),
           Waiter(b, r, n, cl, c, o), <<c, o>> \notin b.wakes,
           \A i \in DOMAIN b.waiters[c] : b.waiters[c][i] # o
    PROVE  Good(tryTake(b, c, o), r, n, cl)
<1> DEFINE t == tryTake(b, c, o)
<1>9. /\ t \in Bus /\ t.wakes = b.wakes
      /\ b.holders[c] = None =>
            /\ t.holders = [b.holders EXCEPT ![c] = o] /\ t.waiters = b.waiters
            /\ t.got = [b.got EXCEPT ![o] = b.got[o] \cup {c}]
      /\ b.holders[c] # None =>
            /\ t.holders = b.holders /\ t.got = b.got
            /\ t.waiters = [b.waiters EXCEPT ![c] = Append(b.waiters[c], o)]
  BY TakeFields
<1> HIDE DEF t
<1>0. /\ b.holders \in [Class -> Runs \cup {None}]
      /\ b.waiters \in [Class -> Seq(Runs)] /\ b.got \in [Runs -> SUBSET Class]
      /\ \A x \in Class : \A i \in DOMAIN b.waiters[x] : b.waiters[x][i] \in Runs
      /\ None \notin Runs
  BY BusFields, Consts
<1>1. t \in Bus /\ t.wakes = b.wakes
  BY <1>9
<1>2. CASE b.holders[c] = None
  <2>1. /\ t.holders = [b.holders EXCEPT ![c] = o] /\ t.waiters = b.waiters
        /\ t.got = [b.got EXCEPT ![o] = b.got[o] \cup {c}]
    BY <1>2, <1>9
  <2>2. Held(t, r, n, cl)
    BY <1>0, <2>1 DEF Held, Waiter
  <2>3. \A x \in Class : Served(t, x)
    BY <1>0, <1>1, <2>1 DEF Served
  <2>4. Nesting(t, r, n, cl)
    BY <1>0, <2>1 DEF Nesting, Ctx
  <2>5. Queued(t, r, n, cl)
    <3>1. ASSUME NEW x \in Class, NEW y \in Runs, <<x, y>> \in t.wakes
          PROVE  Waiter(t, r, n, cl, x, y)
      <4>1. Waiter(b, r, n, cl, x, y) /\ ~(x = c /\ y = o)
        BY <1>1, <3>1 DEF Queued
      <4>2. x \notin t.got[y]
        BY <1>0, <2>1, <4>1 DEF Waiter
      <4> QED BY <4>1, <4>2 DEF Waiter
    <3>2. ASSUME NEW x \in Class, NEW i \in DOMAIN t.waiters[x]
          PROVE  Waiter(t, r, n, cl, x, t.waiters[x][i])
      <4>1. t.waiters[x] = b.waiters[x] /\ i \in DOMAIN b.waiters[x] /\ b.waiters[x][i] \in Runs
        BY <1>0, <2>1, <3>2
      <4>2. Waiter(b, r, n, cl, x, b.waiters[x][i]) /\ ~(x = c /\ b.waiters[x][i] = o)
        BY <4>1 DEF Queued
      <4>3. x \notin t.got[b.waiters[x][i]]
        BY <1>0, <2>1, <4>1, <4>2 DEF Waiter
      <4> QED BY <4>1, <4>2, <4>3 DEF Waiter
    <3> QED BY <1>1, <2>1, <3>1, <3>2 DEF Queued
  <2> QED BY <1>1, <2>2, <2>3, <2>4, <2>5 DEF Good, t
<1>3. CASE b.holders[c] # None
  <2>1. /\ t.holders = b.holders /\ t.got = b.got
        /\ t.waiters = [b.waiters EXCEPT ![c] = Append(b.waiters[c], o)]
    BY <1>3, <1>9
  <2>2. Held(t, r, n, cl) /\ Nesting(t, r, n, cl)
    BY <2>1 DEF Held, Nesting
  <2>3. \A x \in Class : Served(t, x)
    BY <1>0, <1>1, <1>3, <2>1 DEF Served
  <2>4. Queued(t, r, n, cl)
    <3>1. ASSUME NEW x \in Class, NEW y \in Runs, <<x, y>> \in t.wakes
          PROVE  Waiter(t, r, n, cl, x, y)
      BY <1>1, <2>1, <3>1 DEF Queued, Waiter
    <3>2. ASSUME NEW x \in Class \ {c}, NEW i \in DOMAIN t.waiters[x]
          PROVE  /\ Waiter(t, r, n, cl, x, t.waiters[x][i])
                 /\ <<x, t.waiters[x][i]>> \notin t.wakes
                 /\ \A j \in DOMAIN t.waiters[x] : t.waiters[x][i] = t.waiters[x][j] => i = j
      <4>1. t.waiters[x] = b.waiters[x]
        BY <1>0, <2>1
      <4> QED BY <1>1, <2>1, <3>2, <4>1 DEF Queued, Waiter
    <3>3. ASSUME NEW i \in DOMAIN t.waiters[c]
          PROVE  /\ Waiter(t, r, n, cl, c, t.waiters[c][i])
                 /\ <<c, t.waiters[c][i]>> \notin t.wakes
                 /\ \A j \in DOMAIN t.waiters[c] : t.waiters[c][i] = t.waiters[c][j] => i = j
      <4> DEFINE q == b.waiters[c]
      <4>1. q \in Seq(Runs) /\ t.waiters[c] = Append(q, o)
        BY <1>0, <2>1
      <4>2. \A j \in DOMAIN t.waiters[c] :
              \/ j \in DOMAIN q /\ t.waiters[c][j] = q[j]
              \/ j = Len(q) + 1 /\ j \notin DOMAIN q /\ t.waiters[c][j] = o
        BY <4>1
      <4>3. \A j \in DOMAIN q : /\ Waiter(b, r, n, cl, c, q[j]) /\ <<c, q[j]>> \notin b.wakes
                                /\ q[j] # o
                                /\ \A k \in DOMAIN q : q[j] = q[k] => j = k
        BY DEF Queued
      <4> HIDE DEF q
      <4>4. Waiter(t, r, n, cl, c, t.waiters[c][i]) /\ <<c, t.waiters[c][i]>> \notin t.wakes
        BY <1>1, <2>1, <3>3, <4>2, <4>3 DEF Waiter
      <4>5. \A j \in DOMAIN t.waiters[c] : t.waiters[c][i] = t.waiters[c][j] => i = j
        BY <3>3, <4>2, <4>3
      <4> QED BY <4>4, <4>5
    <3> QED BY <3>1, <3>2, <3>3 DEF Queued
  <2> QED BY <1>1, <2>2, <2>3, <2>4 DEF Good, t
<1> QED BY <1>2, <1>3

(* The bus is about the runs that are taking or holding locks, and no      *)
(* others.                                                                 *)
LEMMA FrameGood ==
    ASSUME NEW b, NEW r, NEW n, NEW cl, NEW r2, NEW cl2,
           Ctx(r, n, cl), Good(b, r, n, cl),
           \A o \in Runs : r[o] \in {"lock", "run"} => r2[o] = r[o] /\ cl2[o] = cl[o]
    PROVE  Good(b, r2, n, cl2)
<1>0. b \in Bus /\ Held(b, r, n, cl) /\ Queued(b, r, n, cl) /\ Nesting(b, r, n, cl)
      /\ \A c \in Class : Served(b, c)
  BY DEF Good
<1>1. b.holders \in [Class -> Runs \cup {None}]
      /\ \A x \in Class : \A i \in DOMAIN b.waiters[x] : b.waiters[x][i] \in Runs
  BY <1>0, BusFields
<1>2. Held(b, r2, n, cl2)
  BY <1>0, <1>1 DEF Held
<1>3. Nesting(b, r2, n, cl2)
  BY <1>0 DEF Nesting, Ctx
<1>4. ASSUME NEW c \in Class, NEW o \in Runs, Waiter(b, r, n, cl, c, o)
      PROVE  Waiter(b, r2, n, cl2, c, o)
  BY <1>4 DEF Waiter
<1>5. Queued(b, r2, n, cl2)
  BY <1>0, <1>1, <1>4 DEF Queued
<1> QED BY <1>0, <1>2, <1>3, <1>5 DEF Good

(* A run that has all its classes may start.                               *)
LEMMA RunGood ==
    ASSUME NEW b, NEW r, NEW n, NEW cl, Ctx(r, n, cl), Good(b, r, n, cl),
           NEW o \in Runs, r[o] = "lock", cl[o] \subseteq b.got[o]
    PROVE  Good(b, [r EXCEPT ![o] = "run"], n, cl)
<1> DEFINE r2 == [r EXCEPT ![o] = "run"]
<1>0. b \in Bus /\ Held(b, r, n, cl) /\ Queued(b, r, n, cl) /\ Nesting(b, r, n, cl)
      /\ \A c \in Class : Served(b, c)
  BY DEF Good
<1>1. b.holders \in [Class -> Runs \cup {None}]
      /\ \A x \in Class : \A i \in DOMAIN b.waiters[x] : b.waiters[x][i] \in Runs
  BY <1>0, BusFields
<1>2. \A x \in Runs : r2[x] = IF x = o THEN "run" ELSE r[x]
  BY DEF Ctx
<1> HIDE DEF r2
<1>3. Held(b, r2, n, cl)
  BY <1>0, <1>1, <1>2 DEF Held
<1>4. Nesting(b, r2, n, cl)
  BY <1>0, <1>2 DEF Nesting, Ctx
<1>5. ASSUME NEW c \in Class, NEW x \in Runs, Waiter(b, r, n, cl, c, x)
      PROVE  Waiter(b, r2, n, cl, c, x)
  BY <1>2, <1>5 DEF Waiter
<1>6. Queued(b, r2, n, cl)
  BY <1>0, <1>1, <1>5 DEF Queued
<1> QED BY <1>0, <1>3, <1>4, <1>6 DEF Good, r2

(* A run that holds nothing any more may end.                              *)
LEMMA DropGood ==
    ASSUME NEW b, NEW r, NEW n, NEW cl, Ctx(r, n, cl), Good(b, r, n, cl), NEW o \in Runs,
           \A c \in Class : b.holders[c] # o,
           r[o] # "lock" \/ cl[o] \subseteq b.got[o]
    PROVE  Good([b EXCEPT !.got[o] = {}], [r EXCEPT ![o] = "done"], n \ {o}, cl)
<1> DEFINE r2 == [r EXCEPT ![o] = "done"]
           t == [b EXCEPT !.got[o] = {}]
<1>0. b \in Bus /\ Held(b, r, n, cl) /\ Queued(b, r, n, cl) /\ Nesting(b, r, n, cl)
      /\ \A c \in Class : Served(b, c)
  BY DEF Good
<1>1. b.holders \in [Class -> Runs \cup {None}] /\ b.got \in [Runs -> SUBSET Class]
      /\ \A x \in Class : \A i \in DOMAIN b.waiters[x] : b.waiters[x][i] \in Runs
  BY <1>0, BusFields
<1>2. t \in Bus /\ t.holders = b.holders /\ t.waiters = b.waiters /\ t.wakes = b.wakes
      /\ t.got = [b.got EXCEPT ![o] = {}]
  BY <1>0, <1>1 DEF Bus
<1>3. \A x \in Runs : r2[x] = IF x = o THEN "done" ELSE r[x]
  BY DEF Ctx
<1> HIDE DEF r2, t
<1>4. Held(t, r2, n \ {o}, cl)
  BY <1>0, <1>1, <1>2, <1>3 DEF Held
<1>5. Nesting(t, r2, n \ {o}, cl)
  BY <1>0, <1>1, <1>2, <1>3 DEF Nesting, Ctx
<1>6. ASSUME NEW c \in Class, NEW x \in Runs, Waiter(b, r, n, cl, c, x)
      PROVE  Waiter(t, r2, n \ {o}, cl, c, x)
  <2>1. x # o
    BY <1>6 DEF Waiter
  <2> QED BY <1>1, <1>2, <1>3, <1>6, <2>1 DEF Waiter
<1>7. Queued(t, r2, n \ {o}, cl)
  BY <1>0, <1>1, <1>2, <1>6 DEF Queued
<1>8. \A c \in Class : Served(t, c)
  BY <1>0, <1>2 DEF Served
<1> QED BY <1>2, <1>4, <1>5, <1>7, <1>8 DEF Good, r2, t

(* The depth counters are not part of the order of the bus.                *)
LEMMA DepthGood ==
    ASSUME NEW b, NEW r, NEW n, NEW cl, Good(b, r, n, cl), NEW d \in [Class -> Int]
    PROVE  Good([b EXCEPT !.depth = d], r, n, cl)
<1> DEFINE t == [b EXCEPT !.depth = d]
<1>0. b \in Bus /\ Held(b, r, n, cl) /\ Queued(b, r, n, cl) /\ Nesting(b, r, n, cl)
      /\ \A c \in Class : Served(b, c)
  BY DEF Good
<1>1. t \in Bus /\ t.holders = b.holders /\ t.waiters = b.waiters /\ t.wakes = b.wakes
      /\ t.got = b.got
  BY <1>0 DEF Bus
<1> HIDE DEF t
<1>2. Held(t, r, n, cl) /\ Queued(t, r, n, cl) /\ Nesting(t, r, n, cl)
      /\ \A c \in Class : Served(t, c)
  BY <1>0, <1>1 DEF Held, Queued, Nesting, Served, Waiter
<1> QED BY <1>1, <1>2 DEF Good, t

(* The re-entrant path of withResourceLocks.                               *)
LEMMA NestGood ==
    ASSUME NEW b, NEW r, NEW n, NEW cl, Ctx(r, n, cl), Good(b, r, n, cl), NEW o \in Runs,
           r[o] = "load", NEW d \in [Class -> Int]
    PROVE  Good([b EXCEPT !.depth = d, !.got[o] = cl[o]], [r EXCEPT ![o] = "lock"], n \cup {o}, cl)
<1> DEFINE r2 == [r EXCEPT ![o] = "lock"]
           t == [b EXCEPT !.depth = d, !.got[o] = cl[o]]
<1>0. b \in Bus /\ Held(b, r, n, cl) /\ Queued(b, r, n, cl) /\ Nesting(b, r, n, cl)
      /\ \A c \in Class : Served(b, c)
  BY DEF Good
<1>1. b.holders \in [Class -> Runs \cup {None}] /\ b.got \in [Runs -> SUBSET Class]
      /\ \A x \in Class : \A i \in DOMAIN b.waiters[x] : b.waiters[x][i] \in Runs
  BY <1>0, BusFields
<1>2. t \in Bus /\ t.holders = b.holders /\ t.waiters = b.waiters /\ t.wakes = b.wakes
      /\ t.got = [b.got EXCEPT ![o] = cl[o]]
  <2>1. cl[o] \in SUBSET Class
    BY DEF Ctx
  <2>2. [b.got EXCEPT ![o] = cl[o]] \in [Runs -> SUBSET Class]
    BY <1>1, <2>1
  <2>3. t = [b EXCEPT !.depth = d, !.got = [b.got EXCEPT ![o] = cl[o]]]
    BY <1>0 DEF Bus
  <2> HIDE DEF t
  <2> QED BY <1>0, <2>2, <2>3 DEF Bus
<1>3. \A x \in Runs : r2[x] = IF x = o THEN "lock" ELSE r[x]
  BY DEF Ctx
<1> HIDE DEF r2, t
<1>4. Held(t, r2, n \cup {o}, cl)
  BY <1>0, <1>1, <1>2, <1>3 DEF Held
<1>5. Nesting(t, r2, n \cup {o}, cl)
  BY <1>0, <1>1, <1>2, <1>3 DEF Nesting, Ctx
<1>6. ASSUME NEW c \in Class, NEW x \in Runs, Waiter(b, r, n, cl, c, x)
      PROVE  Waiter(t, r2, n \cup {o}, cl, c, x)
  <2>1. x # o
    BY <1>6 DEF Waiter
  <2> QED BY <1>1, <1>2, <1>3, <1>6, <2>1 DEF Waiter
<1>7. Queued(t, r2, n \cup {o}, cl)
  BY <1>0, <1>1, <1>2, <1>6 DEF Queued
<1>8. \A c \in Class : Served(t, c)
  BY <1>0, <1>2 DEF Served
<1> QED BY <1>2, <1>4, <1>5, <1>7, <1>8 DEF Good, r2, t

-----------------------------------------------------------------------------
(* The classes of every run, as its wave sees them.                        *)
cls == [o \in Runs |-> classesForPack(o[1], o[2])]

(* A wave: its list names each pack once, what the pump has not reached is *)
(* still listed, and a wave that was not kicked has no runs.               *)
WaveOK(v, r, w) ==
    /\ v \in Wave /\ v.next \in 1 .. Len(v.list) + 1
    /\ \A i, j \in DOMAIN v.list : v.list[i] = v.list[j] => i = j
    /\ \A i \in DOMAIN v.list : i >= v.next => r[<<w, v.list[i]>>] = "listed"
    /\ v.list = <<>> => \A p \in Packs : r[<<w, p>>] = "none"

(* The variables on their own.                                             *)
Plain ==
    /\ wave \in [Waves -> Wave]
    /\ run \in [Runs -> RunState] /\ nested \subseteq Runs
    /\ kicked \subseteq Packs
    /\ b10Acked \in BOOLEAN /\ halted \in BOOLEAN /\ events \in 0 .. MaxEvents
    /\ pumping \in Waves \cup {None}

(* The inductive invariant.                                                *)
IInv ==
    /\ Plain
    /\ \A w \in Waves : WaveOK(wave[w], run, w)
    /\ Good(bus, run, nested, cls)

LEMMA IInvType == IInv => TypeOK
BY DEF IInv, Plain, WaveOK, Good, TypeOK

LEMMA ClsType ==
    ASSUME Plain
    PROVE  Ctx(run, nested, cls) /\ \A o \in Runs : cls[o] = classesForPack(o[1], o[2])
<1>1. ASSUME NEW o \in Runs PROVE classesForPack(o[1], o[2]) \in SUBSET Class
  <2>1. o[2] \in Packs
    BY DEF Runs
  <2>2. resourceClasses[o[2]] \in SUBSET Class /\ {Gpu} \in SUBSET Class
    BY <2>1, Consts
  <2> QED BY <2>2 DEF classesForPack
<1> QED BY <1>1 DEF Ctx, cls, Plain

(* Only a change of mode of its wave changes the classes of a run.         *)
LEMMA ClsSame ==
    ASSUME NEW o \in Runs, wave'[o[1]].serial = wave[o[1]].serial
    PROVE  cls'[o] = cls[o]
BY DEF cls, classesForPack

(* Steps of one run: the waves stand still.                                *)
LEMMA RunSteps ==
    ASSUME IInv, UNCHANGED wave, Plain', Good(bus', run', nested', cls),
           \A o \in Runs : run[o] \in {"none", "listed"} => run'[o] = run[o]
    PROVE  IInv'
<1>1. cls' = cls
  BY DEF cls, classesForPack
<1>2. Good(bus, run, nested, cls)'
  BY <1>1
<1>3. ASSUME NEW w \in Waves PROVE WaveOK(wave[w], run, w)'
  <2>1. WaveOK(wave[w], run, w) /\ wave'[w] = wave[w]
    BY DEF IInv
  <2>2. \A p \in Packs : <<w, p>> \in Runs
    BY DEF Runs
  <2>3. wave[w].list \in Seq(Packs)
    BY <2>1 DEF WaveOK, Wave
  <2>4. \A i \in DOMAIN wave[w].list : wave[w].list[i] \in Packs
    BY <2>3
  <2> QED BY <2>1, <2>2, <2>4 DEF WaveOK
<1> QED BY <1>2, <1>3 DEF IInv

(* The end of a run, from whichever bus its caller leaves: what the run    *)
(* holds is released, or it was re-entrant and holds nothing.              *)
LEMMA FinishStep ==
    ASSUME IInv, NEW o \in Runs, run[o] \in {"lock", "run"}, NEW b, Good(b, run, nested, cls),
           run[o] = "lock" => cls[o] \subseteq b.got[o],
           finish(o, b), kicked' \subseteq Packs
    PROVE  IInv'
<1>0. Plain /\ Ctx(run, nested, cls) /\ cls[o] = classesForPack(o[1], o[2])
  BY ClsType DEF IInv
<1>1. /\ run' = [run EXCEPT ![o] = "done"] /\ nested' = nested \ {o}
      /\ UNCHANGED <<wave, b10Acked, halted, events>> /\ bus' = afterRun(b, o)
      /\ pumping' \in {None, o[1]}
  BY DEF finish, env
<1>2. o[1] \in Waves
  BY DEF Runs
<1>3. Plain'
  BY <1>0, <1>1, <1>2 DEF Plain, RunState
<1>4. cls[o] \in SUBSET Class
  BY <1>0 DEF Ctx
<1>5. Good(bus', run', nested', cls)
  <2>1. CASE o \in nested
    <3> DEFINE d == [c \in Class |-> IF c \in cls[o] THEN b.depth[c] - 1 ELSE b.depth[c]]
               l == [b EXCEPT !.depth = d]
    <3>1. b \in Bus /\ Held(b, run, nested, cls)
      BY DEF Good
    <3>2. b.depth \in [Class -> Int]
      BY <3>1, BusFields
    <3>3. d \in [Class -> Int]
      BY <3>2
    <3>4. afterRun(b, o) = [l EXCEPT !.got[o] = {}]
      BY <1>0, <2>1, <3>1 DEF afterRun, Bus
    <3> HIDE DEF d
    <3>5. Good(l, run, nested, cls)
      BY <3>3, DepthGood
    <3>6. l.holders = b.holders /\ l.got = b.got
      BY <3>1 DEF Bus
    <3> HIDE DEF l
    <3>7. \A c \in Class : l.holders[c] # o
      BY <2>1, <3>1, <3>6, Consts DEF Held
    <3>8. run[o] # "lock" \/ cls[o] \subseteq l.got[o]
      BY <3>6
    <3>9. Good([l EXCEPT !.got[o] = {}], [run EXCEPT ![o] = "done"], nested \ {o}, cls)
      BY <1>0, <3>5, <3>7, <3>8, DropGood
    <3> QED BY <1>1, <3>4, <3>9
  <2>2. CASE o \notin nested
    <3> DEFINE l == releaseAll(b, cls[o])
    <3>1. afterRun(b, o) = [l EXCEPT !.got[o] = {}]
      BY <1>0, <2>2 DEF afterRun
    <3>2. Good(l, run, nested, cls) /\ l.got = b.got
          /\ \A c \in Class : l.holders[c] = IF c \in cls[o] THEN None ELSE b.holders[c]
      BY <1>0, <1>4, ReleaseGood
    <3>3. Held(b, run, nested, cls)
      BY DEF Good
    <3> HIDE DEF l
    <3>4. \A c \in Class : l.holders[c] # o
      BY <3>2, <3>3, Consts DEF Held
    <3>5. run[o] # "lock" \/ cls[o] \subseteq l.got[o]
      BY <3>2
    <3>6. Good([l EXCEPT !.got[o] = {}], [run EXCEPT ![o] = "done"], nested \ {o}, cls)
      BY <1>0, <3>2, <3>4, <3>5, DropGood
    <3> QED BY <1>1, <3>1, <3>6
  <2> QED BY <2>1, <2>2
<1>6. \A x \in Runs : run'[x] = IF x = o THEN "done" ELSE run[x]
  BY <1>0, <1>1 DEF Plain
<1> QED BY <1>1, <1>3, <1>5, <1>6, RunSteps

LEMMA WithLocksStep ==
    ASSUME IInv, NEW o \in Runs, WithResourceLocks(o)
    PROVE  IInv'
<1>0. Plain /\ Ctx(run, nested, cls) /\ cls[o] = classesForPack(o[1], o[2])
  BY ClsType DEF IInv
<1>1. /\ run[o] = "load" /\ run' = [run EXCEPT ![o] = "lock"]
      /\ UNCHANGED <<wave, kicked, pumping, b10Acked, halted, events>>
  BY DEF WithResourceLocks, env
<1>2. nested' \in {nested, nested \cup {o}}
  BY DEF WithResourceLocks
<1>3. Plain'
  BY <1>0, <1>1, <1>2 DEF Plain, RunState
<1>4. \A x \in Runs : run'[x] = IF x = o THEN "lock" ELSE run[x]
  BY <1>0, <1>1 DEF Plain
<1>5. Good(bus, run, nested, cls) /\ bus \in Bus
  BY DEF IInv, Good
<1>6. Good(bus', run', nested', cls)
  <2>1. CASE UNCHANGED <<bus, nested>>
    <3>1. \A x \in Runs : run[x] \in {"lock", "run"} => run'[x] = run[x] /\ cls[x] = cls[x]
      BY <1>1, <1>4
    <3>2. Good(bus, run', nested, cls)
      BY <1>0, <1>5, <3>1, FrameGood
    <3> QED BY <2>1, <3>2
  <2>2. CASE ~ UNCHANGED <<bus, nested>>
    <3> DEFINE d == [c \in Class |-> IF c \in cls[o] THEN bus.depth[c] + 1 ELSE bus.depth[c]]
    <3>1. bus' = [bus EXCEPT !.depth = d, !.got[o] = cls[o]] /\ nested' = nested \cup {o}
      BY <1>0, <1>5, <2>2 DEF WithResourceLocks, Bus
    <3>2. bus.depth \in [Class -> Int]
      BY <1>5, BusFields
    <3>3. d \in [Class -> Int]
      BY <3>2
    <3> HIDE DEF d
    <3>4. Good([bus EXCEPT !.depth = d, !.got[o] = cls[o]], [run EXCEPT ![o] = "lock"],
               nested \cup {o}, cls)
      BY <1>0, <1>1, <1>5, <3>3, NestGood
    <3> QED BY <1>1, <3>1, <3>4
  <2> QED BY <2>1, <2>2
<1> QED BY <1>1, <1>3, <1>4, <1>6, RunSteps

(* Steps that change the bus alone.                                        *)
LEMMA BusStep ==
    ASSUME IInv, Good(bus', run, nested, cls),
           UNCHANGED <<wave, run, nested, kicked, pumping, b10Acked, halted>>,
           events' \in 0 .. MaxEvents
    PROVE  IInv'
<1>1. Plain /\ Plain'
  BY DEF IInv, Plain
<1>2. Good(bus', run', nested', cls)
  OBVIOUS
<1> QED BY <1>1, <1>2, RunSteps

LEMMA AcquireStep ==
    ASSUME IInv, NEW o \in Runs, AcquireOne(o)
    PROVE  IInv'
<1>0. Plain /\ Ctx(run, nested, cls) /\ cls[o] = classesForPack(o[1], o[2])
  BY ClsType DEF IInv
<1>1. /\ run[o] = "lock" /\ ~waiting(o) /\ UNCHANGED <<wave, run, nested, kicked, pumping, env>>
      /\ \E i \in DOMAIN Classes : Classes[i] \in missing(o) /\ bus' = tryTake(bus, Classes[i], o)
  BY DEF AcquireOne
<1>2. PICK i \in DOMAIN Classes : Classes[i] \in missing(o) /\ bus' = tryTake(bus, Classes[i], o)
  BY <1>1
<1> DEFINE c == Classes[i]
<1>3. c \in Class
  BY Consts
<1>4. c \in cls[o] /\ c \notin bus.got[o]
  BY <1>0, <1>2 DEF missing
<1>5. <<c, o>> \notin bus.wakes /\ \A k \in DOMAIN bus.waiters[c] : bus.waiters[c][k] # o
  BY <1>1, <1>3 DEF waiting
<1>6. /\ bus \in Bus /\ Held(bus, run, nested, cls) /\ Queued(bus, run, nested, cls)
      /\ Nesting(bus, run, nested, cls) /\ \A x \in Class : Served(bus, x)
  BY DEF IInv, Good
<1>7. o \notin nested
  BY <1>4, <1>6 DEF Nesting
<1>8. Waiter(bus, run, nested, cls, c, o)
  BY <1>1, <1>4, <1>7 DEF Waiter
<1> HIDE DEF c
<1>9. Good(tryTake(bus, c, o), run, nested, cls)
  BY <1>0, <1>3, <1>5, <1>6, <1>8, TakeGood
<1>10. Good(bus', run, nested, cls)
  BY <1>2, <1>9 DEF c
<1> QED BY <1>0, <1>1, <1>10, BusStep DEF env, Plain

LEMMA WakeStep ==
    ASSUME IInv, NEW o \in Runs, NEW c \in Class, Wake(c, o)
    PROVE  IInv'
<1>0. Plain /\ Ctx(run, nested, cls)
  BY ClsType DEF IInv
<1> DEFINE b == [bus EXCEPT !.wakes = bus.wakes \ {<<c, o>>}]
<1>1. /\ <<c, o>> \in bus.wakes /\ UNCHANGED <<wave, run, nested, kicked, pumping, env>>
  BY DEF Wake
<1>2. /\ bus \in Bus /\ Held(bus, run, nested, cls) /\ Queued(bus, run, nested, cls)
      /\ Nesting(bus, run, nested, cls) /\ \A x \in Class : Served(bus, x)
  BY DEF IInv, Good
<1>3. bus' = tryTake(b, c, o)
  BY <1>2 DEF Wake, Bus
<1>4. bus.wakes \in SUBSET (Class \X Runs)
  BY <1>2, BusFields
<1>5. /\ b \in Bus /\ b.holders = bus.holders /\ b.waiters = bus.waiters /\ b.got = bus.got
      /\ b.wakes = bus.wakes \ {<<c, o>>}
  BY <1>2, <1>4 DEF Bus
<1> HIDE DEF b
<1>6. Held(b, run, nested, cls) /\ Nesting(b, run, nested, cls)
  BY <1>2, <1>5 DEF Held, Nesting
<1>7. Queued(b, run, nested, cls)
  BY <1>2, <1>5 DEF Queued, Waiter
<1>8. \A x \in Class \ {c} : Served(b, x)
  <2> SUFFICES ASSUME NEW x \in Class, x # c, b.waiters[x] # <<>>, b.holders[x] = None
               PROVE  \E q \in Runs : <<x, q>> \in b.wakes
    BY DEF Served
  <2>1. PICK q \in Runs : <<x, q>> \in bus.wakes
    BY <1>2, <1>5 DEF Served
  <2>2. <<x, q>> # <<c, o>>
    OBVIOUS
  <2> QED BY <1>5, <2>1, <2>2
<1>9. Waiter(b, run, nested, cls, c, o)
  BY <1>1, <1>2, <1>5 DEF Queued, Waiter
<1>10. <<c, o>> \notin b.wakes
  BY <1>5
<1>11. \A i \in DOMAIN b.waiters[c] : b.waiters[c][i] # o
  BY <1>1, <1>2, <1>5 DEF Queued
<1>12. Good(tryTake(b, c, o), run, nested, cls)
  BY <1>0, <1>5, <1>6, <1>7, <1>8, <1>9, <1>10, <1>11, TakeGood
<1>13. Good(bus', run, nested, cls)
  BY <1>3, <1>12
<1> QED BY <1>0, <1>1, <1>13, BusStep DEF env, Plain

LEMMA ExecRunStep ==
    ASSUME IInv, NEW o \in Runs, ExecRun(o)
    PROVE  IInv'
<1>0. Plain /\ Ctx(run, nested, cls) /\ cls[o] = classesForPack(o[1], o[2])
  BY ClsType DEF IInv
<1>1. /\ run[o] = "lock" /\ missing(o) = {}
      /\ run' = [run EXCEPT ![o] = "run"] /\ UNCHANGED <<wave, nested, bus, kicked, pumping, env>>
  BY DEF ExecRun, locked
<1>2. cls[o] \subseteq bus.got[o]
  BY <1>0, <1>1 DEF missing
<1>3. \A x \in Runs : run'[x] = IF x = o THEN "run" ELSE run[x]
  BY <1>0, <1>1 DEF Plain
<1>4. Plain'
  BY <1>0, <1>1 DEF Plain, RunState, env
<1>5. Good(bus, [run EXCEPT ![o] = "run"], nested, cls)
  BY <1>0, <1>1, <1>2, RunGood DEF IInv
<1>6. Good(bus', run', nested', cls)
  BY <1>1, <1>5
<1> QED BY <1>1, <1>3, <1>4, <1>6, RunSteps

LEMMA EndStep ==
    ASSUME IInv, NEW o \in Runs,
           ExecSkip(o) \/ CollectOk(o) \/ CollectFail(o) \/ RunTimeout(o)
    PROVE  IInv'
<1>0. Plain /\ Ctx(run, nested, cls) /\ cls[o] = classesForPack(o[1], o[2])
      /\ Good(bus, run, nested, cls) /\ o[2] \in Packs
  BY ClsType DEF IInv, Runs
<1>1. CASE ExecSkip(o)
  <2>1. run[o] = "lock" /\ missing(o) = {} /\ finish(o, bus)
    BY <1>1 DEF ExecSkip, locked
  <2>2. kicked' \subseteq Packs
    BY <1>0, <1>1 DEF ExecSkip, Plain
  <2>3. cls[o] \subseteq bus.got[o]
    BY <1>0, <2>1 DEF missing
  <2> QED BY <1>0, <2>1, <2>2, <2>3, FinishStep
<1>2. CASE CollectOk(o) \/ CollectFail(o)
  <2>1. run[o] = "run" /\ finish(o, bus)
    BY <1>2 DEF CollectOk, CollectFail
  <2>2. kicked' \subseteq Packs
    BY <1>0, <1>2 DEF CollectOk, CollectFail, Plain
  <2> QED BY <1>0, <2>1, <2>2, FinishStep
<1>3. CASE RunTimeout(o)
  <2>1. run[o] = "run" /\ finish(o, forceRelease(bus, Forced))
    BY <1>3 DEF RunTimeout
  <2>2. kicked' \subseteq Packs
    BY <1>0, <1>3 DEF RunTimeout, Plain
  <2>3. Good(forceRelease(bus, Forced), run, nested, cls)
    BY <1>0, Consts, ForceGood
  <2> QED BY <1>0, <2>1, <2>2, <2>3, FinishStep
<1> QED BY <1>1, <1>2, <1>3

LEMMA EnvStep ==
    ASSUME IInv, StallRelease \/ \E v \in BOOLEAN : SetAcked(v) \/ SetHalted(v)
    PROVE  IInv'
<1>0. Plain /\ Ctx(run, nested, cls) /\ Good(bus, run, nested, cls)
  BY ClsType DEF IInv
<1>1. CASE StallRelease
  <2>1. Good(forceRelease(bus, Forced), run, nested, cls)
    BY <1>0, Consts, ForceGood
  <2>2. Good(bus', run, nested, cls)
    BY <1>1, <2>1 DEF StallRelease
  <2>3. events' \in 0 .. MaxEvents
    BY <1>0, <1>1, Consts DEF StallRelease, Plain
  <2> QED BY <1>1, <2>2, <2>3, BusStep DEF StallRelease
<1>2. CASE \E v \in BOOLEAN : SetAcked(v) \/ SetHalted(v)
  <2>1. UNCHANGED <<wave, run, nested, bus, kicked, pumping>>
    BY <1>2 DEF SetAcked, SetHalted
  <2>2. Plain'
    <3>1. events' \in 0 .. MaxEvents
      BY <1>0, <1>2, Consts DEF SetAcked, SetHalted, Plain
    <3>2. b10Acked' \in BOOLEAN /\ halted' \in BOOLEAN
      BY <1>0, <1>2, Zenon DEF SetAcked, SetHalted, Plain
    <3> QED BY <1>0, <2>1, <3>1, <3>2 DEF Plain
  <2>3. Good(bus', run', nested', cls)
    BY <1>0, <2>1
  <2> QED BY <2>1, <2>2, <2>3, RunSteps
<1> QED BY <1>1, <1>2

-----------------------------------------------------------------------------
(* Steps of one wave: the bus stands still.  Only a wave without runs on   *)
(* the bus may change its mode, and with it the classes of its packs.      *)
LEMMA WaveStep ==
    ASSUME IInv, NEW w \in Waves, NEW v, wave' = [wave EXCEPT ![w] = v],
           UNCHANGED <<nested, bus, kicked, b10Acked, halted, events>>,
           pumping' \in Waves \cup {None}, run' \in [Runs -> RunState], WaveOK(v, run', w),
           \A o \in Runs : o[1] # w => run'[o] = run[o],
           \A o \in Runs : run[o] \in {"lock", "run"} =>
                              run'[o] = run[o] /\ (o[1] = w => v.serial = wave[w].serial),
           \A o \in Runs : run'[o] = "run" => run[o] = "run"
    PROVE  IInv'
<1>0. Plain /\ Ctx(run, nested, cls) /\ Good(bus, run, nested, cls)
  BY ClsType DEF IInv
<1>1. v \in Wave /\ wave \in [Waves -> Wave]
  BY <1>0 DEF WaveOK, Plain
<1>2. wave' \in [Waves -> Wave] /\ \A x \in Waves : wave'[x] = IF x = w THEN v ELSE wave[x]
  BY <1>1
<1>3. Plain'
  BY <1>0, <1>2 DEF Plain
<1>4. ASSUME NEW o \in Runs, run[o] \in {"lock", "run"}
      PROVE  run'[o] = run[o] /\ cls'[o] = cls[o]
  <2>1. o[1] \in Waves
    BY DEF Runs
  <2>2. wave'[o[1]].serial = wave[o[1]].serial
    BY <1>2, <1>4, <2>1
  <2> QED BY <1>4, <2>2, ClsSame
<1>5. Good(bus, run', nested, cls')
  BY <1>0, <1>4, FrameGood
<1>6. Good(bus, run, nested, cls)'
  BY <1>5
<1>7. ASSUME NEW x \in Waves PROVE WaveOK(wave[x], run, x)'
  <2>1. CASE x = w
    BY <1>2, <2>1
  <2>2. CASE x # w
    <3>1. WaveOK(wave[x], run, x) /\ wave'[x] = wave[x]
      BY <1>2, <2>2 DEF IInv
    <3>2. \A p \in Packs : run'[<<x, p>>] = run[<<x, p>>]
      <4> SUFFICES ASSUME NEW p \in Packs PROVE run'[<<x, p>>] = run[<<x, p>>]
        OBVIOUS
      <4>1. <<x, p>> \in Runs /\ <<x, p>>[1] = x
        BY DEF Runs
      <4> QED BY <2>2, <4>1
    <3>3. wave[x].list \in Seq(Packs)
      BY <3>1 DEF WaveOK, Wave
    <3>4. \A i \in DOMAIN wave[x].list : wave[x].list[i] \in Packs
      BY <3>3
    <3>5. PICK u : u = wave[x]
      OBVIOUS
    <3>6. /\ \A i \in DOMAIN u.list : i >= u.next => run'[<<x, u.list[i]>>] = "listed"
          /\ u.list = <<>> => \A p \in Packs : run'[<<x, p>>] = "none"
      BY <3>1, <3>2, <3>4, <3>5 DEF WaveOK
    <3>7. WaveOK(u, run', x)
      BY <3>1, <3>5, <3>6 DEF WaveOK
    <3> QED BY <3>1, <3>5, <3>7
  <2> QED BY <2>1, <2>2
<1> QED BY <1>3, <1>6, <1>7 DEF IInv

(* Whatever order kickAll picks, it names the packs of the caller's list,  *)
(* each once.                                                              *)
LEMMA KickOrders ==
    ASSUME NEW l \in Lists, NEW s \in kickOrders(l)
    PROVE  /\ s \in Seq(Packs) /\ Len(s) = Len(l) /\ DOMAIN s = DOMAIN l
           /\ \A i, j \in DOMAIN s : s[i] = s[j] => i = j
           /\ \A i \in DOMAIN s : \E j \in DOMAIN l : s[i] = l[j]
<1>1. l \in Seq(Packs) /\ \A i, j \in DOMAIN l : l[i] = l[j] => i = j
  BY ConstAssumption
<1>2. \E f \in [DOMAIN l -> DOMAIN l] :
         /\ s = [i \in DOMAIN l |-> l[f[i]]]
         /\ \A i, j \in DOMAIN l : i < j => f[i] # f[j]
  BY DEF kickOrders
<1>3. PICK f \in [DOMAIN l -> DOMAIN l] :
         /\ s = [i \in DOMAIN l |-> l[f[i]]]
         /\ \A i, j \in DOMAIN l : i < j => f[i] # f[j]
  BY <1>2
<1>4. DOMAIN l = 1 .. Len(l) /\ Len(l) \in Nat /\ \A i \in DOMAIN l : l[i] \in Packs
  BY <1>1
<1>5. \A i \in DOMAIN l : f[i] \in DOMAIN l /\ s[i] = l[f[i]]
  BY <1>3
<1>6. s \in [1 .. Len(l) -> Packs]
  BY <1>3, <1>4, <1>5
<1>7. s \in Seq(Packs) /\ Len(s) = Len(l)
  BY <1>4, <1>6
<1>8. DOMAIN s = DOMAIN l
  BY <1>3
<1>9. ASSUME NEW i \in DOMAIN l, NEW j \in DOMAIN l, s[i] = s[j] PROVE i = j
  <2>1. f[i] = f[j]
    BY <1>1, <1>5, <1>9
  <2>2. i \in Int /\ j \in Int
    BY <1>4
  <2> QED BY <1>3, <2>1, <2>2
<1> QED BY <1>5, <1>7, <1>8, <1>9

LEMMA KickStep ==
    ASSUME IInv, NEW w \in Waves, NEW l \in Lists, NEW s \in BOOLEAN, kickAll(w, l, s)
    PROVE  IInv'
<1>0. Plain /\ WaveOK(wave[w], run, w) /\ wave[w] = Unkicked /\ l # <<>>
  BY DEF IInv, kickAll
<1>1. PICK q \in kickOrders(l) :
        wave' = [wave EXCEPT ![w] = [Unkicked EXCEPT !.list = q, !.serial = s]]
  BY DEF kickAll
<1>2. /\ q \in Seq(Packs) /\ Len(q) = Len(l) /\ DOMAIN q = DOMAIN l
      /\ \A i, j \in DOMAIN q : q[i] = q[j] => i = j
      /\ \A i \in DOMAIN q : \E j \in DOMAIN l : q[i] = l[j]
  BY KickOrders
<1> DEFINE v == [Unkicked EXCEPT !.list = q, !.serial = s]
<1>3. v.list = q /\ v.next = 1 /\ v.serial = s /\ v.tried = {} /\ v.timer = FALSE
  BY DEF Unkicked
<1>4. v \in Wave
  BY <1>2 DEF Unkicked, Wave
<1> HIDE DEF v
<1>5. l \in Seq(Packs)
  BY ConstAssumption
<1>6. \A o \in Runs : run'[o] = IF o[1] = w /\ (\E i \in DOMAIN l : l[i] = o[2]) THEN "listed" ELSE run[o]
  BY DEF kickAll
<1>7. run' \in [Runs -> RunState]
  BY <1>0 DEF kickAll, Plain, RunState
<1>8. \A p \in Packs : run[<<w, p>>] = "none" /\ <<w, p>> \in Runs
  BY <1>0 DEF WaveOK, Unkicked, Runs
<1>9. \A o \in Runs : o[1] = w => run[o] = "none"
  BY <1>8 DEF Runs
<1>10. WaveOK(v, run', w)
  <2>1. v.next \in 1 .. Len(v.list) + 1 /\ v.list # <<>>
    BY <1>0, <1>2, <1>3, <1>5
  <2>2. ASSUME NEW i \in DOMAIN q PROVE run'[<<w, q[i]>>] = "listed"
    <3>1. q[i] \in Packs /\ \E j \in DOMAIN l : l[j] = q[i]
      BY <1>2
    <3>2. <<w, q[i]>> \in Runs /\ <<w, q[i]>>[1] = w /\ <<w, q[i]>>[2] = q[i]
      BY <3>1 DEF Runs
    <3> QED BY <1>6, <3>1, <3>2
  <2> QED BY <1>2, <1>3, <1>4, <2>1, <2>2 DEF WaveOK
<1>11. UNCHANGED <<nested, bus, kicked, b10Acked, halted, events>> /\ pumping' \in Waves \cup {None}
  BY DEF kickAll, env
<1>12. wave' = [wave EXCEPT ![w] = v]
  BY <1>1 DEF v
<1>13. \A o \in Runs : o[1] # w => run'[o] = run[o]
  BY <1>6
<1>14. \A o \in Runs : run[o] \in {"lock", "run"} =>
                              run'[o] = run[o] /\ (o[1] = w => v.serial = wave[w].serial)
  BY <1>6, <1>9
<1>15. \A o \in Runs : run'[o] = "run" => run[o] = "run"
  BY <1>6
<1> QED BY <1>7, <1>10, <1>11, <1>12, <1>13, <1>14, <1>15, WaveStep

(* A step of a wave that starts nothing: its list may be permuted beyond   *)
(* the packs already tried, its marks and its timer may change.            *)
LEMMA MarkStep ==
    ASSUME IInv, NEW w \in Waves, NEW v, wave' = [wave EXCEPT ![w] = v],
           UNCHANGED <<run, nested, bus, kicked, b10Acked, halted, events>>,
           pumping' \in Waves \cup {None}, WaveOK(v, run, w), v.serial = wave[w].serial
    PROVE  IInv'
<1>1. run' \in [Runs -> RunState] /\ WaveOK(v, run', w) /\ run' = run
  BY DEF IInv, Plain
<1> QED BY <1>1, WaveStep

(* Two packs the pump has not reached change places.                       *)
swapped(l, i, j) == [l EXCEPT ![i] = l[j], ![j] = l[i]]

(* A list of as many packs, each once, with the same packs still to come.  *)
Reordered(s, v, r, w) ==
    /\ s \in Seq(Packs) /\ Len(s) = Len(v.list)
    /\ \A a, b \in DOMAIN s : s[a] = s[b] => a = b
    /\ \A a \in DOMAIN s : a >= v.next => r[<<w, s[a]>>] = "listed"
    /\ s # <<>>

LEMMA Swap ==
    ASSUME NEW w \in Waves, NEW r, NEW v, WaveOK(v, r, w), NEW j \in v.next + 1 .. Len(v.list)
    PROVE  Reordered(swapped(v.list, v.next, j), v, r, w)
<1> DEFINE l == v.list
           n == v.next
           s == swapped(l, n, j)
<1>0. l \in Seq(Packs) /\ n \in Nat /\ n >= 1
  BY DEF WaveOK, Wave
<1>1. Len(l) \in Nat /\ DOMAIN l = 1 .. Len(l) /\ \A a \in DOMAIN l : l[a] \in Packs
  BY <1>0
<1>2. j \in Nat /\ j > n /\ n \in DOMAIN l /\ j \in DOMAIN l
  BY <1>0, <1>1
<1>3. /\ DOMAIN s = DOMAIN l
      /\ \A a \in DOMAIN l : s[a] = IF a = j THEN l[n] ELSE IF a = n THEN l[j] ELSE l[a]
  BY <1>0, <1>1, <1>2 DEF swapped
<1>4. s \in [1 .. Len(l) -> Packs]
  BY <1>1, <1>2, <1>3 DEF swapped
<1>5. s \in Seq(Packs) /\ Len(s) = Len(l)
  BY <1>1, <1>4
<1>6. /\ \A a, b \in DOMAIN l : l[a] = l[b] => a = b
      /\ \A a \in DOMAIN l : a >= n => r[<<w, l[a]>>] = "listed"
  BY DEF WaveOK
<1> HIDE DEF s, l, n
<1>7. \A a, b \in DOMAIN s : s[a] = s[b] => a = b
  BY <1>2, <1>3, <1>6
<1>8. ASSUME NEW a \in DOMAIN s, a >= n PROVE r[<<w, s[a]>>] = "listed"
  <2>1. \E k \in DOMAIN l : k >= n /\ s[a] = l[k]
    <3>1. n >= n /\ j >= n
      BY <1>0, <1>2
    <3> QED BY <1>2, <1>3, <1>8, <3>1
  <2> QED BY <1>6, <2>1
<1>9. s # <<>>
  BY <1>0, <1>1, <1>2, <1>5
<1> QED BY <1>5, <1>7, <1>8, <1>9 DEF s, l, n, Reordered

LEMMA PullAheadStep ==
    ASSUME IInv, NEW w \in Waves, NEW js, js \subseteq later(w), NEW v, pullAhead(w, js, v),
           v \in Wave, v.list = wave[w].list, v.next = wave[w].next, v.serial = wave[w].serial,
           UNCHANGED <<run, nested, bus, kicked, b10Acked, halted, events>>
    PROVE  IInv'
<1>0. WaveOK(wave[w], run, w) /\ wave[w] \in Wave
  BY DEF IInv, WaveOK
<1>1. WaveOK(v, run, w)
  BY <1>0 DEF WaveOK
<1>2. CASE js = {}
  <2>1. wave' = [wave EXCEPT ![w] = v] /\ pumping' = None
    BY <1>2 DEF pullAhead
  <2> QED BY <1>1, <2>1, MarkStep
<1>3. CASE js # {}
  <2>1. PICK j \in js :
          /\ wave' = [wave EXCEPT ![w] =
                [v EXCEPT !.list = swapped(v.list, v.next, j), !.timer = wave[w].timer]]
          /\ pumping' = w
    BY <1>3 DEF pullAhead, swapped
  <2>2. j \in v.next + 1 .. Len(v.list)
    BY DEF later
  <2>3. Reordered(swapped(v.list, v.next, j), v, run, w)
    BY <1>1, <2>2, Swap
  <2> DEFINE s == swapped(v.list, v.next, j)
             u == [v EXCEPT !.list = s, !.timer = wave[w].timer]
  <2>4. s \in Seq(Packs) /\ wave[w].timer \in BOOLEAN
    BY <1>0, <2>3 DEF Wave, Reordered
  <2> HIDE DEF s
  <2>5. u \in Wave /\ u.list = s /\ u.next = v.next /\ u.serial = v.serial
    BY <2>4 DEF Wave
  <2>6. wave' = [wave EXCEPT ![w] = u]
    BY <2>1 DEF s
  <2> HIDE DEF u
  <2>7. u.next \in 1 .. Len(u.list) + 1
    BY <1>1, <2>3, <2>5 DEF WaveOK, Reordered, s
  <2>8. WaveOK(u, run, w)
    BY <2>3, <2>5, <2>7 DEF WaveOK, Reordered, s
  <2> QED BY <2>1, <2>5, <2>6, <2>8, MarkStep
<1> QED BY <1>2, <1>3

LEMMA AdmitStep ==
    ASSUME IInv, NEW w \in Waves, wave[w].next <= Len(wave[w].list),
           PumpAdmit(w, wave[w].list[wave[w].next]),
           UNCHANGED <<nested, bus, kicked, b10Acked, halted, events>>
    PROVE  IInv'
<1> DEFINE l == wave[w].list
           n == wave[w].next
           p == l[n]
           v == [wave[w] EXCEPT !.next = n + 1]
<1>0. Plain /\ WaveOK(wave[w], run, w) /\ wave[w] \in Wave
  BY DEF IInv, WaveOK
<1>1. l \in Seq(Packs) /\ n \in 1 .. Len(l) /\ n \in DOMAIN l /\ Len(l) \in Nat
  BY <1>0 DEF WaveOK, Wave
<1>2. p \in Packs
  BY <1>1
<1>3. /\ v \in Wave /\ v.list = l /\ v.next = n + 1 /\ v.serial = wave[w].serial
  BY <1>0, <1>1 DEF Wave
<1>4. wave' = [wave EXCEPT ![w] = v] /\ run' = [run EXCEPT ![<<w, p>>] = "load"] /\ pumping' = pumping
  BY <1>0 DEF PumpAdmit, Plain
<1>5. /\ \A i, j \in DOMAIN l : l[i] = l[j] => i = j
      /\ \A i \in DOMAIN l : i >= n => run[<<w, l[i]>>] = "listed"
  BY <1>0 DEF WaveOK
<1> HIDE DEF v
<1>6. <<w, p>> \in Runs /\ run[<<w, p>>] = "listed"
  <2>1. n >= n
    BY <1>1
  <2>2. run[<<w, l[n]>>] = "listed"
    BY <1>1, <1>5, <2>1
  <2> QED BY <1>2, <2>2 DEF Runs
<1>7. run' \in [Runs -> RunState]
      /\ \A o \in Runs : run'[o] = IF o = <<w, p>> THEN "load" ELSE run[o]
  BY <1>0, <1>4, <1>6 DEF Plain, RunState
<1>8. ASSUME NEW i \in DOMAIN l, i >= n + 1 PROVE run'[<<w, l[i]>>] = "listed"
  <2>1. l[i] \in Packs /\ i # n /\ i >= n
    BY <1>1, <1>8
  <2>2. <<w, l[i]>> \in Runs /\ l[i] # p
    BY <1>1, <1>5, <2>1 DEF Runs
  <2> QED BY <1>5, <1>7, <2>1, <2>2
<1>9. WaveOK(v, run', w)
  <2>1. v.next \in 1 .. Len(v.list) + 1 /\ v.list # <<>>
    BY <1>1, <1>3
  <2> QED BY <1>3, <1>5, <1>8, <2>1 DEF WaveOK
<1>10. \A o \in Runs : o[1] # w => run'[o] = run[o]
  BY <1>7
<1>11. \A o \in Runs : run[o] \in {"lock", "run"} =>
                          run'[o] = run[o] /\ (o[1] = w => v.serial = wave[w].serial)
  BY <1>3, <1>6, <1>7
<1>12. \A o \in Runs : run'[o] = "run" => run[o] = "run"
  BY <1>7
<1>13. pumping' \in Waves \cup {None}
  BY <1>0, <1>4 DEF Plain
<1> QED BY <1>4, <1>7, <1>9, <1>10, <1>11, <1>12, <1>13, WaveStep

LEMMA PumpStep ==
    ASSUME IInv, NEW w \in Waves, pump(w)
    PROVE  IInv'
<1>0. /\ Plain /\ WaveOK(wave[w], run, w) /\ wave[w] \in Wave
      /\ UNCHANGED <<nested, bus, kicked, b10Acked, halted, events>>
  BY DEF IInv, WaveOK, pump, env
<1> DEFINE p == wave[w].list[wave[w].next]
<1>1. CASE PumpReturn(w)
  <2>1. UNCHANGED <<wave, run>> /\ pumping' = None
    BY <1>1 DEF PumpReturn
  <2>2. Plain' /\ Good(bus', run', nested', cls)
    BY <1>0, <2>1 DEF Plain, IInv
  <2> QED BY <2>1, <2>2, RunSteps
<1>2. CASE wave[w].next <= Len(wave[w].list) /\ PumpAdmit(w, p)
  BY <1>0, <1>2, AdmitStep
<1>3. CASE wave[w].next <= Len(wave[w].list) /\ PumpDep(w, p)
  <2> DEFINE v == [wave[w] EXCEPT !.tried = wave[w].tried \cup {p}]
             js == {j \in later(w) : LET q == wave[w].list[j]
                                     IN ~dagDepUnmet(w, q) /\ ready(w, q)}
  <2>1. wave[w].list \in Seq(Packs) /\ wave[w].next \in DOMAIN wave[w].list
    BY <1>0, <1>3 DEF WaveOK, Wave
  <2>2. p \in Packs
    BY <2>1
  <2>3. /\ v \in Wave /\ v.list = wave[w].list /\ v.next = wave[w].next
        /\ v.serial = wave[w].serial
    BY <1>0, <2>2 DEF Wave
  <2>4. pullAhead(w, js, v) /\ UNCHANGED run
    BY <1>0, <1>3 DEF PumpDep, Wave
  <2>5. js \subseteq later(w)
    OBVIOUS
  <2> HIDE DEF js, v
  <2> QED BY <1>0, <2>3, <2>4, <2>5, PullAheadStep
<1>4. CASE PumpDefer(w, p)
  <2> DEFINE js == {j \in later(w) : LET q == wave[w].list[j] IN ~mustDefer(q) /\ ready(w, q)}
  <2>1. pullAhead(w, js, wave[w]) /\ UNCHANGED run
    BY <1>4 DEF PumpDefer
  <2>2. js \subseteq later(w)
    OBVIOUS
  <2> HIDE DEF js
  <2> QED BY <1>0, <2>1, <2>2, PullAheadStep
<1>5. CASE PumpBlocked(w, p)
  <2> DEFINE v == [wave[w] EXCEPT !.timer = TRUE]
             js == {j \in later(w) : LET q == wave[w].list[j]
                                     IN /\ ready(w, q)
                                        /\ light(w, q) \/ (p # B10 /\ ~mustDefer(q))}
  <2>1. pullAhead(w, js, v) /\ UNCHANGED run
    BY <1>5 DEF PumpBlocked
  <2>2. js \subseteq later(w)
    OBVIOUS
  <2>3. /\ v \in Wave /\ v.list = wave[w].list /\ v.next = wave[w].next
        /\ v.serial = wave[w].serial
    BY <1>0 DEF Wave
  <2> HIDE DEF js, v
  <2> QED BY <1>0, <2>1, <2>2, <2>3, PullAheadStep
<1> QED BY <1>1, <1>2, <1>3, <1>4, <1>5 DEF pump

LEMMA PumpTimerStep ==
    ASSUME IInv, NEW w \in Waves, PumpTimer(w)
    PROVE  IInv'
<1> DEFINE v == [wave[w] EXCEPT !.timer = FALSE]
<1>0. WaveOK(wave[w], run, w) /\ wave[w] \in Wave /\ Plain
  BY DEF IInv, WaveOK
<1>1. wave' = [wave EXCEPT ![w] = v] /\ pumping' = w
      /\ UNCHANGED <<run, nested, bus, kicked, b10Acked, halted, events>>
  BY <1>0 DEF PumpTimer, env, Plain
<1>2. /\ v \in Wave /\ v.list = wave[w].list /\ v.next = wave[w].next
      /\ v.serial = wave[w].serial
  BY <1>0 DEF Wave
<1> HIDE DEF v
<1>3. WaveOK(v, run, w)
  BY <1>0, <1>2 DEF WaveOK
<1> QED BY <1>1, <1>2, <1>3, MarkStep

-----------------------------------------------------------------------------
LEMMA InitInv == Init => IInv
<1> SUFFICES ASSUME Init PROVE IInv
  OBVIOUS
<1>1. ASSUME NEW w \in Waves PROVE WaveOK(wave[w], run, w)
  <2>1. wave[w] = Unkicked /\ \A p \in Packs : <<w, p>> \in Runs /\ run[<<w, p>>] = "none"
    BY DEF Init, Runs
  <2>2. Unkicked \in Wave /\ Unkicked.next = 1 /\ Unkicked.list = <<>>
    BY DEF Unkicked, Wave
  <2> QED BY <2>1, <2>2 DEF WaveOK
<1>2. Plain
  <2>1. wave \in [Waves -> Wave]
    BY DEF Init, Unkicked, Wave
  <2>2. events \in 0 .. MaxEvents
    BY Consts DEF Init
  <2> QED BY <2>1, <2>2 DEF Init, Plain, RunState
<1>3. Good(bus, run, nested, cls)
  <2>1. /\ bus.holders = [c \in Class |-> None] /\ bus.waiters = [c \in Class |-> <<>>]
        /\ bus.wakes = {} /\ nested = {}
    BY DEF Init
  <2>2. bus \in Bus
    BY DEF Init, Bus
  <2> QED BY <2>1, <2>2 DEF Good, Held, Queued, Nesting, Served
<1> QED BY <1>1, <1>2, <1>3 DEF IInv

LEMMA StepInv == IInv /\ [Next]_vars => IInv'
<1> SUFFICES ASSUME IInv, [Next]_vars PROVE IInv'
  OBVIOUS
<1>1. CASE \E w \in Waves : \E l \in Lists, s \in BOOLEAN : kickAll(w, l, s)
  BY <1>1, KickStep
<1>2. CASE \E w \in Waves : pump(w)
  BY <1>2, PumpStep
<1>3. CASE \E w \in Waves : PumpTimer(w)
  BY <1>3, PumpTimerStep
<1>4. CASE \E o \in Runs : RunStep(o)
  BY <1>4, WithLocksStep, AcquireStep, WakeStep, ExecRunStep, EndStep DEF RunStep
<1>5. CASE StallRelease \/ \E v \in BOOLEAN : SetAcked(v) \/ SetHalted(v)
  BY <1>5, EnvStep
<1>6. CASE UNCHANGED vars
  <2>1. UNCHANGED <<wave, run, nested, bus, kicked, b10Acked, halted, pumping, events>>
    BY <1>6 DEF vars
  <2>2. Good(bus', run, nested, cls) /\ events' \in 0 .. MaxEvents
    BY <2>1 DEF IInv, Plain
  <2> QED BY <2>1, <2>2, BusStep
<1> QED BY <1>1, <1>2, <1>3, <1>4, <1>5, <1>6 DEF Next

LEMMA Always == Spec => []IInv
BY InitInv, StepInv, PTL DEF Spec

(* The closures of the waves and the shared bus keep their shape; the      *)
(* index of a pump never leaves its list.                                  *)
THEOREM TypeCorrect == Spec => []TypeOK
BY Always, IInvType, PTL

(* releaseOne, forceReleaseResource: nobody who waits for a class is       *)
(* forgotten, for any number of waves, packs, classes and forced releases. *)
THEOREM WaitersServed == Spec => []NoLostWaiter
<1>1. IInv => NoLostWaiter
  BY DEF IInv, Good, Served, NoLostWaiter
<1> QED BY Always, <1>1, PTL

(* withResourceLocks: whoever holds a class is still in its run and will   *)
(* release it.                                                             *)
THEOREM NoLeakedLock == Spec => []HolderAlive
<1>1. IInv => HolderAlive
  BY DEF IInv, Good, Held, HolderAlive
<1> QED BY Always, <1>1, PTL

-----------------------------------------------------------------------------
(* A counter above zero belongs to a class that is held.                   *)
Deep(b) == \A c \in Class : b.depth[c] > 0 => b.holders[c] # None

LEMMA TakeDeep ==
    ASSUME NEW b \in Bus, Deep(b), NEW c \in Class, NEW o \in Runs
    PROVE  Deep(tryTake(b, c, o))
<1>0. b.holders \in [Class -> Runs \cup {None}] /\ b.depth \in [Class -> Int]
  BY BusFields
<1>1. CASE b.holders[c] = None
  <2>1. /\ tryTake(b, c, o).holders = [b.holders EXCEPT ![c] = o]
        /\ tryTake(b, c, o).depth = [b.depth EXCEPT ![c] = 1]
    BY <1>1 DEF tryTake, Bus
  <2> QED BY <1>0, <2>1, Consts DEF Deep
<1>2. CASE b.holders[c] # None
  <2>1. tryTake(b, c, o).holders = b.holders /\ tryTake(b, c, o).depth = b.depth
    BY <1>2 DEF tryTake, Bus
  <2> QED BY <2>1 DEF Deep
<1> QED BY <1>1, <1>2

LEMMA ReleaseDeep ==
    ASSUME NEW b \in Bus, Deep(b), NEW cs \in SUBSET Class
    PROVE  Deep(releaseAll(b, cs))
<1>1. /\ releaseAll(b, cs).holders = [c \in Class |-> IF c \in cs THEN None ELSE b.holders[c]]
      /\ releaseAll(b, cs).depth = [c \in Class |-> IF c \in cs THEN 0 ELSE b.depth[c]]
  BY DEF releaseAll, released, Bus
<1> QED BY <1>1 DEF Deep

LEMMA ForceDeep ==
    ASSUME NEW b \in Bus, Deep(b), NEW cs \in SUBSET Class
    PROVE  Deep(forceRelease(b, cs))
<1> DEFINE waited == {c \in cs : b.waiters[c] # <<>>}
           q == [c \in Class |-> IF c \in waited THEN Tail(b.waiters[c]) ELSE b.waiters[c]]
           r == released(b, cs, q, b.wakes)
<1>1. /\ r.holders = [c \in Class |-> IF c \in cs THEN None ELSE b.holders[c]]
      /\ r.depth = [c \in Class |-> IF c \in cs THEN 0 ELSE b.depth[c]]
      /\ r \in [{"holders", "depth", "waiters", "got", "wakes"} ->
                   {r.holders, r.depth, r.waiters, r.got, r.wakes}]
  <2> HIDE DEF q
  <2> QED BY DEF released, Bus
<1>2. forceRelease(b, cs) =
        [r EXCEPT !.holders = [c \in Class |-> IF c \in waited THEN Head(b.waiters[c]) ELSE @[c]],
                  !.depth   = [c \in Class |-> IF c \in waited THEN 1 ELSE @[c]],
                  !.got     = [o \in Runs |-> @[o] \cup {c \in waited : Head(b.waiters[c]) = o}]]
  BY DEF forceRelease
<1> HIDE DEF r, q
<1>3. /\ forceRelease(b, cs).holders
            = [c \in Class |-> IF c \in waited THEN Head(b.waiters[c]) ELSE r.holders[c]]
      /\ forceRelease(b, cs).depth
            = [c \in Class |-> IF c \in waited THEN 1 ELSE r.depth[c]]
  BY <1>1, <1>2
<1>4. \A c \in waited : Head(b.waiters[c]) # None
  <2> SUFFICES ASSUME NEW c \in waited PROVE Head(b.waiters[c]) # None
    OBVIOUS
  <2>1. b.waiters[c] \in Seq(Runs) /\ b.waiters[c] # <<>>
    BY BusFields
  <2> QED BY <2>1, Consts
<1> QED BY <1>1, <1>3, <1>4 DEF Deep

LEMMA FinishDeep ==
    ASSUME NEW b \in Bus, Deep(b), NEW o \in Runs, Plain
    PROVE  Deep(afterRun(b, o))
<1> DEFINE cs == classesForPack(o[1], o[2])
<1>0. cs \in SUBSET Class
  BY ClsType DEF Ctx
<1>1. b.holders \in [Class -> Runs \cup {None}] /\ b.depth \in [Class -> Int]
  BY BusFields
<1> HIDE DEF cs
<1>2. CASE o \in nested
  <2>1. /\ afterRun(b, o).holders = b.holders
        /\ afterRun(b, o).depth
              = [c \in Class |-> IF c \in cs THEN b.depth[c] - 1 ELSE b.depth[c]]
    BY <1>2 DEF afterRun, Bus, cs
  <2> QED BY <1>1, <2>1 DEF Deep
<1>3. CASE o \notin nested
  <2> DEFINE l == releaseAll(b, cs)
  <2>1. l \in Bus /\ Deep(l)
    BY <1>0, ReleaseFields, ReleaseDeep
  <2>2. afterRun(b, o) = [l EXCEPT !.got[o] = {}]
    BY <1>3 DEF afterRun, cs
  <2> HIDE DEF l
  <2>3. afterRun(b, o).holders = l.holders /\ afterRun(b, o).depth = l.depth
    BY <2>1, <2>2 DEF Bus
  <2> QED BY <2>1, <2>3 DEF Deep
<1> QED BY <1>2, <1>3

LEMMA DeepNext == IInv /\ Deep(bus) /\ [Next]_vars => Deep(bus')
<1> SUFFICES ASSUME IInv, Deep(bus), [Next]_vars PROVE Deep(bus')
  OBVIOUS
<1>0. bus \in Bus /\ Plain /\ Forced \in SUBSET Class
  BY Consts DEF IInv, Good
<1>1. ASSUME NEW o \in Runs, WithResourceLocks(o) PROVE Deep(bus')
  <2> DEFINE cs == classesForPack(o[1], o[2])
  <2>1. bus.holders \in [Class -> Runs \cup {None}] /\ bus.depth \in [Class -> Int]
    BY <1>0, BusFields
  <2>2. \/ bus' = bus
        \/ /\ \A c \in cs : bus.depth[c] > 0
           /\ bus'.holders = bus.holders
           /\ bus'.depth = [c \in Class |-> IF c \in cs THEN bus.depth[c] + 1 ELSE bus.depth[c]]
    BY <1>0, <1>1 DEF WithResourceLocks, Bus
  <2> HIDE DEF cs
  <2> QED BY <2>1, <2>2 DEF Deep
<1>2. ASSUME NEW o \in Runs, AcquireOne(o) PROVE Deep(bus')
  <2>1. PICK i \in DOMAIN Classes : bus' = tryTake(bus, Classes[i], o)
    BY <1>2 DEF AcquireOne
  <2>2. Classes[i] \in Class
    BY DEF Class
  <2> QED BY <1>0, <2>1, <2>2, TakeDeep
<1>3. ASSUME NEW o \in Runs, NEW c \in Class, Wake(c, o) PROVE Deep(bus')
  <2> DEFINE b == [bus EXCEPT !.wakes = @ \ {<<c, o>>}]
  <2>1. b \in Bus /\ b.holders = bus.holders /\ b.depth = bus.depth
    BY <1>0 DEF Bus
  <2>2. bus' = tryTake(b, c, o)
    BY <1>3 DEF Wake
  <2> HIDE DEF b
  <2>3. Deep(b)
    BY <2>1 DEF Deep
  <2> QED BY <2>1, <2>2, <2>3, TakeDeep
<1>4. ASSUME NEW o \in Runs, ExecSkip(o) \/ CollectOk(o) \/ CollectFail(o)
      PROVE  Deep(bus')
  <2>1. bus' = afterRun(bus, o)
    BY <1>4 DEF ExecSkip, CollectOk, CollectFail, finish
  <2> QED BY <1>0, <2>1, FinishDeep
<1>5. ASSUME NEW o \in Runs, RunTimeout(o) PROVE Deep(bus')
  <2>1. bus' = afterRun(forceRelease(bus, Forced), o)
    BY <1>5 DEF RunTimeout, finish
  <2>2. forceRelease(bus, Forced) \in Bus /\ Deep(forceRelease(bus, Forced))
    BY <1>0, ForceFields, ForceDeep
  <2> QED BY <1>0, <2>1, <2>2, FinishDeep
<1>6. CASE StallRelease
  BY <1>0, <1>6, ForceDeep DEF StallRelease
<1>7. ASSUME bus' = bus PROVE Deep(bus')
  BY <1>7
<1>8. CASE \E o \in Runs : RunStep(o)
  BY <1>1, <1>2, <1>3, <1>4, <1>5, <1>7, <1>8 DEF RunStep, ExecRun
<1>9. CASE \/ \E w \in Waves : \/ \E l \in Lists, x \in BOOLEAN : kickAll(w, l, x)
                              \/ pump(w) \/ PumpTimer(w)
           \/ \E v \in BOOLEAN : SetAcked(v) \/ SetHalted(v)
           \/ UNCHANGED vars
  BY <1>7, <1>9 DEF kickAll, pump, PumpTimer, SetAcked, SetHalted, vars
<1> QED BY <1>6, <1>8, <1>9 DEF Next

(* withResourceLocks: for any waves, packs and forced releases, nobody     *)
(* enters a class that no run holds by the re-entrant path.                *)
THEOREM ReentryNeedsHolder == Spec => []NestedMeansHeld
<1>1. Init => Deep(bus)
  BY DEF Init, Deep
<1>2. Deep(bus) => NestedMeansHeld
  BY DEF Deep, NestedMeansHeld
<1>3. IInv /\ Deep(bus) /\ [Next]_vars => (Deep(bus))'
  BY DeepNext
<1> QED BY <1>1, <1>2, <1>3, Always, PTL DEF Spec

=============================================================================
