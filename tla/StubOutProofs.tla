---------------------------- MODULE StubOutProofs ----------------------------
(***************************************************************************)
(* Proofs about StubOutForTesting: what was stubbed is put back.           *)
(*                                                                         *)
(* The undo log is read backwards, so the entry that counts is the first   *)
(* one of an object.  The invariant says of every beginning of a log that  *)
(* undoing it gives the originals back; a turn of the loop shortens it.    *)
(* A log with an object on which setattr raises is never emptied, and is   *)
(* reversed each time: of it the invariant says only that an original of   *)
(* each object is still in it, somewhere.                                  *)
(***************************************************************************)
EXTENDS StubOutForTesting, SequenceTheorems, WellFoundedInduction, TLAPS

-----------------------------------------------------------------------------
(***************************************************************************)
(* Folds.  The loops are folds over a sequence, and a fold is recursive    *)
(* over the subsets of its domain.                                         *)
(***************************************************************************)
\* A set of numbers has a least one.
LEMMA LeastNumber ==
  ASSUME NEW T \in SUBSET Nat, T # {}
  PROVE  \E n \in T : \A m \in T : n <= m
<1> DEFINE R == {p \in Nat \X Nat : p[1] < p[2]}
<1>1. IsWellFoundedOn(R, Nat)
  BY NatLessThanWellFounded DEF OpToRel
<1>2. \A m, n \in Nat : m < n => <<m, n>> \in R
  OBVIOUS
<1> HIDE DEF R
<1>3. PICK n \in T : \A m \in T : ~(<<m, n>> \in R)
  BY <1>1, WFMin
<1>4. \A m \in T : ~(m < n)
  BY <1>2, <1>3
<1> QED
  BY <1>4

\* A set that has 0, and with a number the next, has all numbers up to N.
LEMMA Counting ==
  ASSUME NEW N \in Nat, NEW T, 0 \in T,
         \A n \in 0..(N - 1) : n \in T => n + 1 \in T
  PROVE  \A n \in 0..N : n \in T
<1> DEFINE Left == {n \in 0..N : n \notin T}
<1> SUFFICES ASSUME Left # {} PROVE FALSE
  OBVIOUS
<1>1. PICK n \in Left : \A m \in Left : n <= m
  <2>1. Left \in SUBSET Nat
    OBVIOUS
  <2> HIDE DEF Left
  <2> QED
    BY <2>1, LeastNumber
<1>2. n # 0 /\ n \in 0..N
  BY <1>1
<1>3. n - 1 \in 0..(N - 1) /\ n - 1 \in 0..N /\ (n - 1) + 1 = n /\ ~(n <= n - 1)
  BY <1>2
<1>4. n - 1 \in T
  BY <1>1, <1>3
<1> QED
  BY <1>1, <1>3, <1>4

\* The greatest of some numbers.
LEMMA MaxIs ==
  ASSUME NEW S \in SUBSET Nat, NEW n \in S, \A m \in S : n >= m
  PROVE  Max(S) = n
<1>1. \A x \in S : (\A y \in S : x >= y) => x = n
  OBVIOUS
<1> QED
  BY <1>1 DEF Max

\* Numbers up to N have a greatest.
LEMMA MaxExists ==
  ASSUME NEW N \in Nat, NEW S \in SUBSET (1..N), S # {}
  PROVE  Max(S) \in S
<1> DEFINE T == {n \in Nat : \A m \in S : n >= m}
<1>1. T # {} /\ T \in SUBSET Nat
  <2>1. N \in T
    OBVIOUS
  <2> QED
    BY <2>1
<1>2. PICK n \in T : \A m \in T : n <= m
  BY <1>1, LeastNumber
<1>3. n \in S
  <2> SUFFICES ASSUME n \notin S PROVE FALSE
    OBVIOUS
  <2>1. PICK e \in S : TRUE
    OBVIOUS
  <2>2. n \in Nat /\ n >= e /\ e \in Nat /\ e >= 1
    BY <1>2
  <2>3. n - 1 \in Nat /\ \A m \in S : n - 1 >= m
    BY <1>2, <2>2
  <2>4. n - 1 \in T
    BY <2>3
  <2>5. ~(n <= n - 1)
    BY <2>2
  <2> QED
    BY <1>2, <2>4, <2>5
<1>4. Max(S) = n
  BY <1>2, <1>3, MaxIs
<1> QED
  BY <1>3, <1>4

\* How FoldLeft computes: it[s] is the fold of the steps in s, and step[i] is what
\* the i-th element makes of a value.
Iterates(it, n, base, step) ==
  it = [s \in SUBSET (1..n) |->
          IF s = {} THEN base ELSE step[Max(s)][it[s \ {Max(s)}]]]

\* There are such iterates.
LEMMA IteratesExist ==
  ASSUME NEW N \in Nat, NEW X, NEW base \in X, NEW step \in [1..N -> [X -> X]]
  PROVE  \E it \in [SUBSET (1..N) -> X] : Iterates(it, N, base, step)
<1> DEFINE T == {n \in 0..N : \E it \in [SUBSET (1..n) -> X] : Iterates(it, n, base, step)}
<1>1. 0 \in T
  <2> DEFINE it == [s \in SUBSET (1..0) |-> base]
  <2>1. 1..0 = {} /\ \A s \in SUBSET (1..0) : s = {}
    OBVIOUS
  <2>2. it \in [SUBSET (1..0) -> X] /\ Iterates(it, 0, base, step)
    BY <2>1 DEF Iterates
  <2> QED
    BY <2>2
<1>2. ASSUME NEW n \in 0..(N - 1), n \in T
      PROVE  n + 1 \in T
  <2>1. PICK it \in [SUBSET (1..n) -> X] : Iterates(it, n, base, step)
    BY <1>2
  <2> DEFINE m == n + 1
             it2 == [s \in SUBSET (1..m) |->
                       IF m \in s THEN step[m][it[s \ {m}]] ELSE it[s]]
  <2>2. m \in 1..N /\ m \in 0..N /\ \A i \in 1..m : i \in 1..n \/ i = m
    OBVIOUS
  <2>3. \A i \in 1..n : i \in 1..m /\ i # m
    OBVIOUS
  <2> HIDE DEF m
  <2>4. \A s \in SUBSET (1..m) : /\ s \ {m} \in SUBSET (1..n)
                                 /\ m \notin s => s \in SUBSET (1..n)
    BY <2>2
  <2>5. it2 \in [SUBSET (1..m) -> X]
    BY <2>2, <2>4
  <2>6. \A s \in SUBSET (1..n) : s \in SUBSET (1..m) /\ it2[s] = it[s]
    BY <2>3
  <2>7. ASSUME NEW s \in SUBSET (1..m)
        PROVE  it2[s] = IF s = {} THEN base ELSE step[Max(s)][it2[s \ {Max(s)}]]
    <3>1. CASE m \in s
      <4>1. Max(s) = m
        <5>1. s \in SUBSET Nat /\ \A i \in s : m >= i
          BY <2>2
        <5> QED
          BY <3>1, <5>1, MaxIs
      <4>2. it2[s] = step[m][it[s \ {m}]]
        BY <3>1
      <4>3. it2[s \ {m}] = it[s \ {m}]
        BY <2>4, <2>6
      <4> HIDE DEF it2
      <4> QED
        BY <3>1, <4>1, <4>2, <4>3
    <3>2. CASE m \notin s
      <4>1. s \in SUBSET (1..n) /\ s \ {Max(s)} \in SUBSET (1..n)
        BY <2>4, <3>2
      <4>2. it2[s] = it[s] /\ it2[s \ {Max(s)}] = it[s \ {Max(s)}]
        BY <2>6, <4>1
      <4>3. it[s] = IF s = {} THEN base ELSE step[Max(s)][it[s \ {Max(s)}]]
        BY <2>1, <4>1 DEF Iterates
      <4> HIDE DEF it2
      <4> QED
        BY <4>2, <4>3
    <3> QED
      BY <3>1, <3>2
  <2> HIDE DEF it2
  <2>8. Iterates(it2, m, base, step)
    BY <2>5, <2>7 DEF Iterates
  <2> QED
    BY <2>2, <2>5, <2>8 DEF m
<1> HIDE DEF T
<1>3. \A n \in 0..N : n \in T
  BY <1>1, <1>2, Counting
<1>4. N \in 0..N
  OBVIOUS
<1> QED
  BY <1>3, <1>4 DEF T

\* The first n elements without the last of them.
LEMMA FirstElements ==
  ASSUME NEW N \in Nat, NEW n \in 1..N
  PROVE  /\ 1..n \in SUBSET (1..N) /\ 1..n # {}
         /\ Max(1..n) = n /\ (1..n) \ {n} = 1..(n - 1)
<1>1. n \in 1..n /\ 1..n \in SUBSET Nat /\ \A i \in 1..n : n >= i
  OBVIOUS
<1>2. Max(1..n) = n
  BY <1>1, MaxIs
<1> QED
  BY <1>1, <1>2

\* The dictionaries after each turn of the loop of unset_all.
IsPutBackRun(run, D, attributes, seq) ==
  /\ run \in [0..Len(seq) -> [Object -> D]]
  /\ run[0] = attributes
  /\ \A n \in 1..Len(seq) : run[n] = PutBack(run[n - 1], seq[n])
  /\ FoldLeft(PutBack, attributes, seq) = run[Len(seq)]

LEMMA PutBackRuns ==
  ASSUME NEW D, NEW attributes \in [Object -> D],
         NEW seq \in Seq([object : Object, old : D])
  PROVE  \E run : IsPutBackRun(run, D, attributes, seq)
<1> DEFINE N == Len(seq)
           X == [Object -> D]
           step == [n \in 1..N |-> [a \in X |-> PutBack(a, seq[n])]]
           Iter == CHOOSE it : it = [s \in SUBSET (1..N) |->
                     IF s = {} THEN attributes
                     ELSE PutBack(it[s \ {Max(s)}], seq[Max(s)])]
<1>1. N \in Nat /\ DOMAIN seq = 1..N /\ \A n \in 1..N : seq[n] \in [object : Object, old : D]
  BY LenProperties, ElementOfSeq
<1>2. step \in [1..N -> [X -> X]]
  BY <1>1 DEF PutBack
<1>3. FoldLeft(PutBack, attributes, seq) = Iter[1..N]
  BY <1>1 DEF FoldLeft, MapThenFoldSet
<1>4. PICK it \in [SUBSET (1..N) -> X] : Iterates(it, N, attributes, step)
  <2> HIDE DEF N, X, step
  <2>1. attributes \in X
    BY DEF X
  <2> QED
    BY <1>1, <1>2, <2>1, IteratesExist
<1>5. ASSUME NEW S \in SUBSET (1..N), S # {}
      PROVE  step[Max(S)][it[S \ {Max(S)}]] = PutBack(it[S \ {Max(S)}], seq[Max(S)])
  <2>1. Max(S) \in 1..N
    BY <1>1, <1>5, MaxExists
  <2>2. it[S \ {Max(S)}] \in X
    BY <1>4
  <2> HIDE DEF N, X
  <2> QED
    BY <2>1, <2>2
<1>6. it = [S \in SUBSET (1..N) |-> IF S = {} THEN attributes
                                    ELSE PutBack(it[S \ {Max(S)}], seq[Max(S)])]
  <2> HIDE DEF N, X, step
  <2> QED
    BY <1>4, <1>5 DEF Iterates
<1>7. Iter = [S \in SUBSET (1..N) |-> IF S = {} THEN attributes
                                      ELSE PutBack(Iter[S \ {Max(S)}], seq[Max(S)])]
  <2> HIDE DEF N
  <2> QED
    BY <1>6, Zenon
<1> HIDE DEF Iter
<1> DEFINE run == [n \in 0..N |-> Iter[1..n]]
<1>8. run[0] = attributes /\ run[N] = FoldLeft(PutBack, attributes, seq)
  <2>1. 1..0 = {} /\ {} \in SUBSET (1..N) /\ 0 \in 0..N /\ N \in 0..N
    BY <1>1
  <2>2. Iter[{}] = attributes
    BY <1>7, <2>1
  <2> HIDE DEF N
  <2> QED
    BY <1>3, <2>1, <2>2
<1>9. ASSUME NEW n \in 1..N
      PROVE  run[n] = PutBack(run[n - 1], seq[n])
  <2>1. n \in 0..N /\ n - 1 \in 0..N
    BY <1>1
  <2>2. /\ 1..n \in SUBSET (1..N) /\ 1..n # {}
        /\ Max(1..n) = n /\ (1..n) \ {n} = 1..(n - 1)
    BY <1>1, FirstElements
  <2>3. Iter[1..n] = PutBack(Iter[1..(n - 1)], seq[n])
    BY <1>7, <2>2
  <2> HIDE DEF N
  <2> QED
    BY <2>1, <2>3
<1>10. \A n \in 0..N : run[n] \in X
  <2> DEFINE T == {n \in 0..N : run[n] \in X}
  <2>1. 0 \in T
    BY <1>1, <1>8
  <2>2. \A n \in 0..(N - 1) : n \in T => n + 1 \in T
    <3> SUFFICES ASSUME NEW n \in 0..(N - 1), n \in T PROVE n + 1 \in T
      OBVIOUS
    <3>1. n + 1 \in 1..N /\ n + 1 \in 0..N /\ (n + 1) - 1 = n
      BY <1>1
    <3>2. run[n] \in X /\ seq[n + 1] \in [object : Object, old : D]
      BY <1>1, <3>1
    <3>3. run[n + 1] = PutBack(run[n], seq[n + 1])
      BY <1>9, <3>1
    <3> HIDE DEF run, N
    <3>4. PutBack(run[n], seq[n + 1]) \in X
      BY <3>2 DEF PutBack
    <3> QED
      BY <3>1, <3>3, <3>4
  <2> HIDE DEF T
  <2>3. \A n \in 0..N : n \in T
    BY <1>1, <2>1, <2>2, Counting
  <2> QED
    BY <2>3 DEF T
<1>11. run \in [0..N -> X]
  BY <1>10
<1> HIDE DEF run
<1> QED
  BY <1>8, <1>9, <1>11 DEF IsPutBackRun

\* The dictionaries after each turn of the loop of smart_unset_all.
IsSmartPutBackRun(run, D, attributes, seq) ==
  /\ run \in [0..Len(seq) -> [Object -> D]]
  /\ run[0] = attributes
  /\ \A n \in 1..Len(seq) : run[n] = SmartPutBack(run[n - 1], seq[n])
  /\ FoldLeft(SmartPutBack, attributes, seq) = run[Len(seq)]

LEMMA SmartPutBackRuns ==
  ASSUME NEW D, Absent \in D, NEW attributes \in [Object -> D],
         NEW seq \in Seq([object : Object, old : D, hadOwn : BOOLEAN])
  PROVE  \E run : IsSmartPutBackRun(run, D, attributes, seq)
<1> DEFINE N == Len(seq)
           X == [Object -> D]
           step == [n \in 1..N |-> [a \in X |-> SmartPutBack(a, seq[n])]]
           Iter == CHOOSE it : it = [s \in SUBSET (1..N) |->
                     IF s = {} THEN attributes
                     ELSE SmartPutBack(it[s \ {Max(s)}], seq[Max(s)])]
<1>1. N \in Nat /\ DOMAIN seq = 1..N /\ \A n \in 1..N : seq[n] \in [object : Object, old : D, hadOwn : BOOLEAN]
  BY LenProperties, ElementOfSeq
<1>2. step \in [1..N -> [X -> X]]
  BY <1>1 DEF SmartPutBack
<1>3. FoldLeft(SmartPutBack, attributes, seq) = Iter[1..N]
  BY <1>1 DEF FoldLeft, MapThenFoldSet
<1>4. PICK it \in [SUBSET (1..N) -> X] : Iterates(it, N, attributes, step)
  <2> HIDE DEF N, X, step
  <2>1. attributes \in X
    BY DEF X
  <2> QED
    BY <1>1, <1>2, <2>1, IteratesExist
<1>5. ASSUME NEW S \in SUBSET (1..N), S # {}
      PROVE  step[Max(S)][it[S \ {Max(S)}]] = SmartPutBack(it[S \ {Max(S)}], seq[Max(S)])
  <2>1. Max(S) \in 1..N
    BY <1>1, <1>5, MaxExists
  <2>2. it[S \ {Max(S)}] \in X
    BY <1>4
  <2> HIDE DEF N, X
  <2> QED
    BY <2>1, <2>2
<1>6. it = [S \in SUBSET (1..N) |-> IF S = {} THEN attributes
                                    ELSE SmartPutBack(it[S \ {Max(S)}], seq[Max(S)])]
  <2> HIDE DEF N, X, step
  <2> QED
    BY <1>4, <1>5 DEF Iterates
<1>7. Iter = [S \in SUBSET (1..N) |-> IF S = {} THEN attributes
                                      ELSE SmartPutBack(Iter[S \ {Max(S)}], seq[Max(S)])]
  <2> HIDE DEF N
  <2> QED
    BY <1>6, Zenon
<1> HIDE DEF Iter
<1> DEFINE run == [n \in 0..N |-> Iter[1..n]]
<1>8. run[0] = attributes /\ run[N] = FoldLeft(SmartPutBack, attributes, seq)
  <2>1. 1..0 = {} /\ {} \in SUBSET (1..N) /\ 0 \in 0..N /\ N \in 0..N
    BY <1>1
  <2>2. Iter[{}] = attributes
    BY <1>7, <2>1
  <2> HIDE DEF N
  <2> QED
    BY <1>3, <2>1, <2>2
<1>9. ASSUME NEW n \in 1..N
      PROVE  run[n] = SmartPutBack(run[n - 1], seq[n])
  <2>1. n \in 0..N /\ n - 1 \in 0..N
    BY <1>1
  <2>2. /\ 1..n \in SUBSET (1..N) /\ 1..n # {}
        /\ Max(1..n) = n /\ (1..n) \ {n} = 1..(n - 1)
    BY <1>1, FirstElements
  <2>3. Iter[1..n] = SmartPutBack(Iter[1..(n - 1)], seq[n])
    BY <1>7, <2>2
  <2> HIDE DEF N
  <2> QED
    BY <2>1, <2>3
<1>10. \A n \in 0..N : run[n] \in X
  <2> DEFINE T == {n \in 0..N : run[n] \in X}
  <2>1. 0 \in T
    BY <1>1, <1>8
  <2>2. \A n \in 0..(N - 1) : n \in T => n + 1 \in T
    <3> SUFFICES ASSUME NEW n \in 0..(N - 1), n \in T PROVE n + 1 \in T
      OBVIOUS
    <3>1. n + 1 \in 1..N /\ n + 1 \in 0..N /\ (n + 1) - 1 = n
      BY <1>1
    <3>2. run[n] \in X /\ seq[n + 1] \in [object : Object, old : D, hadOwn : BOOLEAN]
      BY <1>1, <3>1
    <3>3. run[n + 1] = SmartPutBack(run[n], seq[n + 1])
      BY <1>9, <3>1
    <3> HIDE DEF run, N
    <3>4. SmartPutBack(run[n], seq[n + 1]) \in X
      BY <3>2 DEF SmartPutBack
    <3> QED
      BY <3>1, <3>3, <3>4
  <2> HIDE DEF T
  <2>3. \A n \in 0..N : n \in T
    BY <1>1, <2>1, <2>2, Counting
  <2> QED
    BY <2>3 DEF T
<1>11. run \in [0..N -> X]
  BY <1>10
<1> HIDE DEF run
<1> QED
  BY <1>8, <1>9, <1>11 DEF IsSmartPutBackRun

\* The loops leave the objects alone that are not in the log.
SameOutside(result, attributes, seq) ==
  \A o \in Object : (\A i \in 1..Len(seq) : seq[i].object # o) => result[o] = attributes[o]

LEMMA PutBackKeeps ==
  ASSUME NEW D, NEW attributes \in [Object -> D],
         NEW seq \in Seq([object : Object, old : D])
  PROVE  LET result == FoldLeft(PutBack, attributes, seq)
         IN  result \in [Object -> D] /\ SameOutside(result, attributes, seq)
<1>1. PICK run : IsPutBackRun(run, D, attributes, seq)
  BY PutBackRuns
<1>2. Len(seq) \in Nat /\ Len(seq) \in 0..Len(seq) /\ 0 \in 0..Len(seq)
  BY LenProperties
<1>3. ASSUME NEW o \in Object, \A i \in 1..Len(seq) : seq[i].object # o
      PROVE  run[Len(seq)][o] = attributes[o]
  <2> DEFINE T == {n \in 0..Len(seq) : run[n][o] = attributes[o]}
  <2>1. 0 \in T
    BY <1>1, <1>2 DEF IsPutBackRun
  <2>2. ASSUME NEW n \in 0..(Len(seq) - 1), n \in T
        PROVE  n + 1 \in T
    <3>1. n + 1 \in 1..Len(seq) /\ n + 1 \in 0..Len(seq) /\ (n + 1) - 1 = n /\ n \in 0..Len(seq)
      BY <1>2
    <3>2. run[n + 1] = PutBack(run[n], seq[n + 1]) /\ run[n] \in [Object -> D]
      BY <1>1, <3>1 DEF IsPutBackRun
    <3>3. seq[n + 1].object # o
      BY <1>3, <3>1
    <3>4. run[n + 1][o] = run[n][o]
      BY <3>2, <3>3 DEF PutBack
    <3> QED
      BY <2>2, <3>1, <3>4
  <2> HIDE DEF T
  <2>3. \A n \in 0..Len(seq) : n \in T
    BY <1>2, <2>1, <2>2, Counting
  <2> QED
    BY <1>2, <2>3 DEF T
<1> QED
  BY <1>1, <1>2, <1>3 DEF IsPutBackRun, SameOutside

LEMMA SmartPutBackKeeps ==
  ASSUME NEW D, Absent \in D, NEW attributes \in [Object -> D],
         NEW seq \in Seq([object : Object, old : D, hadOwn : BOOLEAN])
  PROVE  LET result == FoldLeft(SmartPutBack, attributes, seq)
         IN  result \in [Object -> D] /\ SameOutside(result, attributes, seq)
<1>1. PICK run : IsSmartPutBackRun(run, D, attributes, seq)
  BY SmartPutBackRuns
<1>2. Len(seq) \in Nat /\ Len(seq) \in 0..Len(seq) /\ 0 \in 0..Len(seq)
  BY LenProperties
<1>3. ASSUME NEW o \in Object, \A i \in 1..Len(seq) : seq[i].object # o
      PROVE  run[Len(seq)][o] = attributes[o]
  <2> DEFINE T == {n \in 0..Len(seq) : run[n][o] = attributes[o]}
  <2>1. 0 \in T
    BY <1>1, <1>2 DEF IsSmartPutBackRun
  <2>2. ASSUME NEW n \in 0..(Len(seq) - 1), n \in T
        PROVE  n + 1 \in T
    <3>1. n + 1 \in 1..Len(seq) /\ n + 1 \in 0..Len(seq) /\ (n + 1) - 1 = n /\ n \in 0..Len(seq)
      BY <1>2
    <3>2. run[n + 1] = SmartPutBack(run[n], seq[n + 1]) /\ run[n] \in [Object -> D]
      BY <1>1, <3>1 DEF IsSmartPutBackRun
    <3>3. seq[n + 1].object # o
      BY <1>3, <3>1
    <3>4. run[n + 1][o] = run[n][o]
      BY <3>2, <3>3 DEF SmartPutBack
    <3> QED
      BY <2>2, <3>1, <3>4
  <2> HIDE DEF T
  <2>3. \A n \in 0..Len(seq) : n \in T
    BY <1>2, <2>1, <2>2, Counting
  <2> QED
    BY <1>2, <2>3 DEF T
<1> QED
  BY <1>1, <1>2, <1>3 DEF IsSmartPutBackRun, SameOutside

-----------------------------------------------------------------------------
(***************************************************************************)
(* The logs, and the order in which they are undone.                       *)
(***************************************************************************)
\* A set of numbers has a minimum.
LEMMA MinExists ==
  ASSUME NEW T \in SUBSET Nat, T # {}
  PROVE  Min(T) \in T /\ \A m \in T : Min(T) <= m
<1>1. \E n \in T : \A m \in T : n <= m
  BY LeastNumber
<1> QED
  BY <1>1 DEF Min

\* A log turned around.
LEMMA BackwardsProperties ==
  ASSUME NEW E, NEW log \in Seq(E)
  PROVE  /\ Backwards(log) \in Seq(E)
         /\ Len(Backwards(log)) = Len(log)
         /\ \A i \in 1..Len(log) : /\ Backwards(log)[i] = log[(Len(log) - i) + 1]
                                   /\ (Len(log) - i) + 1 \in 1..Len(log)
<1> DEFINE n == Len(log)
<1>1. n \in Nat /\ Len(log) = n
  BY LenProperties
<1>2. \A i \in 1..n : (n - i) + 1 \in 1..n
  BY <1>1
<1>3. \A i \in 1..n : log[(n - i) + 1] \in E
  BY <1>2, ElementOfSeq
<1>4. Backwards(log) = [i \in 1..n |-> log[(n - i) + 1]]
  BY DEF Backwards, Reverse
<1> HIDE DEF n
<1>5. Backwards(log) \in [1..n -> E]
  BY <1>3, <1>4
<1>6. Backwards(log) \in Seq(E)
  BY <1>1, <1>5, SeqDef
<1>7. Len(Backwards(log)) = n
  <2>1. DOMAIN Backwards(log) = 1..n /\ DOMAIN Backwards(log) = 1..Len(Backwards(log))
    BY <1>4, <1>6, LenProperties
  <2>2. Len(Backwards(log)) \in Nat
    BY <1>6, LenProperties
  <2> QED
    BY <1>1, <2>1, <2>2
<1> QED
  BY <1>1, <1>2, <1>4, <1>6, <1>7

\* What of a log is undone: its entries, and when none raises all of them, the last
\* one first.
LEMMA UndoneProperties ==
  ASSUME NEW E, NEW log \in Seq(E)
  PROVE  /\ Undone(log) \in Seq(E)
         /\ \A i \in 1..Len(Undone(log)) : \E j \in 1..Len(log) : Undone(log)[i] = log[j]
         /\ ~Fails(log) => /\ Len(Undone(log)) = Len(log)
                           /\ \A i \in 1..Len(log) :
                                Undone(log)[i] = log[(Len(log) - i) + 1]
<1> DEFINE order == Backwards(log)
           bad == {i \in DOMAIN order : order[i].object \in ReadOnly}
           last == IF bad = {} THEN Len(order) ELSE Min(bad) - 1
<1>1. /\ order \in Seq(E) /\ Len(order) = Len(log) /\ Len(log) \in Nat
      /\ DOMAIN order = 1..Len(log) /\ DOMAIN log = 1..Len(log)
      /\ \A i \in 1..Len(log) : /\ order[i] = log[(Len(log) - i) + 1]
                                /\ (Len(log) - i) + 1 \in 1..Len(log)
  BY BackwardsProperties, LenProperties
<1>2. Undone(log) = SubSeq(order, 1, last)
  BY DEF Undone
<1> HIDE DEF order
<1>3. last \in 0..Len(log)
  <2>1. CASE bad = {}
    BY <1>1, <2>1
  <2>2. CASE bad # {}
    <3>1. bad \in SUBSET Nat
      BY <1>1
    <3> HIDE DEF bad
    <3>2. Min(bad) \in bad
      BY <2>2, <3>1, MinExists
    <3>3. Min(bad) \in 1..Len(log)
      BY <1>1, <3>2 DEF bad
    <3> QED
      BY <1>1, <2>2, <3>3
  <2> QED
    BY <2>1, <2>2
<1>4. ~Fails(log) => last = Len(log)
  BY <1>1 DEF Fails
<1> HIDE DEF last
<1>5. /\ SubSeq(order, 1, last) \in Seq(E)
      /\ Len(SubSeq(order, 1, last)) = last
      /\ \A i \in 1..last : SubSeq(order, 1, last)[i] = order[i]
  <2>1. last \in Int /\ 1 \in Int /\ \A i \in 1..last : order[i] \in E /\ i \in 1..Len(log)
    BY <1>1, <1>3, ElementOfSeq
  <2>2. /\ SubSeq(order, 1, last) \in Seq(E)
        /\ Len(SubSeq(order, 1, last)) = IF 1 <= last THEN last - 1 + 1 ELSE 0
        /\ \A i \in 1..(last - 1 + 1) : SubSeq(order, 1, last)[i] = order[1 + i - 1]
    BY <2>1, SubSeqProperties
  <2>3. \A i \in 1..last : i \in 1..(last - 1 + 1) /\ 1 + i - 1 = i
    BY <1>3
  <2> QED
    BY <1>3, <2>2, <2>3
<1>6. \A i \in 1..last : i \in 1..Len(log)
  BY <1>1, <1>3
<1>7. /\ Undone(log) \in Seq(E) /\ Len(Undone(log)) = last
      /\ \A i \in 1..last : Undone(log)[i] = order[i]
  BY <1>2, <1>5
<1>8. \A i \in 1..last : /\ Undone(log)[i] = log[(Len(log) - i) + 1]
                         /\ (Len(log) - i) + 1 \in 1..Len(log)
  BY <1>1, <1>6, <1>7
<1> QED
  BY <1>4, <1>7, <1>8

\* What is left of a log: nothing, or, when one of its entries raises, the log turned
\* around.
LEMMA LogAfterProperties ==
  ASSUME NEW E, NEW log \in Seq(E)
  PROVE  /\ LogAfter(log) \in Seq(E)
         /\ Len(LogAfter(log)) <= Len(log)
         /\ ~Fails(log) => LogAfter(log) = <<>>
         /\ Fails(log) => /\ Fails(LogAfter(log))
                          /\ \A i \in DOMAIN log : \E j \in DOMAIN LogAfter(log) :
                               LogAfter(log)[j] = log[i]
<1> DEFINE n == Len(log)
           back == Backwards(log)
<1>1. /\ back \in Seq(E) /\ Len(back) = n /\ n \in Nat
      /\ DOMAIN back = 1..n /\ DOMAIN log = 1..n
      /\ \A i \in 1..n : back[i] = log[(n - i) + 1] /\ (n - i) + 1 \in 1..n
  BY BackwardsProperties, LenProperties
<1>2. <<>> \in Seq(E) /\ Len(<<>>) = 0
  BY EmptySeq
<1>3. ASSUME Fails(log)
      PROVE  /\ LogAfter(log) = back /\ Fails(back)
             /\ \A i \in DOMAIN log : \E j \in DOMAIN back : back[j] = log[i]
  <2> HIDE DEF back
  <2>1. \A i \in 1..n : (n - ((n - i) + 1)) + 1 = i
    BY <1>1
  <2>2. ASSUME NEW i \in DOMAIN log
        PROVE  \E j \in DOMAIN back : back[j] = log[i]
    <3>1. i \in 1..n /\ (n - i) + 1 \in 1..n
      BY <1>1
    <3>2. back[(n - i) + 1] = log[(n - ((n - i) + 1)) + 1]
      BY <1>1, <3>1
    <3> QED
      BY <1>1, <2>1, <3>1, <3>2
  <2>3. Fails(back)
    BY <1>3, <2>2 DEF Fails
  <2> QED
    BY <1>3, <2>2, <2>3 DEF LogAfter, back
<1>4. ~Fails(log) => LogAfter(log) = <<>>
  BY DEF LogAfter
<1> HIDE DEF back
<1>5. CASE Fails(log)
  BY <1>1, <1>3, <1>5
<1>6. CASE ~Fails(log)
  BY <1>1, <1>2, <1>4, <1>6
<1> QED
  BY <1>5, <1>6

-----------------------------------------------------------------------------
(***************************************************************************)
(* Undoing a log gives the originals back.                                 *)
(***************************************************************************)
\* What a dictionary holds when no method is bound to an object.
Plain == {a \in Attribute : a.kind # "bound" /\ a.self = NoObject}

Logs == Seq([object : Object \ Smart, old : Plain])

SmartLogs == Seq([object : Smart, old : Plain, hadOwn : BOOLEAN])

\* The j-th entry of a log is the first one of its object.
FirstOf(log, j) == \A k \in 1..(j - 1) : log[k].object # log[j].object

\* Undoing the first m entries gives the originals back: an object that is not among
\* them is as it was, and the first entry of each other object holds its original.
Rewinds(attributes, log, m) ==
  /\ \A o \in Object \ Smart :
       (\A j \in 1..m : log[j].object # o) => attributes[o] = original[o]
  /\ \A j \in 1..m : FirstOf(log, j) => BringsBack(log[j])

\* The same of the log of smart_set.  Only the first entry of an object can have been
\* made of an inherited attribute, so only undoing that one deletes it.
SmartRewinds(attributes, log, m) ==
  /\ \A o \in Smart :
       (\A j \in 1..m : log[j].object # o) => attributes[o] = original[o]
  /\ \A j \in 1..m :
       /\ attributes[log[j].object] # Absent
       /\ IF FirstOf(log, j) THEN SmartBringsBack(log[j])
                             ELSE log[j].hadOwn /\ log[j].old # Absent

\* A turn of the loop of unset_all.
LEMMA RewindsTurn ==
  ASSUME NEW log \in Logs, NEW m \in 1..Len(log),
         NEW attributes \in [Object -> Plain], Rewinds(attributes, log, m)
  PROVE  Rewinds(PutBack(attributes, log[m]), log, m - 1)
<1> DEFINE result == PutBack(attributes, log[m])
           o == log[m].object
<1>1. /\ Len(log) \in Nat /\ m \in 1..m
      /\ \A j \in 1..m : j \in 1..(m - 1) \/ j = m
      /\ \A j \in 1..(m - 1) : j \in 1..m
  BY LenProperties DEF Logs
<1>2. log[m] \in [object : Object \ Smart, old : Plain]
  BY ElementOfSeq DEF Logs
<1>3. \A x \in Object : result[x] = IF x = o THEN log[m].old ELSE attributes[x]
  BY <1>2 DEF PutBack
<1> HIDE DEF result, o
<1>4. ASSUME NEW x \in Object \ Smart, \A j \in 1..(m - 1) : log[j].object # x
      PROVE  result[x] = original[x]
  <2>1. CASE x = o
    <3>1. FirstOf(log, m)
      BY <1>4, <2>1 DEF FirstOf, o
    <3>2. BringsBack(log[m])
      BY <1>1, <3>1 DEF Rewinds
    <3> QED
      BY <1>3, <2>1, <3>2 DEF BringsBack, o
  <2>2. CASE x # o
    <3>1. \A j \in 1..m : log[j].object # x
      BY <1>1, <1>4, <2>2 DEF o
    <3> QED
      BY <1>3, <2>2, <3>1 DEF Rewinds
  <2> QED
    BY <2>1, <2>2
<1>5. \A j \in 1..(m - 1) : FirstOf(log, j) => BringsBack(log[j])
  BY <1>1 DEF Rewinds
<1> QED
  BY <1>4, <1>5 DEF Rewinds, result

\* A turn of the loop of smart_unset_all.
LEMMA SmartRewindsTurn ==
  ASSUME NEW log \in SmartLogs, NEW m \in 1..Len(log),
         NEW attributes \in [Object -> Plain], SmartRewinds(attributes, log, m)
  PROVE  SmartRewinds(SmartPutBack(attributes, log[m]), log, m - 1)
<1> DEFINE result == SmartPutBack(attributes, log[m])
           o == log[m].object
<1>1. /\ Len(log) \in Nat /\ m \in 1..m /\ m \in Nat
      /\ \A j \in 1..m : j \in 1..(m - 1) \/ j = m
      /\ \A j \in 1..(m - 1) : j \in 1..m
  BY LenProperties DEF SmartLogs
<1>2. \A j \in 1..m : log[j] \in [object : Smart, old : Plain, hadOwn : BOOLEAN]
  <2>1. \A j \in 1..m : j \in 1..Len(log)
    BY <1>1
  <2> QED
    BY <2>1, ElementOfSeq DEF SmartLogs
<1>3. o \in Object /\ o \in Smart
  BY <1>1, <1>2, ObjectAssumption
<1>4. attributes[o] # Absent
  BY <1>1 DEF SmartRewinds
<1>5. \A x \in Object : result[x] = IF x # o THEN attributes[x]
                                    ELSE IF log[m].hadOwn THEN log[m].old ELSE Absent
  BY <1>3, <1>4 DEF SmartPutBack
<1> HIDE DEF result, o
<1>6. ASSUME NEW x \in Smart, \A j \in 1..(m - 1) : log[j].object # x
      PROVE  result[x] = original[x]
  <2>1. CASE x = o
    <3>1. FirstOf(log, m)
      BY <1>6, <2>1 DEF FirstOf, o
    <3>2. SmartBringsBack(log[m])
      BY <1>1, <3>1 DEF SmartRewinds
    <3> QED
      BY <1>3, <1>5, <2>1, <3>2 DEF SmartBringsBack, o
  <2>2. CASE x # o
    <3>1. \A j \in 1..m : log[j].object # x
      BY <1>1, <1>6, <2>2 DEF o
    <3>2. x \in Object
      BY ObjectAssumption
    <3> QED
      BY <1>5, <2>2, <3>1, <3>2 DEF SmartRewinds
  <2> QED
    BY <2>1, <2>2
<1>7. ASSUME NEW j \in 1..(m - 1)
      PROVE  /\ result[log[j].object] # Absent
             /\ IF FirstOf(log, j) THEN SmartBringsBack(log[j])
                                   ELSE log[j].hadOwn /\ log[j].old # Absent
  <2>1. CASE log[j].object = o
    <3>1. ~FirstOf(log, m)
      BY <2>1 DEF FirstOf, o
    <3>2. log[m].hadOwn /\ log[m].old # Absent
      BY <1>1, <3>1 DEF SmartRewinds
    <3> QED
      BY <1>1, <1>3, <1>5, <2>1, <3>2 DEF SmartRewinds
  <2>2. CASE log[j].object # o
    <3>1. log[j].object \in Object
      BY <1>1, <1>2, ObjectAssumption
    <3> QED
      BY <1>1, <1>5, <2>2, <3>1 DEF SmartRewinds
  <2> QED
    BY <2>1, <2>2
<1> QED
  BY <1>6, <1>7 DEF SmartRewinds, result

\* Some facts about logs of plain attributes.
LEMMA LogsType ==
  /\ Absent \in Plain /\ Plain \subseteq Attribute
  /\ Logs \subseteq Seq([object : Object, old : Plain])
  /\ SmartLogs \subseteq Seq([object : Object, old : Plain, hadOwn : BOOLEAN])
<1>1. Absent \in Plain /\ Plain \subseteq Attribute
  BY DEF Absent, Plain, Attribute
<1>2. Smart \subseteq Object
  BY ObjectAssumption
<1>3. ASSUME NEW log \in Logs
      PROVE  log \in Seq([object : Object, old : Plain])
  <2> DEFINE E == [object : Object \ Smart, old : Plain]
             F == [object : Object, old : Plain]
  <2>1. E \subseteq F
    OBVIOUS
  <2>2. log \in Seq(E)
    BY DEF Logs
  <2> HIDE DEF E, F
  <2>3. log \in Seq(F)
    BY <2>1, <2>2, SeqMonotonic
  <2> QED
    BY <2>3 DEF F
<1>4. ASSUME NEW log \in SmartLogs
      PROVE  log \in Seq([object : Object, old : Plain, hadOwn : BOOLEAN])
  <2>1. [object : Smart, old : Plain, hadOwn : BOOLEAN] \subseteq
          [object : Object, old : Plain, hadOwn : BOOLEAN]
    BY <1>2
  <2> QED
    BY <2>1, SeqMonotonic DEF SmartLogs
<1> QED
  BY <1>1, <1>3, <1>4

\* What a log that can be undone leaves: the originals of the objects that are stubbed
\* with set, ...
LEMMA Rewound ==
  ASSUME NEW attributes \in [Object -> Plain], NEW log \in Logs, ~Fails(log),
         Rewinds(attributes, log, Len(log))
  PROVE  \A o \in Object \ Smart :
           FoldLeft(PutBack, attributes, Undone(log))[o] = original[o]
<1> DEFINE N == Len(log)
           seq == Undone(log)
<1>1. /\ N \in Nat /\ Len(seq) = N /\ seq \in Seq([object : Object, old : Plain])
      /\ \A i \in 1..N : seq[i] = log[(N - i) + 1]
  <2>1. log \in Seq([object : Object, old : Plain])
    BY LogsType
  <2> QED
    BY <2>1, LenProperties, UndoneProperties
<1> HIDE DEF seq
<1>2. PICK run : IsPutBackRun(run, Plain, attributes, seq)
  BY <1>1, PutBackRuns
<1> HIDE DEF N
<1>3. /\ run[0] = attributes /\ run[N] = FoldLeft(PutBack, attributes, seq)
      /\ \A n \in 0..N : run[n] \in [Object -> Plain]
      /\ \A n \in 1..N : run[n] = PutBack(run[n - 1], seq[n])
  BY <1>1, <1>2 DEF IsPutBackRun
<1> DEFINE T == {n \in 0..N : Rewinds(run[n], log, N - n)}
<1>4. 0 \in T
  <2>1. 0 \in 0..N /\ N - 0 = N
    BY <1>1
  <2> QED
    BY <1>3, <2>1 DEF N
<1>5. ASSUME NEW n \in 0..(N - 1), n \in T
      PROVE  n + 1 \in T
  <2>1. /\ n + 1 \in 1..N /\ n + 1 \in 0..N /\ (n + 1) - 1 = n /\ n \in 0..N
        /\ N - n \in 1..N /\ (N - (n + 1)) + 1 = N - n /\ (N - n) - 1 = N - (n + 1)
    BY <1>1
  <2>2. run[n + 1] = PutBack(run[n], log[N - n])
    BY <1>1, <1>3, <2>1
  <2>3. Rewinds(run[n], log, N - n) /\ run[n] \in [Object -> Plain]
    BY <1>3, <1>5, <2>1
  <2>4. Rewinds(PutBack(run[n], log[N - n]), log, (N - n) - 1)
    BY <2>1, <2>3, RewindsTurn DEF N
  <2> QED
    BY <2>1, <2>2, <2>4
<1> HIDE DEF T
<1>6. \A n \in 0..N : n \in T
  BY <1>1, <1>4, <1>5, Counting
<1>7. Rewinds(run[N], log, 0)
  <2>1. N \in 0..N /\ N - N = 0
    BY <1>1
  <2>2. N \in T
    BY <1>6, <2>1
  <2> QED
    BY <2>1, <2>2 DEF T
<1>8. 1..0 = {}
  OBVIOUS
<1> QED
  BY <1>3, <1>7, <1>8 DEF Rewinds, seq

\* ... and of those that are stubbed with smart_set.
LEMMA SmartRewound ==
  ASSUME NEW attributes \in [Object -> Plain], NEW log \in SmartLogs, ~Fails(log),
         SmartRewinds(attributes, log, Len(log))
  PROVE  \A o \in Smart :
           FoldLeft(SmartPutBack, attributes, Undone(log))[o] = original[o]
<1> DEFINE N == Len(log)
           seq == Undone(log)
<1>1. /\ N \in Nat /\ Len(seq) = N /\ seq \in Seq([object : Object, old : Plain, hadOwn : BOOLEAN])
      /\ \A i \in 1..N : seq[i] = log[(N - i) + 1]
  <2>1. log \in Seq([object : Object, old : Plain, hadOwn : BOOLEAN])
    BY LogsType
  <2> QED
    BY <2>1, LenProperties, UndoneProperties
<1> HIDE DEF seq
<1>2. PICK run : IsSmartPutBackRun(run, Plain, attributes, seq)
  BY <1>1, LogsType, SmartPutBackRuns
<1> HIDE DEF N
<1>3. /\ run[0] = attributes /\ run[N] = FoldLeft(SmartPutBack, attributes, seq)
      /\ \A n \in 0..N : run[n] \in [Object -> Plain]
      /\ \A n \in 1..N : run[n] = SmartPutBack(run[n - 1], seq[n])
  BY <1>1, <1>2 DEF IsSmartPutBackRun
<1> DEFINE T == {n \in 0..N : SmartRewinds(run[n], log, N - n)}
<1>4. 0 \in T
  <2>1. 0 \in 0..N /\ N - 0 = N
    BY <1>1
  <2> QED
    BY <1>3, <2>1 DEF N
<1>5. ASSUME NEW n \in 0..(N - 1), n \in T
      PROVE  n + 1 \in T
  <2>1. /\ n + 1 \in 1..N /\ n + 1 \in 0..N /\ (n + 1) - 1 = n /\ n \in 0..N
        /\ N - n \in 1..N /\ (N - (n + 1)) + 1 = N - n /\ (N - n) - 1 = N - (n + 1)
    BY <1>1
  <2>2. run[n + 1] = SmartPutBack(run[n], log[N - n])
    BY <1>1, <1>3, <2>1
  <2>3. SmartRewinds(run[n], log, N - n) /\ run[n] \in [Object -> Plain]
    BY <1>3, <1>5, <2>1
  <2>4. SmartRewinds(SmartPutBack(run[n], log[N - n]), log, (N - n) - 1)
    BY <2>1, <2>3, SmartRewindsTurn DEF N
  <2> QED
    BY <2>1, <2>2, <2>4
<1> HIDE DEF T
<1>6. \A n \in 0..N : n \in T
  BY <1>1, <1>4, <1>5, Counting
<1>7. SmartRewinds(run[N], log, 0)
  <2>1. N \in 0..N /\ N - N = 0
    BY <1>1
  <2>2. N \in T
    BY <1>6, <2>1
  <2> QED
    BY <2>1, <2>2 DEF T
<1>8. 1..0 = {}
  OBVIOUS
<1> QED
  BY <1>3, <1>7, <1>8 DEF SmartRewinds, seq

-----------------------------------------------------------------------------
(***************************************************************************)
(* What is kept of the originals, and how set and unset_all keep it.       *)
(***************************************************************************)
\* An object is as it was and not in the log, or the log has its original.
Keeps(attributes, log) ==
  \A o \in Object \ Smart :
    \/ attributes[o] = original[o] /\ \A i \in DOMAIN log : log[i].object # o
    \/ \E i \in DOMAIN log : log[i].object = o /\ BringsBack(log[i])

SmartKeeps(attributes, log) ==
  \A o \in Smart :
    \/ attributes[o] = original[o] /\ \A i \in DOMAIN log : log[i].object # o
    \/ \E i \in DOMAIN log : log[i].object = o /\ SmartBringsBack(log[i])

\* The log has the originals, and in the right order unless it cannot be undone.
Restores(attributes, log) ==
  /\ Keeps(attributes, log)
  /\ ~Fails(log) => Rewinds(attributes, log, Len(log))

SmartRestores(attributes, log) ==
  /\ SmartKeeps(attributes, log)
  /\ ~Fails(log) => SmartRewinds(attributes, log, Len(log))

\* It is only about the objects stubbed with set, ...
LEMMA RestoresFrame ==
  ASSUME NEW attributes, NEW log \in Logs, Restores(attributes, log), NEW other,
         \A o \in Object \ Smart : other[o] = attributes[o]
  PROVE  Restores(other, log)
<1>1. Keeps(attributes, log) => Keeps(other, log)
  BY DEF Keeps
<1>2. Rewinds(attributes, log, Len(log)) => Rewinds(other, log, Len(log))
  BY DEF Rewinds
<1> QED
  BY <1>1, <1>2 DEF Restores

\* ... and with smart_set.
LEMMA SmartRestoresFrame ==
  ASSUME NEW attributes, NEW log \in SmartLogs, SmartRestores(attributes, log), NEW other,
         \A o \in Smart : other[o] = attributes[o]
  PROVE  SmartRestores(other, log)
<1>1. SmartKeeps(attributes, log) => SmartKeeps(other, log)
  BY DEF SmartKeeps
<1>2. \A j \in 1..Len(log) : log[j].object \in Smart
  <2> DEFINE E == [object : Smart, old : Plain, hadOwn : BOOLEAN]
  <2>1. log \in Seq(E)
    BY DEF SmartLogs
  <2> HIDE DEF E
  <2>2. \A j \in 1..Len(log) : log[j] \in E
    BY <2>1, ElementOfSeq
  <2> QED
    BY <2>2 DEF E
<1>3. SmartRewinds(attributes, log, Len(log)) => SmartRewinds(other, log, Len(log))
  BY <1>2 DEF SmartRewinds
<1> QED
  BY <1>1, <1>3 DEF SmartRestores

\* Nothing stubbed, nothing to be restored.
LEMMA RestoresNothing ==
  ASSUME NEW attributes
  PROVE  /\ (\A o \in Object \ Smart : attributes[o] = original[o]) => Restores(attributes, <<>>)
         /\ (\A o \in Smart : attributes[o] = original[o]) => SmartRestores(attributes, <<>>)
<1>1. Len(<<>>) = 0 /\ DOMAIN <<>> = {} /\ 1..0 = {}
  BY EmptySeq
<1> QED
  BY <1>1 DEF Restores, Keeps, Rewinds, SmartRestores, SmartKeeps, SmartRewinds

\* What an appended entry changes of a log.
Appended(longer, log, entry) ==
  LET n == Len(log)
  IN  /\ n \in Nat /\ Len(longer) = n + 1
      /\ DOMAIN log = 1..n /\ DOMAIN longer = 1..(n + 1)
      /\ longer[n + 1] = entry /\ n + 1 \in 1..(n + 1)
      /\ \A j \in 1..n : longer[j] = log[j] /\ j \in 1..(n + 1)
      /\ \A j \in 1..(n + 1) : j \in 1..n \/ j = n + 1
      /\ \A j \in 1..n : FirstOf(longer, j) <=> FirstOf(log, j)
      /\ FirstOf(longer, n + 1) <=> \A j \in 1..n : log[j].object # entry.object

LEMMA AppendedEntry ==
  ASSUME NEW E, NEW log \in Seq(E), NEW entry \in E
  PROVE  Append(log, entry) \in Seq(E) /\ Appended(Append(log, entry), log, entry)
<1> DEFINE longer == Append(log, entry)
           n == Len(log)
<1>1. /\ longer \in Seq(E) /\ Len(longer) = n + 1 /\ n \in Nat
      /\ longer[n + 1] = entry /\ \A j \in 1..n : longer[j] = log[j]
  BY AppendProperties, LenProperties
<1>2. DOMAIN log = 1..n /\ DOMAIN longer = 1..(n + 1)
  BY <1>1, LenProperties
<1> HIDE DEF longer, n
<1>3. /\ \A j \in 1..n : j \in 1..(n + 1)
      /\ \A j \in 1..(n + 1) : j \in 1..n \/ j = n + 1
      /\ (n + 1) - 1 = n
  BY <1>1
<1>4. ASSUME NEW j \in 1..n
      PROVE  FirstOf(longer, j) <=> FirstOf(log, j)
  <2>1. \A k \in 1..(j - 1) : k \in 1..n
    BY <1>1
  <2> QED
    BY <1>1, <2>1 DEF FirstOf
<1>5. FirstOf(longer, n + 1) <=> \A j \in 1..n : log[j].object # entry.object
  BY <1>1, <1>3 DEF FirstOf
<1>6. n + 1 \in 1..(n + 1)
  BY <1>1
<1>7. Appended(longer, log, entry)
  BY <1>1, <1>2, <1>3, <1>4, <1>5, <1>6 DEF Appended, n
<1> QED
  BY <1>1, <1>7 DEF longer

\* set keeps the originals, also when its setattr raises: the entry is in the log then.
LEMMA RestoresSet ==
  ASSUME NEW attributes \in [Object -> Plain], NEW log \in Logs, Restores(attributes, log),
         NEW o \in Object \ Smart, NEW value,
         NEW entry \in [object : Object \ Smart, old : Plain],
         entry.object = o, entry.old = attributes[o]
  PROVE  LET new == IF o \in ReadOnly THEN attributes ELSE [attributes EXCEPT ![o] = value]
         IN  Restores(new, Append(log, entry))
<1> DEFINE new == IF o \in ReadOnly THEN attributes ELSE [attributes EXCEPT ![o] = value]
           longer == Append(log, entry)
           n == Len(log)
<1>1. /\ n \in Nat /\ Len(longer) = n + 1
      /\ DOMAIN log = 1..n /\ DOMAIN longer = 1..(n + 1)
      /\ longer[n + 1] = entry /\ n + 1 \in 1..(n + 1)
      /\ \A j \in 1..n : longer[j] = log[j] /\ j \in 1..(n + 1)
      /\ \A j \in 1..(n + 1) : j \in 1..n \/ j = n + 1
      /\ \A j \in 1..n : FirstOf(longer, j) <=> FirstOf(log, j)
      /\ FirstOf(longer, n + 1) <=> \A j \in 1..n : log[j].object # entry.object
  <2>1. log \in Seq([object : Object \ Smart, old : Plain])
    BY DEF Logs
  <2>2. Appended(longer, log, entry)
    BY <2>1, AppendedEntry
  <2> HIDE DEF longer
  <2> QED
    BY <2>2 DEF Appended
<1>2. \A x \in Object \ Smart : x # o => new[x] = attributes[x]
  OBVIOUS
<1> HIDE DEF longer, n, new
<1>3. Keeps(attributes, log) /\ (~Fails(log) => Rewinds(attributes, log, n))
  BY DEF Restores, n
<1>4. Keeps(new, longer)
  <2> SUFFICES ASSUME NEW x \in Object \ Smart
               PROVE  \/ /\ new[x] = original[x]
                         /\ \A i \in DOMAIN longer : longer[i].object # x
                      \/ \E i \in DOMAIN longer : longer[i].object = x /\ BringsBack(longer[i])
    BY DEF Keeps
  <2>1. CASE \E i \in DOMAIN log : log[i].object = x /\ BringsBack(log[i])
    BY <1>1, <2>1
  <2>2. CASE attributes[x] = original[x] /\ \A i \in DOMAIN log : log[i].object # x
    <3>1. CASE x = o
      <4>1. BringsBack(entry) /\ entry.object = x
        BY <2>2, <3>1 DEF BringsBack
      <4> QED
        BY <1>1, <4>1
    <3>2. CASE x # o
      <4>1. \A i \in DOMAIN longer : longer[i].object # x
        BY <1>1, <2>2, <3>2
      <4> QED
        BY <1>2, <2>2, <3>2, <4>1
    <3> QED
      BY <3>1, <3>2
  <2> QED
    BY <1>3, <2>1, <2>2 DEF Keeps
<1>5. ASSUME ~Fails(longer)
      PROVE  Rewinds(new, longer, n + 1)
  <2>1. ~Fails(log)
    BY <1>1, <1>5 DEF Fails
  <2>2. /\ \A x \in Object \ Smart :
             (\A j \in 1..n : log[j].object # x) => attributes[x] = original[x]
        /\ \A j \in 1..n : FirstOf(log, j) => BringsBack(log[j])
    BY <1>3, <2>1 DEF Rewinds
  <2>3. ASSUME NEW x \in Object \ Smart, \A j \in 1..(n + 1) : longer[j].object # x
        PROVE  new[x] = original[x]
    <3>1. x # o /\ \A j \in 1..n : log[j].object # x
      BY <1>1, <2>3
    <3> QED
      BY <1>2, <2>2, <3>1
  <2>4. ASSUME NEW j \in 1..(n + 1), FirstOf(longer, j)
        PROVE  BringsBack(longer[j])
    <3>1. CASE j \in 1..n
      BY <1>1, <2>2, <2>4, <3>1
    <3>2. CASE j = n + 1
      <4>1. attributes[o] = original[o]
        BY <1>1, <2>2, <2>4, <3>2
      <4> QED
        BY <1>1, <3>2, <4>1 DEF BringsBack
    <3> QED
      BY <1>1, <3>1, <3>2
  <2> QED
    BY <2>3, <2>4 DEF Rewinds
<1>6. Restores(new, longer)
  BY <1>1, <1>4, <1>5 DEF Restores
<1> QED
  BY <1>6 DEF new, longer

\* smart_set keeps the originals, too.
LEMMA SmartRestoresSet ==
  ASSUME NEW attributes \in [Object -> Plain], NEW log \in SmartLogs,
         SmartRestores(attributes, log), NEW o \in Smart, NEW value, value # Absent,
         NEW entry \in [object : Smart, old : Plain, hadOwn : BOOLEAN],
         entry.object = o, entry.hadOwn <=> attributes[o] # Absent,
         attributes[o] # Absent => entry.old = attributes[o]
  PROVE  LET new == IF o \in ReadOnly THEN attributes ELSE [attributes EXCEPT ![o] = value]
         IN  SmartRestores(new, Append(log, entry))
<1> DEFINE new == IF o \in ReadOnly THEN attributes ELSE [attributes EXCEPT ![o] = value]
           longer == Append(log, entry)
           n == Len(log)
<1>1. /\ n \in Nat /\ Len(longer) = n + 1
      /\ DOMAIN log = 1..n /\ DOMAIN longer = 1..(n + 1)
      /\ longer[n + 1] = entry /\ n + 1 \in 1..(n + 1)
      /\ \A j \in 1..n : longer[j] = log[j] /\ j \in 1..(n + 1)
      /\ \A j \in 1..(n + 1) : j \in 1..n \/ j = n + 1
      /\ \A j \in 1..n : FirstOf(longer, j) <=> FirstOf(log, j)
      /\ FirstOf(longer, n + 1) <=> \A j \in 1..n : log[j].object # entry.object
  <2>1. log \in Seq([object : Smart, old : Plain, hadOwn : BOOLEAN])
    BY DEF SmartLogs
  <2>2. Appended(longer, log, entry)
    BY <2>1, AppendedEntry
  <2> HIDE DEF longer
  <2> QED
    BY <2>2 DEF Appended
<1>2. \A x \in Smart : x # o => new[x] = attributes[x]
  BY ObjectAssumption
<1>3. o \notin ReadOnly => new[o] = value
  BY ObjectAssumption
<1> HIDE DEF longer, n, new
<1>4. SmartKeeps(attributes, log) /\ (~Fails(log) => SmartRewinds(attributes, log, n))
  BY DEF SmartRestores, n
<1>5. attributes[o] = original[o] => SmartBringsBack(entry)
  BY DEF SmartBringsBack
<1>6. SmartKeeps(new, longer)
  <2> SUFFICES ASSUME NEW x \in Smart
               PROVE  \/ /\ new[x] = original[x]
                         /\ \A i \in DOMAIN longer : longer[i].object # x
                      \/ \E i \in DOMAIN longer :
                           longer[i].object = x /\ SmartBringsBack(longer[i])
    BY DEF SmartKeeps
  <2>1. CASE \E i \in DOMAIN log : log[i].object = x /\ SmartBringsBack(log[i])
    BY <1>1, <2>1
  <2>2. CASE attributes[x] = original[x] /\ \A i \in DOMAIN log : log[i].object # x
    <3>1. CASE x = o
      BY <1>1, <1>5, <2>2, <3>1
    <3>2. CASE x # o
      <4>1. \A i \in DOMAIN longer : longer[i].object # x
        BY <1>1, <2>2, <3>2
      <4> QED
        BY <1>2, <2>2, <3>2, <4>1
    <3> QED
      BY <3>1, <3>2
  <2> QED
    BY <1>4, <2>1, <2>2 DEF SmartKeeps
<1>7. ASSUME ~Fails(longer)
      PROVE  SmartRewinds(new, longer, n + 1)
  <2>1. ~Fails(log) /\ o \notin ReadOnly
    BY <1>1, <1>7 DEF Fails
  <2>2. /\ \A x \in Smart :
             (\A j \in 1..n : log[j].object # x) => attributes[x] = original[x]
        /\ \A j \in 1..n :
             /\ attributes[log[j].object] # Absent
             /\ IF FirstOf(log, j) THEN SmartBringsBack(log[j])
                                   ELSE log[j].hadOwn /\ log[j].old # Absent
    BY <1>4, <2>1 DEF SmartRewinds
  <2>3. ASSUME NEW x \in Smart, \A j \in 1..(n + 1) : longer[j].object # x
        PROVE  new[x] = original[x]
    <3>1. x # o /\ \A j \in 1..n : log[j].object # x
      BY <1>1, <2>3
    <3> QED
      BY <1>2, <2>2, <3>1
  <2>4. ASSUME NEW j \in 1..(n + 1)
        PROVE  /\ new[longer[j].object] # Absent
               /\ IF FirstOf(longer, j) THEN SmartBringsBack(longer[j])
                                        ELSE longer[j].hadOwn /\ longer[j].old # Absent
    <3>1. CASE j \in 1..n
      <4>1. longer[j] = log[j] /\ log[j].object \in Smart
        <5>1. j \in 1..Len(log)
          BY <3>1 DEF n
        <5>2. log[j] \in [object : Smart, old : Plain, hadOwn : BOOLEAN]
          BY <5>1, ElementOfSeq DEF SmartLogs
        <5> QED
          BY <1>1, <3>1, <5>2
      <4>2. new[log[j].object] # Absent
        BY <1>2, <1>3, <2>1, <2>2, <3>1, <4>1
      <4> QED
        BY <1>1, <2>2, <3>1, <4>1, <4>2
    <3>2. CASE j = n + 1
      <4>1. CASE FirstOf(longer, j)
        <5>1. attributes[o] = original[o]
          BY <1>1, <2>2, <3>2, <4>1
        <5>2. longer[j] = entry /\ SmartBringsBack(entry)
          BY <1>1, <1>5, <3>2, <5>1
        <5>3. new[longer[j].object] # Absent
          BY <1>3, <2>1, <5>2
        <5> QED
          BY <4>1, <5>2, <5>3
      <4>2. CASE ~FirstOf(longer, j)
        <5>1. PICK k \in 1..n : log[k].object = o
          BY <1>1, <3>2, <4>2
        <5>2. attributes[o] # Absent
          BY <2>2, <5>1
        <5> QED
          BY <1>1, <1>3, <2>1, <3>2, <4>2, <5>2
      <4> QED
        BY <4>1, <4>2
    <3> QED
      BY <1>1, <3>1, <3>2
  <2> QED
    BY <2>3, <2>4 DEF SmartRewinds
<1>8. SmartRestores(new, longer)
  BY <1>1, <1>6, <1>7 DEF SmartRestores
<1> QED
  BY <1>8 DEF new, longer

\* Undoing leaves plain attributes.
LEMMA PlainUnset ==
  ASSUME NEW attributes \in [Object -> Plain], NEW log \in Logs
  PROVE  /\ FoldLeft(PutBack, attributes, Undone(log)) \in [Object -> Plain]
         /\ LogAfter(log) \in Logs
<1>1. log \in Seq([object : Object, old : Plain])
  BY LogsType
<1>2. Undone(log) \in Seq([object : Object, old : Plain])
  BY <1>1, UndoneProperties
<1>3. FoldLeft(PutBack, attributes, Undone(log)) \in [Object -> Plain]
  BY <1>2, PutBackKeeps
<1>4. LogAfter(log) \in Logs
  BY LogAfterProperties DEF Logs
<1> QED
  BY <1>3, <1>4

LEMMA SmartPlainUnset ==
  ASSUME NEW attributes \in [Object -> Plain], NEW log \in SmartLogs
  PROVE  /\ FoldLeft(SmartPutBack, attributes, Undone(log)) \in [Object -> Plain]
         /\ LogAfter(log) \in SmartLogs
<1>1. log \in Seq([object : Object, old : Plain, hadOwn : BOOLEAN])
  BY LogsType
<1>2. Undone(log) \in Seq([object : Object, old : Plain, hadOwn : BOOLEAN])
  BY <1>1, UndoneProperties
<1>3. FoldLeft(SmartPutBack, attributes, Undone(log)) \in [Object -> Plain]
  BY <1>2, LogsType, SmartPutBackKeeps
<1>4. LogAfter(log) \in SmartLogs
  BY LogAfterProperties DEF SmartLogs
<1> QED
  BY <1>3, <1>4

\* unset_all keeps the originals; when it does not raise, all is as it was.
LEMMA RestoresUnset ==
  ASSUME NEW attributes \in [Object -> Plain], NEW log \in Logs, Restores(attributes, log)
  PROVE  LET new == FoldLeft(PutBack, attributes, Undone(log))
         IN  /\ new \in [Object -> Plain]
             /\ LogAfter(log) \in Logs
             /\ \A o \in Smart : new[o] = attributes[o]
             /\ Restores(new, LogAfter(log))
             /\ ~Fails(log) => Restores(new, <<>>)
<1> DEFINE new == FoldLeft(PutBack, attributes, Undone(log))
<1>1. log \in Seq([object : Object, old : Plain]) /\ Smart \subseteq Object
  BY LogsType, ObjectAssumption
<1>2. /\ Undone(log) \in Seq([object : Object, old : Plain])
      /\ \A i \in 1..Len(Undone(log)) : \E j \in 1..Len(log) : Undone(log)[i] = log[j]
  BY <1>1, UndoneProperties
<1>3. new \in [Object -> Plain] /\ SameOutside(new, attributes, Undone(log))
  BY <1>2, PutBackKeeps
<1>4. /\ DOMAIN log = 1..Len(log)
      /\ \A j \in 1..Len(log) : log[j] \in [object : Object \ Smart, old : Plain]
  BY LenProperties, ElementOfSeq DEF Logs
<1>5. \A o \in Smart : new[o] = attributes[o]
  <2> HIDE DEF new
  <2> QED
    BY <1>1, <1>2, <1>3, <1>4 DEF SameOutside
<1>6. /\ LogAfter(log) \in Logs
      /\ ~Fails(log) => LogAfter(log) = <<>>
      /\ Fails(log) => /\ Fails(LogAfter(log))
                       /\ \A i \in DOMAIN log : \E j \in DOMAIN LogAfter(log) :
                            LogAfter(log)[j] = log[i]
  BY LogAfterProperties DEF Logs
<1>7. CASE ~Fails(log)
  <2>1. \A o \in Object \ Smart : new[o] = original[o]
    BY <1>7, Rewound DEF Restores
  <2>2. Restores(new, <<>>)
    BY <2>1, RestoresNothing
  <2> QED
    BY <1>3, <1>5, <1>6, <1>7, <2>2
<1>8. CASE Fails(log)
  <2>1. Keeps(attributes, log)
    BY DEF Restores
  <2> HIDE DEF new
  <2>2. ASSUME NEW o \in Object \ Smart
        PROVE  \/ /\ new[o] = original[o]
                  /\ \A i \in DOMAIN LogAfter(log) : LogAfter(log)[i].object # o
               \/ \E i \in DOMAIN LogAfter(log) :
                    LogAfter(log)[i].object = o /\ BringsBack(LogAfter(log)[i])
    <3>1. CASE \E i \in DOMAIN log : log[i].object = o /\ BringsBack(log[i])
      BY <1>6, <1>8, <3>1
    <3>2. CASE attributes[o] = original[o] /\ \A i \in DOMAIN log : log[i].object # o
      <4>1. new[o] = attributes[o]
        <5>1. \A i \in 1..Len(Undone(log)) : Undone(log)[i].object # o
          BY <1>2, <1>4, <3>2
        <5>2. o \in Object
          BY <1>1
        <5> QED
          BY <1>3, <5>1, <5>2 DEF SameOutside
      <4>2. \A i \in DOMAIN LogAfter(log) : LogAfter(log)[i].object # o
        <5>1. /\ LogAfter(log) = Backwards(log) /\ log \in Seq([object : Object, old : Plain])
          BY <1>1, <1>8 DEF LogAfter
        <5>2. /\ Len(LogAfter(log)) = Len(log)
              /\ \A i \in 1..Len(log) : /\ LogAfter(log)[i] = log[(Len(log) - i) + 1]
                                        /\ (Len(log) - i) + 1 \in 1..Len(log)
          BY <5>1, BackwardsProperties
        <5>3. DOMAIN LogAfter(log) = 1..Len(log)
          BY <1>6, <5>2, LenProperties DEF Logs
        <5> QED
          BY <1>4, <3>2, <5>2, <5>3
      <4> QED
        BY <3>2, <4>1, <4>2
    <3> QED
      BY <2>1, <3>1, <3>2 DEF Keeps
  <2>3. Restores(new, LogAfter(log))
    BY <1>6, <1>8, <2>2 DEF Restores, Keeps
  <2> QED
    BY <1>3, <1>5, <1>6, <1>8, <2>3 DEF new
<1> QED
  BY <1>7, <1>8

\* smart_unset_all, too.
LEMMA SmartRestoresUnset ==
  ASSUME NEW attributes \in [Object -> Plain], NEW log \in SmartLogs, SmartRestores(attributes, log)
  PROVE  LET new == FoldLeft(SmartPutBack, attributes, Undone(log))
         IN  /\ new \in [Object -> Plain]
             /\ LogAfter(log) \in SmartLogs
             /\ \A o \in Object \ Smart : new[o] = attributes[o]
             /\ SmartRestores(new, LogAfter(log))
             /\ ~Fails(log) => SmartRestores(new, <<>>)
<1> DEFINE new == FoldLeft(SmartPutBack, attributes, Undone(log))
<1>1. log \in Seq([object : Object, old : Plain, hadOwn : BOOLEAN]) /\ Smart \subseteq Object
  BY LogsType, ObjectAssumption
<1>2. /\ Undone(log) \in Seq([object : Object, old : Plain, hadOwn : BOOLEAN])
      /\ \A i \in 1..Len(Undone(log)) : \E j \in 1..Len(log) : Undone(log)[i] = log[j]
  BY <1>1, UndoneProperties
<1>3. new \in [Object -> Plain] /\ SameOutside(new, attributes, Undone(log))
  BY <1>2, LogsType, SmartPutBackKeeps
<1>4. /\ DOMAIN log = 1..Len(log)
      /\ \A j \in 1..Len(log) : log[j] \in [object : Smart, old : Plain, hadOwn : BOOLEAN]
  BY LenProperties, ElementOfSeq DEF SmartLogs
<1>5. \A o \in Object \ Smart : new[o] = attributes[o]
  <2> HIDE DEF new
  <2> QED
    BY <1>1, <1>2, <1>3, <1>4 DEF SameOutside
<1>6. /\ LogAfter(log) \in SmartLogs
      /\ ~Fails(log) => LogAfter(log) = <<>>
      /\ Fails(log) => /\ Fails(LogAfter(log))
                       /\ \A i \in DOMAIN log : \E j \in DOMAIN LogAfter(log) :
                            LogAfter(log)[j] = log[i]
  BY LogAfterProperties DEF SmartLogs
<1>7. CASE ~Fails(log)
  <2>1. \A o \in Smart : new[o] = original[o]
    BY <1>7, SmartRewound DEF SmartRestores
  <2>2. SmartRestores(new, <<>>)
    BY <2>1, RestoresNothing
  <2> QED
    BY <1>3, <1>5, <1>6, <1>7, <2>2
<1>8. CASE Fails(log)
  <2>1. SmartKeeps(attributes, log)
    BY DEF SmartRestores
  <2> HIDE DEF new
  <2>2. ASSUME NEW o \in Smart
        PROVE  \/ /\ new[o] = original[o]
                  /\ \A i \in DOMAIN LogAfter(log) : LogAfter(log)[i].object # o
               \/ \E i \in DOMAIN LogAfter(log) :
                    LogAfter(log)[i].object = o /\ SmartBringsBack(LogAfter(log)[i])
    <3>1. CASE \E i \in DOMAIN log : log[i].object = o /\ SmartBringsBack(log[i])
      BY <1>6, <1>8, <3>1
    <3>2. CASE attributes[o] = original[o] /\ \A i \in DOMAIN log : log[i].object # o
      <4>1. new[o] = attributes[o]
        <5>1. \A i \in 1..Len(Undone(log)) : Undone(log)[i].object # o
          BY <1>2, <1>4, <3>2
        <5>2. o \in Object
          BY <1>1
        <5> QED
          BY <1>3, <5>1, <5>2 DEF SameOutside
      <4>2. \A i \in DOMAIN LogAfter(log) : LogAfter(log)[i].object # o
        <5>1. /\ LogAfter(log) = Backwards(log) /\ log \in Seq([object : Object, old : Plain, hadOwn : BOOLEAN])
          BY <1>1, <1>8 DEF LogAfter
        <5>2. /\ Len(LogAfter(log)) = Len(log)
              /\ \A i \in 1..Len(log) : /\ LogAfter(log)[i] = log[(Len(log) - i) + 1]
                                        /\ (Len(log) - i) + 1 \in 1..Len(log)
          BY <5>1, BackwardsProperties
        <5>3. DOMAIN LogAfter(log) = 1..Len(log)
          BY <1>6, <5>2, LenProperties DEF SmartLogs
        <5> QED
          BY <1>4, <3>2, <5>2, <5>3
      <4> QED
        BY <3>2, <4>1, <4>2
    <3> QED
      BY <2>1, <3>1, <3>2 DEF SmartKeeps
  <2>3. SmartRestores(new, LogAfter(log))
    BY <1>6, <1>8, <2>2 DEF SmartRestores, SmartKeeps
  <2> QED
    BY <1>3, <1>5, <1>6, <1>8, <2>3 DEF new
<1> QED
  BY <1>7, <1>8

-----------------------------------------------------------------------------
(***************************************************************************)
(* What is logged.                                                         *)
(***************************************************************************)
\* What getattr finds is found in an object, in o itself when o has it.
LEMMA DefinerProperties ==
  ASSUME NEW o \in Object, HasAttribute(o)
  PROVE  /\ Definer(o) \in Object
         /\ own[o] # Absent => Definer(o) = o
<1> DEFINE I == {i \in 1..Len(Mro[o]) : own[Mro[o][i]] # Absent}
           at == SelectInSeq(Mro[o], LAMBDA d : own[d] # Absent)
<1>1. /\ Mro[o] \in Seq(Object) /\ DOMAIN Mro[o] = 1..Len(Mro[o]) /\ Len(Mro[o]) \in Nat
      /\ Mro[o] # <<>> /\ Mro[o][1] = o
  <2>1. Mro[o] \in Seq(Object) /\ Mro[o] # <<>> /\ Mro[o][1] = o
    BY ObjectAssumption
  <2> QED
    BY <2>1, LenProperties
<1>2. I # {} /\ I \in SUBSET Nat
  BY <1>1 DEF HasAttribute
<1>3. at = Min(I)
  BY <1>2 DEF SelectInSeq
<1>4. Definer(o) = Mro[o][Min(I)]
  BY <1>3 DEF Definer
<1>5. Min(I) \in I /\ \A i \in I : Min(I) <= i
  <2> HIDE DEF I
  <2> QED
    BY <1>2, MinExists
<1>6. Definer(o) \in Object
  <2>1. Min(I) \in 1..Len(Mro[o])
    BY <1>5
  <2> HIDE DEF I
  <2>2. Mro[o][Min(I)] \in Object
    BY <1>1, <2>1, ElementOfSeq
  <2> QED
    BY <1>4, <2>2
<1>7. ASSUME own[o] # Absent
      PROVE  Definer(o) = o
  <2>1. 1 \in 1..Len(Mro[o])
    BY <1>1, EmptySeq
  <2>2. 1 \in I
    BY <1>1, <1>7, <2>1
  <2>3. Min(I) <= 1 /\ Min(I) \in 1..Len(Mro[o])
    BY <1>5, <2>2
  <2>4. Min(I) = 1
    BY <1>1, <2>3
  <2> QED
    BY <1>1, <1>4, <2>4
<1> QED
  BY <1>6, <1>7

\* The class of an object, and what o inherits from, is an object; the class of an
\* instance is another one.
LEMMA ClassOfProperties ==
  ASSUME NEW o \in Object
  PROVE  /\ ClassOf(o) \in Object /\ SmartTarget(o) \in Object
         /\ ClassOf(o) = o <=> Kind[o] # "instance"
<1>1. CASE Kind[o] = "instance"
  <2>1. Mro[o] \in Seq(Object) /\ Len(Mro[o]) > 1 /\ Len(Mro[o]) \in Nat
    <3>1. Mro[o] \in Seq(Object) /\ Len(Mro[o]) > 1
      BY <1>1, ObjectAssumption
    <3> QED
      BY <3>1, LenProperties
  <2>2. 2 \in 1..Len(Mro[o]) /\ 2 \in 2..Len(Mro[o])
    BY <2>1
  <2>3. Mro[o][2] \in Object
    BY <2>1, <2>2, ElementOfSeq
  <2>4. Kind[Mro[o][2]] = "class"
    BY <2>2, ObjectAssumption
  <2> QED
    BY <1>1, <2>3, <2>4 DEF ClassOf, SmartTarget
<1>2. CASE Kind[o] # "instance"
  BY <1>2 DEF ClassOf, SmartTarget
<1> QED
  BY <1>1, <1>2

\* What getattr returns is an attribute.
LEMMA LookupType ==
  ASSUME NEW o \in Object, HasAttribute(o), own \in [Object -> Attribute]
  PROVE  /\ Lookup(o) \in Attribute /\ OldChild(o) \in Attribute
         /\ OrigAttr(o) \in Attribute
<1> DEFINE found == own[Definer(o)]
<1>1. found \in Attribute
  BY DefinerProperties
<1>2. Function(found.fn) \in Attribute
  BY <1>1 DEF Function, Attribute
<1>3. [found EXCEPT !.kind = "bound", !.self = ClassOf(o)] \in Attribute
  BY <1>1, ClassOfProperties DEF Attribute
<1>4. [found EXCEPT !.kind = "bound", !.self = o] \in Attribute
  BY <1>1 DEF Attribute
<1>5. Lookup(o) \in Attribute
  BY <1>1, <1>2, <1>3, <1>4 DEF Lookup
<1>6. [Lookup(o) EXCEPT !.kind = "staticmethod"] \in Attribute
  BY <1>5 DEF Attribute
<1>7. [Function(Lookup(o).fn) EXCEPT !.kind = "classmethod"] \in Attribute
  BY <1>5 DEF Attribute, Function
<1> QED
  BY <1>5, <1>6, <1>7 DEF OldChild, OrigAttr

\* What set and smart_set log of an object that has the attribute itself is what is in
\* its dictionary, unless smart_set meets a classmethod.
LEMMA OwnIsLogged ==
  ASSUME NEW o \in Object, own \in [Object -> Plain], own[o] # Absent
  PROVE  /\ HasAttribute(o) /\ Definer(o) = o
         /\ OldChild(o) = own[o]
         /\ own[o].kind # "classmethod" => OrigAttr(o) = own[o]
<1>1. HasAttribute(o)
  <2>1. Mro[o] \in Seq(Object) /\ Mro[o] # <<>> /\ Mro[o][1] = o
    BY ObjectAssumption
  <2>2. 1 \in DOMAIN Mro[o]
    BY <2>1, LenProperties, EmptySeq
  <2> QED
    BY <2>1, <2>2 DEF HasAttribute
<1>2. Definer(o) = o
  BY <1>1, DefinerProperties
<1>3. PICK k, f : /\ k \in {"absent", "function", "staticmethod", "classmethod"}
                  /\ own[o] = [kind |-> k, fn |-> f, self |-> NoObject]
  <2>1. own[o] \in Plain
    OBVIOUS
  <2>2. own[o] = [kind |-> own[o].kind, fn |-> own[o].fn, self |-> NoObject]
    BY <2>1 DEF Plain, Attribute
  <2>3. own[o].kind \in {"absent", "function", "staticmethod", "classmethod"}
    BY <2>1 DEF Plain, Attribute
  <2> QED
    BY <2>2, <2>3
<1>4. own[o].kind = k /\ own[o].fn = f
  BY <1>3
<1>5. CASE k = "staticmethod"
  <2>1. Lookup(o) = Function(f)
    BY <1>2, <1>4, <1>5 DEF Lookup
  <2>2. [Function(f) EXCEPT !.kind = "staticmethod"] = own[o]
    BY <1>3, <1>5 DEF Function
  <2> QED
    BY <1>1, <1>2, <1>4, <1>5, <2>1, <2>2 DEF OldChild, OrigAttr
<1>6. CASE k = "classmethod"
  <2>1. Lookup(o).fn = f
    <3>1. Lookup(o) = [own[o] EXCEPT !.kind = "bound", !.self = ClassOf(o)]
      BY <1>2, <1>4, <1>6 DEF Lookup
    <3> QED
      BY <1>3, <3>1
  <2>2. [Function(f) EXCEPT !.kind = "classmethod"] = own[o]
    BY <1>3, <1>6 DEF Function
  <2> QED
    BY <1>1, <1>2, <1>4, <1>6, <2>1, <2>2 DEF OldChild
<1>7. CASE k \in {"absent", "function"}
  <2>1. Lookup(o) = own[o]
    BY <1>2, <1>4, <1>7 DEF Lookup
  <2> QED
    BY <1>1, <1>2, <1>4, <1>7, <2>1 DEF OldChild, OrigAttr
<1>8. k = "staticmethod" \/ k = "classmethod" \/ k \in {"absent", "function"}
  BY <1>3
<1> QED
  BY <1>5, <1>6, <1>7, <1>8

\* What smart_set logs of an attribute that a class or a module inherits is what a
\* dictionary holds, unless it meets a classmethod.
LEMMA InheritedIsPlain ==
  ASSUME NEW o \in Object, own \in [Object -> Plain], HasAttribute(o), own[o] = Absent,
         SmartTarget(o) = o, own[Definer(o)].kind # "classmethod"
  PROVE  OrigAttr(o) \in Plain
<1> DEFINE found == own[Definer(o)]
<1>1. found \in Plain
  BY DefinerProperties
<1>2. Kind[o] # "instance"
  BY ClassOfProperties DEF SmartTarget
<1>3. own[o].kind = "absent"
  BY DEF Absent
<1>4. Function(found.fn) \in Plain
  BY <1>1 DEF Plain, Attribute, Function
<1>5. Lookup(o) = IF found.kind = "staticmethod" THEN Function(found.fn) ELSE found
  BY <1>2 DEF Lookup
<1>6. OrigAttr(o) = Lookup(o)
  BY <1>3 DEF OrigAttr
<1> QED
  BY <1>1, <1>4, <1>5, <1>6

-----------------------------------------------------------------------------
(***************************************************************************)
(* Types.                                                                  *)
(***************************************************************************)
\* A replacement is a function.
LEMMA FunctionType ==
  ASSUME NEW stub \in Stub
  PROVE  Function(stub) \in Plain /\ Function(stub) \in Attribute /\ Function(stub) # Absent
BY DEF Function, Plain, Attribute, Absent

\* What setattr does.
LEMMA AssignType ==
  ASSUME NEW D, own \in [Object -> D], NEW o \in Object, NEW value \in D, Assign(o, value)
  PROVE  /\ own' \in [Object -> D]
         /\ own' = IF o \in ReadOnly THEN own ELSE [own EXCEPT ![o] = value]
         /\ raised' \in {"none", "TypeError on set"}
BY DEF Assign

\* The initial states are of the types.
LEMMA TypesInit == Init => TypeOK
<1> SUFFICES ASSUME Init PROVE TypeOK
  OBVIOUS
<1>1. ASSUME NEW o \in Object
      PROVE  Definitions(o) \subseteq Plain
  <2>1. Absent \in Plain /\ Function(o) \in Plain
    BY <1>1 DEF Plain, Absent, Function, Attribute
  <2>2. \A k \in {"staticmethod", "classmethod"} : [Function(o) EXCEPT !.kind = k] \in Plain
    BY <1>1 DEF Plain, Function, Attribute
  <2> QED
    BY <2>1, <2>2 DEF Definitions
<1>2. original \in [Object -> Plain]
  BY <1>1 DEF Init
<1>3. own \in [Object -> Attribute] /\ original \in [Object -> Attribute]
  BY <1>2, LogsType DEF Init
<1>4. /\ cache \in Seq([object : Object, old : Attribute])
      /\ stubs \in Seq([object : Object, old : Attribute, hadOwn : BOOLEAN])
      /\ Len(cache) = 0 /\ Len(stubs) = 0
  BY EmptySeq DEF Init
<1>5. Logged <= MaxLog
  BY <1>4, BoundAssumption DEF Logged
<1> QED
  BY <1>3, <1>4, <1>5 DEF TypeOK, Init

\* set, smart_set and what they raise keep to the types.
LEMMA TypesSet ==
  ASSUME TypeOK, NEW o \in Object, NEW stub \in Stub, Set(o, stub)
  PROVE  TypeOK'
<1> DEFINE entry == [object |-> o, old |-> OldChild(o)]
<1>1. entry \in [object : Object, old : Attribute]
  BY LookupType DEF Set, TypeOK
<1>2. /\ cache' \in Seq([object : Object, old : Attribute])
      /\ Len(cache') = Len(cache) + 1
  BY <1>1, AppendProperties DEF Set, TypeOK
<1>3. Logged' <= MaxLog
  <2>1. /\ Len(cache) \in Nat /\ Len(stubs) \in Nat
        /\ Len(cache) + Len(stubs) < MaxLog /\ stubs' = stubs
    BY LenProperties DEF TypeOK, Set, Logged
  <2> QED
    BY <1>2, <2>1, BoundAssumption DEF Logged
<1>4. own' \in [Object -> Attribute] /\ raised' \in {"none", "TypeError on set"}
  BY FunctionType, AssignType DEF Set, TypeOK
<1> QED
  BY <1>2, <1>3, <1>4 DEF Set, TypeOK

LEMMA TypesSmartSet ==
  ASSUME TypeOK, NEW o \in Object, NEW stub \in Stub, SmartSet(o, stub)
  PROVE  TypeOK'
<1>1. SmartEntry(o) \in [object : Object, old : Attribute, hadOwn : BOOLEAN]
  BY LookupType, ClassOfProperties DEF SmartSet, SmartEntry, TypeOK
<1>2. /\ stubs' \in Seq([object : Object, old : Attribute, hadOwn : BOOLEAN])
      /\ Len(stubs') = Len(stubs) + 1
  <2>1. stubs' = Append(stubs, SmartEntry(o))
    BY DEF SmartSet
  <2>2. stubs \in Seq([object : Object, old : Attribute, hadOwn : BOOLEAN])
    BY DEF TypeOK
  <2> QED
    BY <1>1, <2>1, <2>2, AppendProperties
<1>3. Logged' <= MaxLog
  <2>1. /\ Len(cache) \in Nat /\ Len(stubs) \in Nat
        /\ Len(cache) + Len(stubs) < MaxLog /\ cache' = cache
    BY LenProperties DEF TypeOK, SmartSet, Logged
  <2> QED
    BY <1>2, <2>1, BoundAssumption DEF Logged
<1>4. own' \in [Object -> Attribute] /\ raised' \in {"none", "TypeError on set"}
  BY FunctionType, ClassOfProperties, AssignType DEF SmartSet, TypeOK
<1> QED
  BY <1>2, <1>3, <1>4 DEF SmartSet, TypeOK

\* So do the two ways to undo.
LEMMA TypesUnset ==
  ASSUME TypeOK
  PROVE  /\ FoldLeft(PutBack, own, Undone(cache)) \in [Object -> Attribute]
         /\ FoldLeft(SmartPutBack, own, Undone(stubs)) \in [Object -> Attribute]
         /\ FoldLeft(PutBack, FoldLeft(SmartPutBack, own, Undone(stubs)), Undone(cache))
              \in [Object -> Attribute]
<1>1. /\ own \in [Object -> Attribute] /\ Absent \in Attribute
      /\ cache \in Seq([object : Object, old : Attribute])
      /\ stubs \in Seq([object : Object, old : Attribute, hadOwn : BOOLEAN])
  BY LogsType DEF TypeOK
<1>2. /\ Undone(cache) \in Seq([object : Object, old : Attribute])
      /\ Undone(stubs) \in Seq([object : Object, old : Attribute, hadOwn : BOOLEAN])
  BY <1>1, UndoneProperties
<1>3. FoldLeft(PutBack, own, Undone(cache)) \in [Object -> Attribute]
  BY <1>1, <1>2, PutBackKeeps
<1>4. FoldLeft(SmartPutBack, own, Undone(stubs)) \in [Object -> Attribute]
  BY <1>1, <1>2, SmartPutBackKeeps
<1>5. FoldLeft(PutBack, FoldLeft(SmartPutBack, own, Undone(stubs)), Undone(cache))
        \in [Object -> Attribute]
  BY <1>2, <1>4, PutBackKeeps
<1> QED
  BY <1>3, <1>4, <1>5

\* Every step keeps to the types.
LEMMA TypesStep == TypeOK /\ [Next]_vars => TypeOK'
<1> SUFFICES ASSUME TypeOK, [Next]_vars PROVE TypeOK'
  OBVIOUS
<1>1. /\ Len(cache) \in Nat /\ Len(stubs) \in Nat /\ Len(cache) + Len(stubs) <= MaxLog
      /\ MaxLog \in Nat
  BY LenProperties, BoundAssumption DEF TypeOK, Logged
<1>2. /\ LogAfter(cache) \in Seq([object : Object, old : Attribute])
      /\ Len(LogAfter(cache)) <= Len(cache) /\ Len(LogAfter(cache)) \in Nat
  BY LogAfterProperties, LenProperties DEF TypeOK
<1>3. /\ LogAfter(stubs) \in Seq([object : Object, old : Attribute, hadOwn : BOOLEAN])
      /\ Len(LogAfter(stubs)) <= Len(stubs) /\ Len(LogAfter(stubs)) \in Nat
  BY LogAfterProperties, LenProperties DEF TypeOK
<1>4. /\ <<>> \in Seq([object : Object, old : Attribute]) /\ Len(<<>>) = 0
      /\ <<>> \in Seq([object : Object, old : Attribute, hadOwn : BOOLEAN])
  BY EmptySeq
<1>5. CASE UNCHANGED vars
  BY <1>5 DEF vars, TypeOK, Logged
<1>6. ASSUME NEW o \in Object, NEW stub \in Stub, Set(o, stub)
      PROVE  TypeOK'
  BY <1>6, TypesSet
<1>7. ASSUME NEW o \in Object, NEW stub \in Stub, SmartSet(o, stub)
      PROVE  TypeOK'
  BY <1>7, TypesSmartSet
<1>8. ASSUME NEW o \in Object, NotFound(o)
      PROVE  TypeOK'
  BY <1>8 DEF NotFound, TypeOK, Logged
<1>9. CASE UnsetAll
  <2>1. own' \in [Object -> Attribute]
    BY <1>9, TypesUnset DEF UnsetAll
  <2>2. Logged' <= MaxLog
    <3>1. cache' = LogAfter(cache) /\ stubs' = stubs
      BY <1>9 DEF UnsetAll
    <3> QED
      BY <1>1, <1>2, <3>1 DEF Logged
  <2>3. raised' \in {"none", "TypeError on unset"}
    BY <1>9 DEF UnsetAll
  <2> QED
    BY <1>2, <1>9, <2>1, <2>2, <2>3 DEF UnsetAll, TypeOK
<1>10. CASE SmartUnsetAll
  <2>1. own' \in [Object -> Attribute]
    BY <1>10, TypesUnset DEF SmartUnsetAll
  <2>2. Logged' <= MaxLog
    <3>1. stubs' = LogAfter(stubs) /\ cache' = cache
      BY <1>10 DEF SmartUnsetAll
    <3> QED
      BY <1>1, <1>3, <3>1 DEF Logged
  <2>3. raised' \in {"none", "TypeError on unset"}
    BY <1>10 DEF SmartUnsetAll
  <2> QED
    BY <1>3, <1>10, <2>1, <2>2, <2>3 DEF SmartUnsetAll, TypeOK
<1>11. CASE Del
  <2>1. own' \in [Object -> Attribute]
    BY <1>11, TypesUnset DEF Del
  <2>2. Logged' <= MaxLog
    BY <1>1, <1>4, <1>11 DEF Del, Logged
  <2>3. lost' \in BOOLEAN
    BY <1>11 DEF Del, TypeOK, Fails
  <2> QED
    BY <1>4, <1>11, <2>1, <2>2, <2>3 DEF Del, TypeOK
<1> QED
  BY <1>5, <1>6, <1>7, <1>8, <1>9, <1>10, <1>11 DEF Next

\* StubOutForTesting (stubbingout.py): what the dictionaries and the logs hold is an
\* attribute, and the logs are kept to their bound, whatever the client stubs.
THEOREM StubTypes == Spec => []TypeOK
<1> QED
  BY TypesInit, TypesStep, PTL DEF Spec

-----------------------------------------------------------------------------
(***************************************************************************)
(* The originals of careful clients.                                       *)
(*                                                                         *)
(* The hypothesis is that the client takes no liberty but to stub objects  *)
(* on which setattr raises.  That the hypothesis is needed is shown by the *)
(* run that takes another one, a classmethod, and expects a violation.     *)
(***************************************************************************)
CarefulClient == Liberties \subseteq {"readonly"}

\* Both logs restore the originals, unless one was lost.
AllRestored == lost \/ (Restores(own, cache) /\ SmartRestores(own, stubs))

\* Nothing that is bound to an object gets into a dictionary or a log, the two logs
\* are about different objects, and they restore the originals.
CarefulInv ==
  /\ own \in [Object -> Plain]
  /\ cache \in Logs
  /\ stubs \in SmartLogs
  /\ AllRestored

\* To prove of the next state that it restores the originals, which do not change.
LEMMA RestoresNext ==
  ASSUME original' = original, lost' \/ (Restores(own', cache') /\ SmartRestores(own', stubs'))
  PROVE  AllRestored'
<1>1. Restores(own', cache') => Restores(own, cache)'
  BY DEF Restores, Keeps, Rewinds, FirstOf, BringsBack, Fails
<1>2. SmartRestores(own', stubs') => SmartRestores(own, stubs)'
  BY DEF SmartRestores, SmartKeeps, SmartRewinds, FirstOf, SmartBringsBack, Fails
<1> QED
  BY <1>1, <1>2 DEF AllRestored

\* Before anything is stubbed there is nothing to restore.
LEMMA CarefulInit == Init => CarefulInv
<1> SUFFICES ASSUME Init PROVE CarefulInv
  OBVIOUS
<1>1. ASSUME NEW o \in Object
      PROVE  Definitions(o) \subseteq Plain
  <2>1. Absent \in Plain /\ Function(o) \in Plain
    BY <1>1 DEF Plain, Absent, Function, Attribute
  <2>2. \A k \in {"staticmethod", "classmethod"} : [Function(o) EXCEPT !.kind = k] \in Plain
    BY <1>1 DEF Plain, Function, Attribute
  <2> QED
    BY <2>1, <2>2 DEF Definitions
<1>2. own \in [Object -> Plain] /\ own = original
  BY <1>1 DEF Init
<1>3. cache = <<>> /\ stubs = <<>> /\ <<>> \in Logs /\ <<>> \in SmartLogs
  BY EmptySeq DEF Init, Logs, SmartLogs
<1>4. Restores(own, <<>>) /\ SmartRestores(own, <<>>)
  BY <1>2, RestoresNothing
<1> QED
  BY <1>2, <1>3, <1>4 DEF CarefulInv, AllRestored

\* set.
LEMMA CarefulSet ==
  ASSUME CarefulClient, CarefulInv, NEW o \in Object, NEW stub \in Stub,
         SetAsIntended(o), Set(o, stub)
  PROVE  CarefulInv'
<1> DEFINE entry == [object |-> o, old |-> OldChild(o)]
<1>1. own \in [Object -> Plain] /\ cache \in Logs /\ stubs \in SmartLogs
  BY DEF CarefulInv
<1>2. own[o] # Absent /\ o \in Object \ Smart
  BY DEF SetAsIntended, May, CarefulClient
<1>3. OldChild(o) = own[o]
  BY <1>1, <1>2, OwnIsLogged
<1>4. entry \in [object : Object \ Smart, old : Plain] /\ entry.object = o /\ entry.old = own[o]
  BY <1>1, <1>2, <1>3
<1>5. cache' = Append(cache, entry) /\ UNCHANGED <<original, stubs, lost>>
  BY DEF Set
<1>6. /\ own' \in [Object -> Plain]
      /\ own' = IF o \in ReadOnly THEN own ELSE [own EXCEPT ![o] = Function(stub)]
  BY <1>1, FunctionType, AssignType DEF Set
<1> HIDE DEF entry
<1>7. cache' \in Logs
  BY <1>1, <1>4, <1>5, AppendProperties DEF Logs
<1>8. ASSUME ~lost
      PROVE  Restores(own', cache') /\ SmartRestores(own', stubs')
  <2>1. Restores(own, cache) /\ SmartRestores(own, stubs)
    BY <1>8 DEF CarefulInv, AllRestored
  <2>2. Restores(own', cache')
    BY <1>1, <1>2, <1>4, <1>5, <1>6, <2>1, RestoresSet
  <2>3. \A x \in Smart : own'[x] = own[x]
    BY <1>1, <1>2, <1>6, ObjectAssumption
  <2>4. SmartRestores(own', stubs)
    BY <1>1, <2>1, <2>3, SmartRestoresFrame
  <2> QED
    BY <1>5, <2>2, <2>4
<1>9. AllRestored'
  BY <1>5, <1>8, RestoresNext
<1> QED
  BY <1>1, <1>5, <1>6, <1>7, <1>9 DEF CarefulInv

\* smart_set.
LEMMA CarefulSmartSet ==
  ASSUME CarefulClient, CarefulInv, NEW o \in Object, NEW stub \in Stub,
         SmartSetAsIntended(o), SmartSet(o, stub)
  PROVE  CarefulInv'
<1> DEFINE entry == SmartEntry(o)
<1>1. own \in [Object -> Plain] /\ cache \in Logs /\ stubs \in SmartLogs
  BY DEF CarefulInv
<1>2. /\ SmartTarget(o) = o /\ o \in Smart /\ HasAttribute(o)
      /\ own[Definer(o)].kind # "classmethod"
  BY DEF SmartSetAsIntended, May, CarefulClient, SmartSet
<1>3. own[o] # Absent => OrigAttr(o) = own[o]
  BY <1>1, <1>2, OwnIsLogged
<1>4. OrigAttr(o) \in Plain
  BY <1>1, <1>2, <1>3, InheritedIsPlain
<1>5. /\ entry \in [object : Smart, old : Plain, hadOwn : BOOLEAN]
      /\ entry.object = o /\ (entry.hadOwn <=> own[o] # Absent)
      /\ own[o] # Absent => entry.old = own[o]
  BY <1>2, <1>3, <1>4 DEF SmartEntry
<1>6. stubs' = Append(stubs, entry) /\ UNCHANGED <<original, cache, lost>>
  BY DEF SmartSet
<1>7. /\ own' \in [Object -> Plain]
      /\ own' = IF o \in ReadOnly THEN own ELSE [own EXCEPT ![o] = Function(stub)]
  <2>1. Assign(o, Function(stub))
    BY <1>2 DEF SmartSet
  <2> QED
    BY <1>1, <2>1, FunctionType, AssignType
<1> HIDE DEF entry
<1>8. stubs' \in SmartLogs
  BY <1>1, <1>5, <1>6, AppendProperties DEF SmartLogs
<1>9. ASSUME ~lost
      PROVE  Restores(own', cache') /\ SmartRestores(own', stubs')
  <2>1. Restores(own, cache) /\ SmartRestores(own, stubs)
    BY <1>9 DEF CarefulInv, AllRestored
  <2>2. SmartRestores(own', stubs')
    BY <1>1, <1>2, <1>5, <1>6, <1>7, <2>1, FunctionType, SmartRestoresSet
  <2>3. \A x \in Object \ Smart : own'[x] = own[x]
    BY <1>1, <1>2, <1>7
  <2>4. Restores(own', cache)
    BY <1>1, <2>1, <2>3, RestoresFrame
  <2> QED
    BY <1>6, <2>2, <2>4
<1>10. AllRestored'
  BY <1>6, <1>9, RestoresNext
<1> QED
  BY <1>1, <1>6, <1>7, <1>8, <1>10 DEF CarefulInv

\* unset_all and smart_unset_all.
LEMMA CarefulUnset ==
  ASSUME CarefulInv, UnsetAll
  PROVE  CarefulInv'
<1>1. own \in [Object -> Plain] /\ cache \in Logs /\ stubs \in SmartLogs
  BY DEF CarefulInv
<1>2. /\ own' = FoldLeft(PutBack, own, Undone(cache)) /\ cache' = LogAfter(cache)
      /\ UNCHANGED <<original, stubs, lost>>
  BY DEF UnsetAll
<1>3. own' \in [Object -> Plain] /\ cache' \in Logs
  BY <1>1, <1>2, PlainUnset
<1>4. ASSUME ~lost
      PROVE  Restores(own', cache') /\ SmartRestores(own', stubs')
  <2>1. Restores(own, cache) /\ SmartRestores(own, stubs)
    BY <1>4 DEF CarefulInv, AllRestored
  <2>2. Restores(own', cache') /\ \A x \in Smart : own'[x] = own[x]
    BY <1>1, <1>2, <2>1, RestoresUnset
  <2>3. SmartRestores(own', stubs)
    BY <1>1, <2>1, <2>2, SmartRestoresFrame
  <2> QED
    BY <1>2, <2>2, <2>3
<1>5. AllRestored'
  BY <1>2, <1>4, RestoresNext
<1> QED
  BY <1>1, <1>2, <1>3, <1>5 DEF CarefulInv

LEMMA CarefulSmartUnset ==
  ASSUME CarefulInv, SmartUnsetAll
  PROVE  CarefulInv'
<1>1. own \in [Object -> Plain] /\ cache \in Logs /\ stubs \in SmartLogs
  BY DEF CarefulInv
<1>2. /\ own' = FoldLeft(SmartPutBack, own, Undone(stubs)) /\ stubs' = LogAfter(stubs)
      /\ UNCHANGED <<original, cache, lost>>
  BY DEF SmartUnsetAll
<1>3. own' \in [Object -> Plain] /\ stubs' \in SmartLogs
  BY <1>1, <1>2, SmartPlainUnset
<1>4. ASSUME ~lost
      PROVE  Restores(own', cache') /\ SmartRestores(own', stubs')
  <2>1. Restores(own, cache) /\ SmartRestores(own, stubs)
    BY <1>4 DEF CarefulInv, AllRestored
  <2>2. SmartRestores(own', stubs') /\ \A x \in Object \ Smart : own'[x] = own[x]
    BY <1>1, <1>2, <2>1, SmartRestoresUnset
  <2>3. Restores(own', cache)
    BY <1>1, <2>1, <2>2, RestoresFrame
  <2> QED
    BY <1>2, <2>2, <2>3
<1>5. AllRestored'
  BY <1>2, <1>4, RestoresNext
<1> QED
  BY <1>1, <1>2, <1>3, <1>5 DEF CarefulInv

\* __del__: when it swallows nothing it undoes both logs.
LEMMA CarefulDel ==
  ASSUME CarefulInv, Del
  PROVE  CarefulInv'
<1> DEFINE smart == FoldLeft(SmartPutBack, own, Undone(stubs))
           both == FoldLeft(PutBack, smart, Undone(cache))
<1>1. own \in [Object -> Plain] /\ cache \in Logs /\ stubs \in SmartLogs
  BY DEF CarefulInv
<1>2. /\ own' = IF Fails(stubs) THEN smart ELSE both
      /\ cache' = <<>> /\ stubs' = <<>> /\ original' = original
      /\ lost' = (lost \/ Fails(stubs) \/ Fails(cache))
  BY DEF Del
<1>3. smart \in [Object -> Plain]
  BY <1>1, SmartPlainUnset
<1>4. both \in [Object -> Plain]
  <2> HIDE DEF smart
  <2> QED
    BY <1>1, <1>3, PlainUnset
<1>5. cache' \in Logs /\ stubs' \in SmartLogs
  BY <1>2, EmptySeq DEF Logs, SmartLogs
<1>6. ASSUME ~lost, ~Fails(stubs), ~Fails(cache)
      PROVE  Restores(own', cache') /\ SmartRestores(own', stubs')
  <2>1. Restores(own, cache) /\ SmartRestores(own, stubs)
    BY <1>6 DEF CarefulInv, AllRestored
  <2>2. SmartRestores(smart, <<>>) /\ \A x \in Object \ Smart : smart[x] = own[x]
    BY <1>1, <1>6, <2>1, SmartRestoresUnset
  <2>3. Restores(smart, cache)
    BY <1>1, <2>1, <2>2, RestoresFrame
  <2> HIDE DEF smart
  <2>4. Restores(both, <<>>) /\ \A x \in Smart : both[x] = smart[x]
    BY <1>1, <1>3, <1>6, <2>3, RestoresUnset
  <2>5. <<>> \in SmartLogs
    BY <1>2, <1>5
  <2>6. SmartRestores(both, <<>>)
    BY <2>2, <2>4, <2>5, SmartRestoresFrame
  <2> QED
    BY <1>2, <1>6, <2>4, <2>6
<1> HIDE DEF both, smart
<1>7. AllRestored'
  BY <1>2, <1>6, RestoresNext
<1> QED
  BY <1>2, <1>3, <1>4, <1>5, <1>7 DEF CarefulInv

\* Every step of a careful client keeps the invariant.
LEMMA CarefulStep ==
  ASSUME CarefulClient
  PROVE  CarefulInv /\ [Next]_vars => CarefulInv'
<1> SUFFICES ASSUME CarefulInv, [Next]_vars PROVE CarefulInv'
  OBVIOUS
<1>1. ASSUME UNCHANGED <<own, original, cache, stubs, lost>>
      PROVE  CarefulInv'
  <2>1. lost' \/ (Restores(own', cache') /\ SmartRestores(own', stubs'))
    BY <1>1 DEF CarefulInv, AllRestored
  <2>2. AllRestored'
    BY <1>1, <2>1, RestoresNext
  <2> QED
    BY <1>1, <2>2 DEF CarefulInv
<1>2. CASE UNCHANGED vars
  BY <1>1, <1>2 DEF vars
<1>3. ASSUME NEW o \in Object, NEW stub \in Stub, SetAsIntended(o), Set(o, stub)
      PROVE  CarefulInv'
  BY <1>3, CarefulSet
<1>4. ASSUME NEW o \in Object, NEW stub \in Stub, SmartSetAsIntended(o), SmartSet(o, stub)
      PROVE  CarefulInv'
  BY <1>4, CarefulSmartSet
<1>5. ASSUME NEW o \in Object, NotFound(o)
      PROVE  CarefulInv'
  BY <1>1, <1>5 DEF NotFound
<1>6. CASE UnsetAll
  BY <1>6, CarefulUnset
<1>7. CASE SmartUnsetAll
  BY <1>7, CarefulSmartUnset
<1>8. CASE Del
  BY <1>8, CarefulDel
<1> QED
  BY <1>2, <1>3, <1>4, <1>5, <1>6, <1>7, <1>8 DEF Next

\* With nothing in the logs, all is as it was.
LEMMA CarefulMeansRestored ==
  TypeOK /\ CarefulInv => RestoredToOriginal
<1> SUFFICES ASSUME TypeOK, CarefulInv, Unset PROVE own = original
  BY DEF RestoredToOriginal
<1>1. Restores(own, <<>>) /\ SmartRestores(own, <<>>)
  BY DEF CarefulInv, AllRestored, Unset
<1>2. DOMAIN <<>> = {}
  OBVIOUS
<1>3. \A o \in Object \ Smart : own[o] = original[o]
  BY <1>1, <1>2 DEF Restores, Keeps
<1>4. \A o \in Smart : own[o] = original[o]
  BY <1>1, <1>2 DEF SmartRestores, SmartKeeps
<1>5. own \in [Object -> Attribute] /\ original \in [Object -> Attribute]
  BY DEF TypeOK
<1> QED
  BY <1>3, <1>4, <1>5

\* What is not as it was has its original in a log.
LEMMA CarefulMeansKept ==
  CarefulInv => OriginalsAreKept
<1> SUFFICES ASSUME CarefulInv, ~lost, NEW o \in Object, own[o] # original[o]
             PROVE  \/ \E i \in DOMAIN cache : cache[i].object = o /\ BringsBack(cache[i])
                    \/ \E i \in DOMAIN stubs : stubs[i].object = o /\ SmartBringsBack(stubs[i])
  BY DEF OriginalsAreKept
<1>1. Keeps(own, cache) /\ SmartKeeps(own, stubs)
  BY DEF CarefulInv, AllRestored, Restores, SmartRestores
<1>2. CASE o \in Smart
  BY <1>1, <1>2 DEF SmartKeeps
<1>3. CASE o \notin Smart
  BY <1>1, <1>3 DEF Keeps
<1> QED
  BY <1>2, <1>3

\* The invariant of a careful client.
THEOREM CarefulClientsInvariant ==
  ASSUME CarefulClient
  PROVE  Spec => []CarefulInv
<1>1. CarefulInv /\ [Next]_vars => CarefulInv'
  BY CarefulStep
<1> QED
  BY <1>1, CarefulInit, PTL DEF Spec

\* unset_all and smart_unset_all (stubbingout.py): "Reverses all the set() calls,
\* restoring things to their original definition", for any number of objects, base
\* classes and replacements, whatever of it was stubbed and how often.
THEOREM StubsAreUndone ==
  ASSUME CarefulClient
  PROVE  Spec => []RestoredToOriginal
<1> QED
  BY StubTypes, CarefulClientsInvariant, CarefulMeansRestored, PTL

\* The same functions and set, when setattr raises on some objects: the original of all
\* that is not as it was is in a log, also after a loop that was left in the middle.
THEOREM OriginalsStayInTheLogs ==
  ASSUME CarefulClient
  PROVE  Spec => []OriginalsAreKept
<1> QED
  BY CarefulClientsInvariant, CarefulMeansKept, PTL

=============================================================================
