--------------------------- MODULE FluentMockProofs ---------------------------
(***************************************************************************)
(* Proof that the mock in fluent use implements CallScript.                *)
(*                                                                         *)
(* The queue mirrors the part of the script that is still to come: its     *)
(* items stand for the last phases, and the calls answered so far were     *)
(* counted for places of the script in a way that explains them.  So what  *)
(* the mock answers is allowed.  That it refuses nothing the script allows *)
(* needs more: unless the script is ambiguous, every other way of counting *)
(* the answered calls agrees with the mock's.                              *)
(***************************************************************************)
EXTENDS FluentMock, MockProofs

-----------------------------------------------------------------------------
(***************************************************************************)
(* Scripts, and the ways to count calls for their places.                  *)
(***************************************************************************)
\* What the client writes at a time.
Phase == [kind  : {"method"} \cup GroupKind,
          name  : Group \cup {NoGroup},
          calls : Seq(Call)]

\* f counts the calls J for places of P, no two of them for the same.
Separates(f, J, P) ==
  /\ \A j \in J : f[j] \in P
  /\ \A i, j \in J : f[i] = f[j] => i = j

\* Each place of P has a call of J that g counts for it.
Covers(g, J, P) == \A p \in P : \E j \in J : g[j] = p

\* Calls that cover some places in one way leave no place free when they are
\* counted for different places in another.
LEMMA Pigeonhole ==
  ASSUME NEW J, IsFiniteSet(J), NEW P, NEW f, NEW g,
         Separates(f, J, P), Covers(g, J, P)
  PROVE  Covers(f, J, P)
<1> DEFINE K == {j \in J : g[j] \in P}
           onto == [j \in K |-> g[j]]
           into == [j \in J |-> f[j]]
<1>1. IsFiniteSet(K) /\ Cardinality(K) <= Cardinality(J)
  BY FS_Subset
<1>2. onto \in Surjection(K, P)
  BY DEF Surjection, Covers
<1>3. IsFiniteSet(P) /\ Cardinality(P) <= Cardinality(K)
  BY <1>1, <1>2, FS_Surjection
<1>4. into \in Injection(J, P)
  BY DEF Injection, IsInjective, Separates
<1>5. Cardinality(J) <= Cardinality(P)
  BY <1>3, <1>4, FS_Injection
<1>6. /\ Cardinality(J) \in Nat /\ Cardinality(K) \in Nat /\ Cardinality(P) \in Nat
  BY <1>1, <1>3, FS_CardinalityType
<1>7. Cardinality(J) = Cardinality(P)
  BY <1>1, <1>3, <1>5, <1>6
<1>8. into \in Surjection(J, P)
  BY <1>3, <1>4, <1>7, FS_Injection
<1> QED
  BY <1>8 DEF Surjection, Covers

\* The places of a script are its phases' positions.
LEMMA PlaceType ==
  ASSUME NEW s \in Seq(Phase)
  PROVE  /\ \A p : p \in Promise!Places(s) =>
              /\ p[1] \in 1..Len(s)
              /\ p[2] \in DOMAIN s[p[1]].calls
              /\ p = <<p[1], p[2]>>
              /\ Promise!Expected(s, p) \in Call
         /\ \A i, j : i \in 1..Len(s) /\ j \in DOMAIN s[i].calls =>
              <<i, j>> \in Promise!Places(s)
<1>1. DOMAIN s = 1..Len(s)
  BY LenProperties
<1>2. \A p : p \in Promise!Places(s) <=>
               \E i \in 1..Len(s) : \E j \in DOMAIN s[i].calls : p = <<i, j>>
  BY <1>1 DEF Promise!Places
<1>3. \A i \in 1..Len(s) : s[i].calls \in Seq(Call)
  <2>1. \A i \in 1..Len(s) : s[i] \in Phase
    BY ElementOfSeq
  <2> QED
    BY <2>1 DEF Phase
<1>4. \A i \in 1..Len(s) : \A j \in DOMAIN s[i].calls : s[i].calls[j] \in Call
  BY <1>3, ElementOfSeq, LenProperties
<1> QED
  BY <1>2, <1>4 DEF Promise!Expected

\* What it means for f to explain t: each call fits its place, ...
AllFit(s, t, f) == \A i \in 1..Len(t) : Fits(Promise!Expected(s, f[i]), t[i])

\* ... the phases come in order and only some places are counted for twice, ...
InOrder(s, t, f) ==
  \A i, j \in 1..Len(t) : i < j =>
    /\ f[i][1] <= f[j][1]
    /\ f[i] = f[j] => Promise!Repeatable(s, f[i])

\* ... and the phases before the last call's are finished.
NoneLeft(s, t, f) ==
  t # <<>> =>
    \A p \in Promise!Places(s) : p[1] < f[Len(t)][1] => \E i \in 1..Len(t) : f[i] = p

LEMMA Explained ==
  ASSUME NEW s, NEW t \in Seq(Call), NEW f \in Promise!Assignments(s, t)
  PROVE  /\ f \in [1..Len(t) -> Promise!Places(s)]
         /\ Promise!Explains(s, t, f) <=>
              AllFit(s, t, f) /\ InOrder(s, t, f) /\ NoneLeft(s, t, f)
<1>1. DOMAIN t = 1..Len(t)
  BY LenProperties
<1>2. f \in [1..Len(t) -> Promise!Places(s)]
  BY <1>1 DEF Promise!Assignments
<1>3. \A p : p \in Promise!Range(f) <=> \E i \in 1..Len(t) : f[i] = p
  BY <1>2 DEF Promise!Range
<1>4. \A e, c : Promise!Fits(e, c) <=> Fits(e, c)
  BY DEF Promise!Fits, Fits
<1> QED
  BY <1>1, <1>2, <1>3, <1>4 DEF Promise!Explains, AllFit, InOrder, NoneLeft

\* Some calls less are explained the same way.
LEMMA FewerExplained ==
  ASSUME NEW s \in Seq(Phase), NEW t \in Seq(Call), NEW c \in Call,
         NEW f \in Promise!Assignments(s, Append(t, c)),
         Promise!Explains(s, Append(t, c), f)
  PROVE  LET g == [i \in 1..Len(t) |-> f[i]]
         IN  g \in Promise!Assignments(s, t) /\ Promise!Explains(s, t, g)
<1> DEFINE g == [i \in 1..Len(t) |-> f[i]]
           n == Len(t)
           u == Append(t, c)
<1>1. /\ n \in Nat /\ DOMAIN t = 1..n /\ u \in Seq(Call) /\ Len(u) = n + 1
      /\ \A i \in 1..n : u[i] = t[i]
  BY LenProperties, AppendProperties
<1>2. u # <<>>
  BY AppendProperties
<1>3. f \in Promise!Assignments(s, u) /\ Promise!Explains(s, u, f)
  OBVIOUS
<1> HIDE DEF u
<1>4. f \in [1..(n + 1) -> Promise!Places(s)]
  BY <1>1, <1>3, Explained
<1>5. g \in Promise!Assignments(s, t)
  BY <1>1, <1>4 DEF Promise!Assignments
<1>6. /\ \A i \in 1..(n + 1) : Fits(Promise!Expected(s, f[i]), u[i])
      /\ \A i, j \in 1..(n + 1) : i < j =>
           /\ f[i][1] <= f[j][1]
           /\ f[i] = f[j] => Promise!Repeatable(s, f[i])
      /\ \A p \in Promise!Places(s) : p[1] < f[n + 1][1] =>
           \E i \in 1..(n + 1) : f[i] = p
  <2>1. AllFit(s, u, f) /\ InOrder(s, u, f) /\ NoneLeft(s, u, f)
    BY <1>1, <1>3, Explained
  <2> QED
    BY <1>1, <1>2, <2>1 DEF AllFit, InOrder, NoneLeft
<1>7. \A i \in 1..(n + 1) : f[i][1] \in Nat
  BY <1>4, PlaceType
<1>8. ASSUME NEW p \in Promise!Places(s), t # <<>>, p[1] < g[n][1]
      PROVE  \E i \in 1..n : g[i] = p
  <2>1. n \in 1..n
    BY <1>1, <1>8, EmptySeq
  <2>2. p[1] < f[n + 1][1]
    <3>1. g[n] = f[n] /\ n \in 1..(n + 1) /\ n + 1 \in 1..(n + 1) /\ n < n + 1
      BY <1>1, <2>1
    <3>2. f[n][1] <= f[n + 1][1]
      BY <1>6, <3>1
    <3>3. p[1] \in Nat
      BY PlaceType
    <3>4. f[n][1] \in Nat /\ f[n + 1][1] \in Nat
      BY <1>7, <3>1
    <3> HIDE DEF g, n
    <3> QED
      BY <1>8, <3>1, <3>2, <3>3, <3>4
  <2>3. PICK i \in 1..(n + 1) : f[i] = p
    BY <1>6, <2>2
  <2>4. i \in 1..n
    <3>1. f[n + 1] # p
      BY <1>1, <1>7, <2>2
    <3> QED
      BY <1>1, <2>3, <3>1
  <2> QED
    BY <2>3, <2>4
<1>9. \A i \in 1..n : g[i] = f[i] /\ i \in 1..(n + 1)
  BY <1>1
<1> HIDE DEF g, n
<1>10. /\ \A i \in 1..n : Fits(Promise!Expected(s, g[i]), t[i])
      /\ \A i, j \in 1..n : i < j =>
           /\ g[i][1] <= g[j][1]
           /\ g[i] = g[j] => Promise!Repeatable(s, g[i])
  BY <1>1, <1>6, <1>9
<1>11. AllFit(s, t, g) /\ InOrder(s, t, g) /\ NoneLeft(s, t, g)
  BY <1>8, <1>10 DEF n, AllFit, InOrder, NoneLeft
<1>12. Promise!Explains(s, t, g)
  BY <1>5, <1>11, Explained
<1> QED
  BY <1>5, <1>12 DEF g, n

\* Two ways to count the calls t agree: they count each for the same phase, for
\* the same place when it can be repeated, and else for equal places.
Agree(s, t, f, g) ==
  \A i \in 1..Len(t) :
    /\ f[i][1] = g[i][1]
    /\ Promise!Repeatable(s, f[i]) => f[i] = g[i]
    /\ Promise!Expected(s, f[i]) = Promise!Expected(s, g[i])

\* Every way to count the calls agrees with f.
Unambiguous(s, t, f) ==
  \A g \in Promise!Assignments(s, t) : Promise!Explains(s, t, g) => Agree(s, t, f, g)

\* Every place of the n-th phase had its call.
Finished(s, t, f, n) ==
  \A p \in Promise!Places(s) : p[1] = n => \E i \in 1..Len(t) : f[i] = p

\* A phase that one way has finished the other has finished, too.
LEMMA PhasesAgree ==
  ASSUME NEW s \in Seq(Phase), NEW t \in Seq(Call),
         NEW f \in Promise!Assignments(s, t), Promise!Explains(s, t, f),
         NEW g \in Promise!Assignments(s, t), Promise!Explains(s, t, g),
         Agree(s, t, f, g), NEW n, Finished(s, t, g, n)
  PROVE  Finished(s, t, f, n)
<1> DEFINE J == {j \in 1..Len(t) : f[j][1] = n}
           P == {p \in Promise!Places(s) : p[1] = n}
<1>1. /\ Len(t) \in Nat
      /\ f \in [1..Len(t) -> Promise!Places(s)] /\ g \in [1..Len(t) -> Promise!Places(s)]
  BY Explained, LenProperties
<1>2. CASE \E p \in P : Promise!Repeatable(s, p)
  <2>1. \A p \in P : Promise!Repeatable(s, p)
    BY <1>2 DEF Promise!Repeatable
  <2>2. ASSUME NEW p \in P
        PROVE  \E i \in 1..Len(t) : f[i] = p
    <3>1. PICK i \in 1..Len(t) : g[i] = p
      BY DEF Finished
    <3>2. f[i] \in P
      BY <1>1, <3>1 DEF Agree
    <3>3. f[i] = g[i]
      BY <2>1, <3>2 DEF Agree
    <3> QED
      BY <3>1, <3>3
  <2> QED
    BY <2>2 DEF Finished
<1>3. CASE \A p \in P : ~Promise!Repeatable(s, p)
  <2>1. \A j \in J : f[j] \in P
    BY <1>1
  <2>2. \A i, j \in 1..Len(t) : i < j /\ f[i] = f[j] => Promise!Repeatable(s, f[i])
    <3>1. InOrder(s, t, f)
      BY Explained
    <3> QED
      BY <3>1 DEF InOrder
  <2>3. Separates(f, J, P)
    BY <1>1, <1>3, <2>1, <2>2 DEF Separates
  <2>4. Covers(g, J, P)
    BY DEF Agree, Covers, Finished
  <2>5. IsFiniteSet(J)
    <3>1. IsFiniteSet(1..Len(t))
      BY <1>1, FS_Interval
    <3>2. J \in SUBSET (1..Len(t))
      OBVIOUS
    <3> QED
      BY <3>1, <3>2, FS_Subset
  <2>6. Covers(f, J, P)
    BY <2>3, <2>4, <2>5, Pigeonhole
  <2> QED
    BY <2>6 DEF Covers, Finished
<1> QED
  BY <1>2, <1>3

\* What explaining the calls t and then c means for c.
LastFits(s, t, c, f) ==
  LET n == Len(t) + 1
  IN  /\ f \in [1..n -> Promise!Places(s)]
      /\ Len(t) \in Nat
      /\ Fits(Promise!Expected(s, f[n]), c)
      /\ \A i \in 1..n : f[i][1] \in Nat
      /\ \A i \in 1..Len(t) : /\ f[i][1] <= f[n][1]
                              /\ f[i] = f[n] => Promise!Repeatable(s, f[n])
      /\ \A i, j \in 1..Len(t) : i # j /\ f[i] = f[j] => Promise!Repeatable(s, f[i])
      /\ \A p \in Promise!Places(s) : p[1] < f[n][1] => \E i \in 1..Len(t) : f[i] = p

LEMMA LastExplained ==
  ASSUME NEW s \in Seq(Phase), NEW t \in Seq(Call), NEW c \in Call,
         NEW f \in Promise!Assignments(s, Append(t, c)),
         Promise!Explains(s, Append(t, c), f)
  PROVE  LastFits(s, t, c, f)
<1> DEFINE n == Len(t) + 1
           u == Append(t, c)
<1>1. /\ n \in Nat /\ Len(t) \in Nat /\ u \in Seq(Call) /\ Len(u) = n /\ u[n] = c /\ u # <<>>
  BY LenProperties, AppendProperties
<1>2. f \in Promise!Assignments(s, u) /\ Promise!Explains(s, u, f)
  OBVIOUS
<1> HIDE DEF u
<1>3. f \in [1..n -> Promise!Places(s)]
  BY <1>1, <1>2, Explained
<1>4. \A i \in 1..n : f[i] \in Promise!Places(s) /\ f[i][1] \in Nat
  <2>1. \A i \in 1..n : f[i] \in Promise!Places(s)
    BY <1>3
  <2> QED
    BY <2>1, PlaceType
<1>5. /\ \A i \in 1..n : Fits(Promise!Expected(s, f[i]), u[i])
      /\ \A i, j \in 1..n : i < j =>
           /\ f[i][1] <= f[j][1]
           /\ f[i] = f[j] => Promise!Repeatable(s, f[i])
      /\ \A p \in Promise!Places(s) : p[1] < f[n][1] => \E i \in 1..n : f[i] = p
  <2>1. AllFit(s, u, f) /\ InOrder(s, u, f) /\ NoneLeft(s, u, f)
    BY <1>1, <1>2, Explained
  <2> QED
    BY <1>1, <2>1 DEF AllFit, InOrder, NoneLeft
<1>6. \A i \in 1..Len(t) : i \in 1..n /\ i < n /\ n \in 1..n
  BY <1>1
<1>7. Fits(Promise!Expected(s, f[n]), c)
  BY <1>1, <1>5
<1>8. \A i \in 1..Len(t) : f[i][1] <= f[n][1] /\ (f[i] = f[n] => Promise!Repeatable(s, f[n]))
  BY <1>5, <1>6
<1>9. \A i, j \in 1..Len(t) : i # j /\ f[i] = f[j] => Promise!Repeatable(s, f[i])
  BY <1>1, <1>5, <1>6
<1>10. ASSUME NEW p \in Promise!Places(s), p[1] < f[n][1]
       PROVE  \E i \in 1..Len(t) : f[i] = p
  <2>1. PICK i \in 1..n : f[i] = p
    BY <1>5, <1>10
  <2>2. f[n][1] \in Nat
    BY <1>1, <1>4
  <2>3. i # n
    BY <1>10, <2>1, <2>2
  <2> QED
    BY <1>1, <2>1, <2>3
<1> HIDE DEF n
<1>11. /\ f \in [1..n -> Promise!Places(s)]
       /\ Len(t) \in Nat
       /\ \A i \in 1..n : f[i][1] \in Nat
  BY <1>1, <1>3, <1>4
<1> QED
  BY <1>7, <1>8, <1>9, <1>10, <1>11 DEF n, LastFits

\* Two ways that agree up to the last call count it for the same phase, unless
\* the script is ambiguous: the one that went on has finished the phase.
LEMMA NotBehind ==
  ASSUME NEW s \in Seq(Phase), NEW t \in Seq(Call), NEW c \in Call,
         NEW f \in Promise!Assignments(s, Append(t, c)),
         Promise!Explains(s, Append(t, c), f),
         NEW g \in Promise!Assignments(s, Append(t, c)),
         Promise!Explains(s, Append(t, c), g),
         \A i \in 1..Len(t) : f[i][1] = g[i][1],
         f[Len(t) + 1][1] < g[Len(t) + 1][1]
  PROVE  Promise!Ambiguous(s)
<1> DEFINE n == Len(t) + 1
           J == {j \in 1..Len(t) : f[j][1] = f[n][1]}
           P == {p \in Promise!Places(s) : p[1] = f[n][1]}
<1>1. /\ f \in [1..n -> Promise!Places(s)]
      /\ Len(t) \in Nat
      /\ Fits(Promise!Expected(s, f[n]), c)
      /\ \A i \in 1..n : f[i][1] \in Nat
      /\ \A i \in 1..Len(t) : f[i] = f[n] => Promise!Repeatable(s, f[n])
      /\ \A i, j \in 1..Len(t) : i # j /\ f[i] = f[j] => Promise!Repeatable(s, f[i])
  <2>1. LastFits(s, t, c, f)
    BY LastExplained
  <2> QED
    BY <2>1 DEF LastFits
<1>2. /\ g \in [1..n -> Promise!Places(s)]
      /\ Fits(Promise!Expected(s, g[n]), c)
      /\ \A p \in Promise!Places(s) : p[1] < g[n][1] => \E i \in 1..Len(t) : g[i] = p
  <2>1. LastFits(s, t, c, g)
    BY LastExplained
  <2> QED
    BY <2>1 DEF LastFits
<1>3. n \in 1..n /\ \A i \in 1..Len(t) : i \in 1..n
  BY <1>1
<1>4. CASE Promise!Repeatable(s, f[n])
  <2>1. /\ f[n] \in Promise!Places(s) /\ g[n] \in Promise!Places(s)
        /\ f[n] # g[n] /\ f[n][1] < g[n][1]
    <3>1. f[n] \in Promise!Places(s) /\ g[n] \in Promise!Places(s) /\ f[n][1] \in Nat
      BY <1>1, <1>2, <1>3
    <3> QED
      BY <3>1
  <2>2. /\ Promise!Fits(Promise!Expected(s, f[n]), c)
        /\ Promise!Fits(Promise!Expected(s, g[n]), c)
        /\ c \in Promise!Call
    BY <1>1, <1>2 DEF Fits, Promise!Fits, Call, Promise!Call
  <2> QED
    BY <1>4, <2>1, <2>2 DEF Promise!Ambiguous
<1>5. CASE ~Promise!Repeatable(s, f[n])
  <2>1. \A p \in P : ~Promise!Repeatable(s, p)
    BY <1>5 DEF Promise!Repeatable
  <2>2. \A j \in J : f[j] \in P
    BY <1>1, <1>3
  <2>3. Separates(f, J, P)
    BY <1>1, <2>1, <2>2 DEF Separates
  <2>4. ASSUME NEW p \in P
        PROVE  \E j \in J : g[j] = p
    <3>1. PICK j \in 1..Len(t) : g[j] = p
      BY <1>2
    <3> QED
      BY <3>1
  <2>5. Covers(g, J, P)
    BY <2>4 DEF Covers
  <2>6. IsFiniteSet(J)
    <3>1. IsFiniteSet(1..Len(t))
      BY <1>1, FS_Interval
    <3>2. J \in SUBSET (1..Len(t))
      OBVIOUS
    <3> QED
      BY <3>1, <3>2, FS_Subset
  <2>7. Covers(f, J, P)
    BY <2>3, <2>5, <2>6, Pigeonhole
  <2>8. f[n] \in P
    BY <1>1, <1>3
  <2>9. PICK j \in 1..Len(t) : f[j] = f[n]
    BY <2>7, <2>8 DEF Covers
  <2> QED
    BY <1>1, <1>5, <2>9
<1> QED
  BY <1>4, <1>5

\* Agreeing is kept by the last call.
LEMMA LastAgrees ==
  ASSUME NEW s \in Seq(Phase), ~Promise!Ambiguous(s),
         NEW t \in Seq(Call), NEW c \in Call,
         NEW f \in Promise!Assignments(s, Append(t, c)),
         Promise!Explains(s, Append(t, c), f),
         NEW g \in Promise!Assignments(s, Append(t, c)),
         Promise!Explains(s, Append(t, c), g),
         Agree(s, t, f, g)
  PROVE  Agree(s, Append(t, c), f, g)
<1> DEFINE n == Len(t) + 1
<1>1. /\ f \in [1..n -> Promise!Places(s)] /\ g \in [1..n -> Promise!Places(s)]
      /\ Len(t) \in Nat
      /\ Fits(Promise!Expected(s, f[n]), c) /\ Fits(Promise!Expected(s, g[n]), c)
      /\ f[n][1] \in Nat /\ g[n][1] \in Nat
  <2>1. LastFits(s, t, c, f) /\ LastFits(s, t, c, g)
    BY LastExplained
  <2>2. n \in 1..n
    BY <2>1 DEF LastFits
  <2> QED
    BY <2>1, <2>2 DEF LastFits
<1>2. /\ \A i \in 1..Len(t) : f[i][1] = g[i][1]
      /\ \A i \in 1..Len(t) : g[i][1] = f[i][1]
  BY DEF Agree
<1>3. f[n][1] = g[n][1]
  <2>1. ~(f[n][1] < g[n][1])
    BY <1>2, NotBehind
  <2>2. ~(g[n][1] < f[n][1])
    BY <1>2, NotBehind
  <2> QED
    BY <1>1, <2>1, <2>2
<1>4. /\ f[n] \in Promise!Places(s) /\ g[n] \in Promise!Places(s)
      /\ Promise!Fits(Promise!Expected(s, f[n]), c)
      /\ Promise!Fits(Promise!Expected(s, g[n]), c)
      /\ c \in Promise!Call
  BY <1>1 DEF Fits, Promise!Fits, Call, Promise!Call
<1>5. f[n] # g[n] => /\ ~Promise!Repeatable(s, f[n])
                     /\ Promise!Expected(s, f[n]) = Promise!Expected(s, g[n])
  BY <1>3, <1>4 DEF Promise!Ambiguous
<1>6. Len(Append(t, c)) = n /\ \A i \in 1..n : i = n \/ i \in 1..Len(t)
  BY <1>1, AppendProperties
<1> QED
  BY <1>3, <1>5, <1>6 DEF Agree

\* When the last call is counted in a phase without repetitions, another way of
\* counting the calls before it left an equal place free.
LEMMA PlaceLeft ==
  ASSUME NEW s \in Seq(Phase), NEW t \in Seq(Call), NEW c \in Call,
         NEW f \in Promise!Assignments(s, t),
         NEW g \in Promise!Assignments(s, Append(t, c)),
         Promise!Explains(s, Append(t, c), g),
         Agree(s, t, f, g), ~Promise!Repeatable(s, g[Len(t) + 1])
  PROVE  \E p \in Promise!Places(s) :
           /\ p[1] = g[Len(t) + 1][1]
           /\ Promise!Expected(s, p) = Promise!Expected(s, g[Len(t) + 1])
           /\ \A i \in 1..Len(t) : f[i] # p
<1> DEFINE n == Len(t) + 1
           P == {p \in Promise!Places(s) :
                   /\ p[1] = g[n][1]
                   /\ Promise!Expected(s, p) = Promise!Expected(s, g[n])}
           J == {j \in 1..Len(t) : g[j] \in P}
<1> SUFFICES ASSUME \A p \in P : \E i \in 1..Len(t) : f[i] = p
             PROVE  FALSE
  OBVIOUS
<1>1. /\ g \in [1..n -> Promise!Places(s)]
      /\ Len(t) \in Nat
      /\ \A i \in 1..Len(t) : g[i] = g[n] => Promise!Repeatable(s, g[n])
      /\ \A i, j \in 1..Len(t) : i # j /\ g[i] = g[j] => Promise!Repeatable(s, g[i])
  <2>1. LastFits(s, t, c, g)
    BY LastExplained
  <2> QED
    BY <2>1 DEF LastFits
<1>2. n \in 1..n /\ \A i \in 1..Len(t) : i \in 1..n
  BY <1>1
<1>3. f \in [1..Len(t) -> Promise!Places(s)]
  BY Explained
<1>4. \A p \in P : ~Promise!Repeatable(s, p)
  BY DEF Promise!Repeatable
<1>5. Separates(g, J, P)
  BY <1>1, <1>4 DEF Separates
<1>6. ASSUME NEW p \in P
      PROVE  \E j \in J : f[j] = p
  <2>1. PICK j \in 1..Len(t) : f[j] = p
    OBVIOUS
  <2>2. g[j] \in Promise!Places(s)
    BY <1>1, <1>2
  <2>3. g[j] \in P
    BY <2>1, <2>2 DEF Agree
  <2> QED
    BY <2>1, <2>3
<1>7. Covers(f, J, P)
  BY <1>6 DEF Covers
<1>8. IsFiniteSet(J)
  <2>1. IsFiniteSet(1..Len(t))
    BY <1>1, FS_Interval
  <2>2. J \in SUBSET (1..Len(t))
    OBVIOUS
  <2> QED
    BY <2>1, <2>2, FS_Subset
<1>9. Covers(g, J, P)
  BY <1>5, <1>7, <1>8, Pigeonhole
<1>10. g[n] \in P
  BY <1>1, <1>2
<1>11. PICK j \in J : g[j] = g[n]
  BY <1>9, <1>10 DEF Covers
<1> QED
  BY <1>1, <1>11

-----------------------------------------------------------------------------
(***************************************************************************)
(* The queue as a mirror of the rest of the script.                        *)
(***************************************************************************)
\* The places that f counted a call for.
Counted(t, f) == {f[i] : i \in 1..Len(t)}

\* The item stands for the n-th phase of s: who gives the method that was recorded
\* for a place, and the places in used had their calls.
MirrorsPhase(item, s, n, who, used) ==
  /\ item.kind = s[n].kind /\ item.name = s[n].name
  /\ item.kind # "multiple" => IsInjective(item.methods)
  /\ \A m \in ToSet(item.methods) :
       \E p \in Promise!Places(s) : p[1] = n /\ who[p] = m
  /\ \A p \in Promise!Places(s) : p[1] = n =>
       /\ who[p] \in Owed(item) <=> p \notin used
       /\ item.kind = "multiple" => who[p] \in ToSet(item.methods)

\* The phases that are not in the queue any more.
Behind(queue, s) == Len(s) - Len(queue)

\* The queue stands for the rest of the script: all before it is used, and nothing
\* behind its first phase.
Mirrors(queue, s, who, used) ==
  /\ Len(queue) <= Len(s)
  /\ \A p \in Promise!Places(s) : p[1] <= Behind(queue, s) => p \in used
  /\ \A p \in used : p[1] <= Behind(queue, s) + 1
  /\ \A k \in 1..Len(queue) : MirrorsPhase(queue[k], s, Behind(queue, s) + k, who, used)

\* The last call was counted in a phase that is gone only if no call can be
\* repeated there.
Settled(queue, s, t, f) ==
  t # <<>> /\ f[Len(t)][1] <= Behind(queue, s) => ~Promise!Repeatable(s, f[Len(t)])

\* An item that owes a call stands for a phase with a place left.
LEMMA OwedPlace ==
  ASSUME NEW M, NEW item \in Item(M), Satisfiable(item),
         item.kind = "multiple" => item.left # {},
         NEW s, NEW n, NEW who, NEW used, MirrorsPhase(item, s, n, who, used)
  PROVE  \E p \in Promise!Places(s) : p[1] = n /\ p \notin used
<1>1. /\ item.methods # <<>> /\ item.methods \in Seq(M)
      /\ item.left \subseteq ToSet(item.methods)
  BY DEF Satisfiable, Item
<1>2. item.methods[1] \in ToSet(item.methods)
  BY <1>1, ToSetType, LenProperties, EmptySeq
<1>3. PICK m \in Owed(item) : m \in ToSet(item.methods)
  BY <1>1, <1>2 DEF Owed
<1>4. PICK p \in Promise!Places(s) : p[1] = n /\ who[p] = m
  BY <1>3 DEF MirrorsPhase
<1> QED
  BY <1>3, <1>4 DEF MirrorsPhase

\* A call that the queue has no answer to is not allowed by the script.
LEMMA RefusedRightly ==
  ASSUME NEW M, NEW queue \in Seq(Item(M)), \A j \in 1..Len(queue) : Satisfiable(queue[j]),
         NEW s \in Seq(Phase), ~Promise!Ambiguous(s),
         NEW t \in Seq(Call), NEW c \in Call,
         NEW f \in Promise!Assignments(s, t), Promise!Explains(s, t, f),
         Unambiguous(s, t, f),
         NEW who, Mirrors(queue, s, who, Counted(t, f)), Settled(queue, s, t, f),
         NEW hits,
         \A p \in Promise!Places(s) : Fits(Promise!Expected(s, p), c) => who[p] \in hits,
         NEW k \in 1..(Len(queue) + 1), Reaches(queue, hits, k),
         k \in DOMAIN queue => NoHit(queue[k], hits)
  PROVE  ~Promise!Allowed(s, Append(t, c))
<1> SUFFICES ASSUME NEW g \in Promise!Assignments(s, Append(t, c)),
                    Promise!Explains(s, Append(t, c), g)
             PROVE  FALSE
  BY DEF Promise!Allowed
<1> DEFINE n == Len(t) + 1
           h == [i \in 1..Len(t) |-> g[i]]
           q == g[n]
           behind == Behind(queue, s)
<1>1. h \in Promise!Assignments(s, t) /\ Promise!Explains(s, t, h)
  BY FewerExplained, SMTT(30)
<1>2. Agree(s, t, f, h)
  BY <1>1 DEF Unambiguous
<1>3. Agree(s, t, f, g)
  BY <1>2 DEF Agree
<1>4. /\ g \in [1..n -> Promise!Places(s)]
      /\ Len(t) \in Nat
      /\ Fits(Promise!Expected(s, q), c)
      /\ \A i \in 1..n : g[i][1] \in Nat
      /\ \A i \in 1..Len(t) : g[i][1] <= q[1]
      /\ \A p \in Promise!Places(s) : p[1] < q[1] => \E i \in 1..Len(t) : g[i] = p
  <2> HIDE DEF h, behind
  <2>1. LastFits(s, t, c, g)
    BY LastExplained
  <2> QED
    BY <2>1 DEF LastFits
<1>5. q \in Promise!Places(s)
  BY <1>4
<1>6. /\ Len(queue) \in Nat /\ DOMAIN queue = 1..Len(queue) /\ Len(s) \in Nat
      /\ Len(queue) <= Len(s) /\ behind = Len(s) - Len(queue) /\ behind \in Nat
      /\ q[1] \in 1..Len(s)
  BY <1>5, LenProperties, PlaceType DEF Mirrors, Behind
<1>7. f \in [1..Len(t) -> Promise!Places(s)]
  BY Explained
\* The phases before that of the last call are finished.
<1>8. ASSUME NEW p \in Promise!Places(s), p[1] < q[1]
      PROVE  p \in Counted(t, f)
  <2>1. Finished(s, t, h, p[1])
    BY <1>4, <1>8 DEF Finished
  <2> HIDE DEF h
  <2>2. Finished(s, t, f, p[1])
    BY <1>1, <1>2, <2>1, PhasesAgree
  <2> QED
    BY <2>2 DEF Counted, Finished
<1>9. ~Promise!Repeatable(s, q) =>
        \E p \in Promise!Places(s) : /\ p[1] = q[1]
                                     /\ Promise!Expected(s, p) = Promise!Expected(s, q)
                                     /\ p \notin Counted(t, f)
  BY <1>3, PlaceLeft DEF Counted
<1> HIDE DEF h, q, behind
<1>10. CASE q[1] <= behind
  <2>1. q \in Counted(t, f)
    BY <1>5, <1>10 DEF Mirrors, behind
  <2>2. Promise!Repeatable(s, q)
    BY <1>9, <1>10 DEF Mirrors, behind
  <2>3. PICK i \in 1..Len(t) : f[i] = q
    BY <2>1 DEF Counted
  <2>4. Len(t) \in 1..Len(t) /\ t # <<>>
    BY <1>4, <2>3, EmptySeq
  <2>5. f[i][1] <= f[Len(t)][1]
    <3>1. InOrder(s, t, f)
      BY Explained
    <3>2. \A a, b \in 1..Len(t) : a < b => f[a][1] <= f[b][1]
      BY <3>1 DEF InOrder
    <3> QED
      BY <1>4, <1>6, <2>3, <2>4, <3>2
  <2>6. f[Len(t)][1] <= q[1]
    BY <1>3, <1>4, <2>4 DEF Agree
  <2>7. f[Len(t)][1] \in Nat
    BY <1>7, <2>4, PlaceType
  <2>8. f[Len(t)][1] = q[1]
    BY <1>6, <2>3, <2>5, <2>6, <2>7
  <2>9. ~Promise!Repeatable(s, f[Len(t)])
    BY <1>10, <2>4, <2>8 DEF Settled, behind
  <2> QED
    BY <2>2, <2>8, <2>9 DEF Promise!Repeatable
<1>11. CASE q[1] > behind
  <2> DEFINE at == q[1] - behind
  <2>1. at \in 1..Len(queue) /\ behind + at = q[1]
    BY <1>6, <1>11
  <2> HIDE DEF at
  <2>2. MirrorsPhase(queue[at], s, q[1], who, Counted(t, f))
    BY <2>1 DEF Mirrors, behind
  <2>3. /\ queue[at].kind = s[q[1]].kind
        /\ queue[at].kind = "multiple" => who[q] \in ToSet(queue[at].methods)
    BY <1>5, <2>2 DEF MirrorsPhase
  <2>4. who[q] \in hits
    BY <1>4, <1>5
  <2>5. CASE at < k
    <3>1. at \in 1..(k - 1)
      BY <1>6, <2>1, <2>5
    <3>2. PassedOver(queue[at], hits)
      BY <3>1 DEF Reaches
    <3> QED
      BY <2>3, <2>4, <3>2 DEF PassedOver, NoHit
  <2>6. CASE at = k
    <3>1. NoHit(queue[at], hits)
      BY <1>6, <2>1, <2>6
    <3>2. queue[at].kind # "multiple"
      BY <2>3, <2>4, <3>1 DEF NoHit
    <3>3. PICK p \in Promise!Places(s) :
            /\ p[1] = q[1]
            /\ Promise!Expected(s, p) = Promise!Expected(s, q)
            /\ p \notin Counted(t, f)
      BY <1>9, <2>3, <3>2 DEF Promise!Repeatable
    <3>4. who[p] \in ToSet(queue[at].methods)
      BY <2>2, <3>2, <3>3 DEF MirrorsPhase, Owed
    <3>5. who[p] \in hits
      BY <1>4, <3>3
    <3> QED
      BY <3>1, <3>4, <3>5 DEF NoHit
  <2>7. CASE at > k
    <3>1. k \in 1..Len(queue) /\ behind + k \in Nat /\ behind + k < q[1]
      BY <1>6, <2>1, <2>7
    <3>2. ~PassedOver(queue[k], hits) /\ NoHit(queue[k], hits)
      BY <1>6, <3>1 DEF Reaches
    <3>3. queue[k].kind = "multiple" => queue[k].left # {}
      BY <3>2 DEF PassedOver
    <3>4. queue[k] \in Item(M) /\ Satisfiable(queue[k])
      BY <1>6, <3>1, ElementOfSeq
    <3>5. MirrorsPhase(queue[k], s, behind + k, who, Counted(t, f))
      BY <3>1 DEF Mirrors, behind
    <3>6. \E p \in Promise!Places(s) : p[1] = behind + k /\ p \notin Counted(t, f)
      BY <3>3, <3>4, <3>5, OwedPlace
    <3> QED
      BY <1>8, <3>1, <3>6
  <2> QED
    BY <1>6, <2>1, <2>5, <2>6, <2>7
<1> QED
  BY <1>6, <1>10, <1>11

\* Nothing is expected any more, as _verify sees it.
Emptied(queue) ==
  \/ queue = <<>>
  \/ Len(queue) = 1 /\ queue[1].kind = "multiple" /\ queue[1].left = {}

\* A queue that still expects something stands for a script that was not run to its
\* end.
LEMMA UnfinishedRightly ==
  ASSUME NEW M, NEW queue \in Seq(Item(M)), \A j \in 1..Len(queue) : Satisfiable(queue[j]),
         NEW s \in Seq(Phase), NEW t \in Seq(Call),
         NEW f \in Promise!Assignments(s, t), Promise!Explains(s, t, f),
         Unambiguous(s, t, f), NEW who, Mirrors(queue, s, who, Counted(t, f)),
         ~Emptied(queue)
  PROVE  ~Promise!Fulfilled(s, t)
<1> DEFINE behind == Behind(queue, s)
<1>1. /\ Len(queue) \in Nat /\ Len(queue) >= 1 /\ Len(s) \in Nat
      /\ Len(queue) <= Len(s) /\ behind = Len(s) - Len(queue) /\ behind \in Nat
  BY LenProperties, EmptySeq DEF Mirrors, Behind, Emptied
<1>2. /\ \A k \in 1..Len(queue) : queue[k] \in Item(M) /\ Satisfiable(queue[k])
      /\ \A k \in 1..Len(queue) :
           MirrorsPhase(queue[k], s, behind + k, who, Counted(t, f))
      /\ \A p \in Counted(t, f) : p[1] <= behind + 1
  BY ElementOfSeq DEF Mirrors
<1> HIDE DEF behind
<1>3. \E p \in Promise!Places(s) : p \notin Counted(t, f)
  <2>1. CASE Len(queue) = 1
    <3>1. /\ queue[1] \in Item(M) /\ Satisfiable(queue[1])
          /\ MirrorsPhase(queue[1], s, behind + 1, who, Counted(t, f))
      BY <1>2, <2>1
    <3>2. queue[1].kind = "multiple" => queue[1].left # {}
      BY <2>1 DEF Emptied
    <3> QED
      BY <3>1, <3>2, OwedPlace
  <2>2. CASE Len(queue) > 1
    <3>1. 2 \in 1..Len(queue)
      BY <1>1, <2>2
    <3>2. /\ queue[2] \in Item(M) /\ queue[2].methods # <<>>
          /\ MirrorsPhase(queue[2], s, behind + 2, who, Counted(t, f))
      BY <1>2, <3>1 DEF Satisfiable
    <3>3. queue[2].methods \in Seq(M)
      BY <3>2 DEF Item
    <3>4. queue[2].methods[1] \in ToSet(queue[2].methods)
      BY <3>2, <3>3, ToSetType, LenProperties, EmptySeq
    <3>5. PICK p \in Promise!Places(s) : p[1] = behind + 2
      BY <3>2, <3>4 DEF MirrorsPhase
    <3>6. ~(p[1] <= behind + 1)
      BY <1>1, <3>5
    <3> QED
      BY <1>2, <3>6
  <2>3. \A x \in Nat : x >= 1 => x = 1 \/ x > 1
    OBVIOUS
  <2> QED
    BY <1>1, <2>1, <2>2, <2>3
<1>4. PICK p \in Promise!Places(s) : p \notin Counted(t, f)
  BY <1>3
<1> SUFFICES ASSUME NEW g \in Promise!Assignments(s, t),
                    Promise!Places(s) \subseteq Promise!Range(g), Promise!Explains(s, t, g)
             PROVE  FALSE
  BY DEF Promise!Fulfilled
<1>5. g \in [1..Len(t) -> Promise!Places(s)]
  BY Explained
<1>6. Finished(s, t, g, p[1])
  BY <1>5 DEF Finished, Promise!Range
<1>7. Agree(s, t, f, g)
  BY DEF Unambiguous
<1>8. Finished(s, t, f, p[1])
  BY <1>6, <1>7, PhasesAgree
<1> QED
  BY <1>4, <1>8 DEF Finished, Counted

\* A queue that expects nothing stands for a script that was run to its end.
LEMMA FinishedRightly ==
  ASSUME NEW queue, NEW s \in Seq(Phase), NEW t \in Seq(Call),
         NEW f \in Promise!Assignments(s, t), Promise!Explains(s, t, f),
         NEW who, Mirrors(queue, s, who, Counted(t, f)), Emptied(queue)
  PROVE  Promise!Fulfilled(s, t)
<1> DEFINE behind == Behind(queue, s)
<1>1. /\ Len(queue) \in {0, 1}
      /\ Len(queue) = 1 => queue[1].kind = "multiple" /\ queue[1].left = {}
  BY EmptySeq DEF Emptied
<1>2. /\ Len(queue) \in Nat /\ Len(s) \in Nat /\ behind = Len(s) - Len(queue)
      /\ behind \in Int
  BY <1>1, LenProperties DEF Behind
<1>3. /\ \A p \in Promise!Places(s) : p[1] <= behind => p \in Counted(t, f)
      /\ \A k \in 1..Len(queue) :
           MirrorsPhase(queue[k], s, behind + k, who, Counted(t, f))
  BY DEF Mirrors
<1> HIDE DEF behind
<1>4. ASSUME NEW p \in Promise!Places(s)
      PROVE  p \in Counted(t, f)
  <2>1. p[1] \in 1..Len(s)
    BY PlaceType
  <2>2. CASE p[1] <= behind
    BY <1>3, <2>2
  <2>3. CASE ~(p[1] <= behind)
    <3>1. Len(queue) = 1 /\ p[1] = behind + 1
      <4>1. p[1] \in Nat /\ p[1] <= Len(s) /\ ~(p[1] <= behind)
        BY <1>2, <2>1, <2>3
      <4>2. CASE Len(queue) = 0
        BY <1>2, <4>1, <4>2
      <4>3. CASE Len(queue) = 1
        BY <1>2, <4>1, <4>3
      <4> QED
        BY <1>1, <4>2, <4>3
    <3>2. MirrorsPhase(queue[1], s, behind + 1, who, Counted(t, f))
      BY <1>3, <3>1
    <3>3. Owed(queue[1]) = {}
      BY <1>1, <3>1 DEF Owed
    <3> QED
      BY <3>1, <3>2, <3>3 DEF MirrorsPhase
  <2> QED
    BY <2>2, <2>3
<1>5. f \in [1..Len(t) -> Promise!Places(s)]
  BY Explained
<1>6. Promise!Places(s) \subseteq Promise!Range(f)
  BY <1>4, <1>5 DEF Counted, Promise!Range
<1> QED
  BY <1>6 DEF Promise!Fulfilled

\* When the places in used had their calls, the next call may be counted for p.
LeadsTo(s, used, p) ==
  /\ \A x \in used : x[1] <= p[1]
  /\ p \in used => Promise!Repeatable(s, p)
  /\ \A x \in Promise!Places(s) : x[1] < p[1] => x \in used

\* e counts as f does, and c for p.
CountsOneMore(e, s, t, c, f, p) ==
  LET u == Append(t, c)
  IN  /\ e \in Promise!Assignments(s, u) /\ Promise!Explains(s, u, e)
      /\ Counted(u, e) = Counted(t, f) \cup {p}
      /\ u # <<>> /\ e[Len(u)] = p
      /\ \A i \in 1..Len(t) : e[i] = f[i]

\* One more call, counted for a place that the calls before it lead to.
LEMMA OneMoreExplained ==
  ASSUME NEW s \in Seq(Phase), NEW t \in Seq(Call), NEW c \in Call,
         NEW f \in Promise!Assignments(s, t), Promise!Explains(s, t, f),
         NEW p \in Promise!Places(s), Fits(Promise!Expected(s, p), c),
         LeadsTo(s, Counted(t, f), p)
  PROVE  \E e : CountsOneMore(e, s, t, c, f, p)
<1> DEFINE n == Len(t) + 1
           u == Append(t, c)
           e == [i \in 1..n |-> IF i = n THEN p ELSE f[i]]
<1>1. /\ Len(t) \in Nat /\ n \in Nat /\ u \in Seq(Call) /\ Len(u) = n /\ u[n] = c
      /\ u # <<>> /\ \A i \in 1..Len(t) : u[i] = t[i]
  BY LenProperties, AppendProperties
<1> HIDE DEF u
<1>2. /\ f \in [1..Len(t) -> Promise!Places(s)]
      /\ \A i \in 1..Len(t) : Fits(Promise!Expected(s, f[i]), t[i])
      /\ \A i, j \in 1..Len(t) : i < j =>
           /\ f[i][1] <= f[j][1]
           /\ f[i] = f[j] => Promise!Repeatable(s, f[i])
  <2>1. AllFit(s, t, f) /\ InOrder(s, t, f) /\ f \in [1..Len(t) -> Promise!Places(s)]
    BY Explained
  <2> QED
    BY <2>1 DEF AllFit, InOrder
<1>3. /\ \A i \in 1..n : i # n => i \in 1..Len(t)
      /\ \A i \in 1..Len(t) : i \in 1..n /\ i < n
      /\ n \in 1..n
  BY <1>1
<1> HIDE DEF n
<1>4. e[n] = p /\ \A i \in 1..Len(t) : e[i] = f[i] /\ f[i] \in Promise!Places(s)
  BY <1>1, <1>2, <1>3
<1>5. e \in [1..n -> Promise!Places(s)]
  BY <1>2, <1>3
<1>6. e \in Promise!Assignments(s, u)
  BY <1>1, <1>5, LenProperties DEF Promise!Assignments
<1>7. Counted(u, e) = Counted(t, f) \cup {p}
  BY <1>1, <1>3, <1>4 DEF Counted
<1> HIDE DEF e
<1>8. \A i \in 1..n : Fits(Promise!Expected(s, e[i]), u[i])
  BY <1>1, <1>2, <1>3, <1>4
<1>9. ASSUME NEW i \in 1..n, NEW j \in 1..n, i < j
      PROVE  /\ e[i][1] <= e[j][1]
             /\ e[i] = e[j] => Promise!Repeatable(s, e[i])
  <2>1. i \in 1..Len(t)
    <3>1. i # n
      BY <1>1, <1>9
    <3> QED
      BY <1>3, <3>1
  <2>2. CASE j = n
    BY <1>4, <2>1, <2>2 DEF Counted, LeadsTo
  <2>3. CASE j # n
    BY <1>2, <1>3, <1>4, <1>9, <2>1, <2>3
  <2> QED
    BY <2>2, <2>3
<1>10. \A x \in Promise!Places(s) : x[1] < e[n][1] => \E i \in 1..n : e[i] = x
  BY <1>3, <1>4 DEF Counted, LeadsTo
<1>11. AllFit(s, u, e) /\ InOrder(s, u, e) /\ NoneLeft(s, u, e)
  BY <1>1, <1>8, <1>9, <1>10 DEF AllFit, InOrder, NoneLeft
<1>12. Promise!Explains(s, u, e)
  BY <1>1, <1>6, <1>11, Explained
<1>13. CountsOneMore(e, s, t, c, f, p)
  BY <1>1, <1>4, <1>6, <1>7, <1>12 DEF u, n, CountsOneMore
<1> QED
  BY <1>13

\* A method that is taken from a list without repetitions is gone.
LEMMA RemoveAtInjective ==
  ASSUME NEW M, NEW s \in Seq(M), IsInjective(s), NEW i \in 1..Len(s)
  PROVE  IsInjective(RemoveAt(s, i)) /\ ToSet(RemoveAt(s, i)) = ToSet(s) \ {s[i]}
<1> DEFINE r == RemoveAt(s, i)
<1>1. /\ r \in Seq(M) /\ Len(r) = Len(s) - 1
      /\ \A n \in 1..(Len(s) - 1) : r[n] = IF n < i THEN s[n] ELSE s[n + 1]
  BY RemoveAtProperties
<1>2. /\ Len(s) \in Nat /\ DOMAIN s = 1..Len(s) /\ DOMAIN r = 1..(Len(s) - 1)
      /\ i \in Nat /\ 1 <= i /\ i <= Len(s)
  BY <1>1, LenProperties
<1>3. \A a, b \in 1..Len(s) : s[a] = s[b] => a = b
  BY <1>2 DEF IsInjective
<1> HIDE DEF r
<1>4. ASSUME NEW a \in 1..(Len(s) - 1), NEW b \in 1..(Len(s) - 1), r[a] = r[b]
      PROVE  a = b
  <2> DEFINE A == IF a < i THEN a ELSE a + 1
             B == IF b < i THEN b ELSE b + 1
  <2>1. r[a] = s[A] /\ r[b] = s[B] /\ A \in 1..Len(s) /\ B \in 1..Len(s)
    BY <1>1, <1>2
  <2>2. A = B
    BY <1>3, <1>4, <2>1
  <2> QED
    BY <1>2, <2>2
<1>5. IsInjective(r)
  BY <1>2, <1>4 DEF IsInjective
<1>6. ASSUME NEW a \in 1..(Len(s) - 1)
      PROVE  r[a] \in ToSet(s) \ {s[i]}
  <2> DEFINE A == IF a < i THEN a ELSE a + 1
  <2>1. r[a] = s[A] /\ A \in 1..Len(s) /\ A # i
    BY <1>1, <1>2
  <2> QED
    BY <1>2, <1>3, <2>1 DEF ToSet
<1>7. ASSUME NEW a \in 1..Len(s), s[a] # s[i]
      PROVE  s[a] \in ToSet(r)
  <2> DEFINE b == IF a < i THEN a ELSE a - 1
  <2>1. a # i
    BY <1>7
  <2>2. b \in 1..(Len(s) - 1) /\ r[b] = s[a]
    <3>1. CASE a < i
      BY <1>1, <1>2, <3>1
    <3>2. CASE a > i
      <4>1. a - 1 \in 1..(Len(s) - 1) /\ ~(a - 1 < i) /\ (a - 1) + 1 = a
        BY <1>2, <3>2
      <4> QED
        BY <1>1, <3>2, <4>1
    <3> QED
      BY <1>2, <2>1, <3>1, <3>2
  <2> QED
    BY <1>2, <2>2 DEF ToSet
<1>8. ToSet(r) = ToSet(s) \ {s[i]}
  BY <1>2, <1>6, <1>7 DEF ToSet
<1> QED
  BY <1>5, <1>8 DEF r

\* Each place has a method of its own.
Distinct(s, who) == \A x, y \in Promise!Places(s) : who[x] = who[y] => x = y

\* Nothing is left of an item, and no place of its phase is free.
PhaseIsDone(left, item, s, n, used) ==
  /\ left = <<>>
  /\ item.kind # "multiple"
  /\ \A p \in Promise!Places(s) : p[1] = n => p \in used

\* One item is left, which mirrors the phase.
PhaseGoesOn(left, s, n, who, used) ==
  \E item : left = <<item>> /\ MirrorsPhase(item, s, n, who, used)

\* The call of a method is counted for the place it was recorded for: the item then
\* stands for its phase with that place used, or the phase is finished.
LEMMA RemainingMirrors ==
  ASSUME NEW M, NEW item \in Item(M), NEW i \in DOMAIN item.methods,
         NEW s, NEW n, NEW who, NEW used, MirrorsPhase(item, s, n, who, used),
         Distinct(s, who),
         NEW p \in Promise!Places(s), p[1] = n, who[p] = item.methods[i]
  PROVE  \/ PhaseIsDone(Remaining(item, i), item, s, n, used \cup {p})
         \/ PhaseGoesOn(Remaining(item, i), s, n, who, used \cup {p})
<1>1. /\ item.methods \in Seq(M) /\ Len(item.methods) \in Nat
      /\ DOMAIN item.methods = 1..Len(item.methods) /\ i \in 1..Len(item.methods)
  BY LenProperties DEF Item
<1>2. \A x \in Promise!Places(s) : x[1] = n =>
        /\ who[x] \in Owed(item) <=> x \notin used
        /\ item.kind = "multiple" => who[x] \in ToSet(item.methods)
  BY DEF MirrorsPhase
<1>3. /\ \A m \in ToSet(item.methods) :
           \E x \in Promise!Places(s) : x[1] = n /\ who[x] = m
      /\ item.kind = s[n].kind /\ item.name = s[n].name
      /\ item.kind # "multiple" => IsInjective(item.methods)
  BY DEF MirrorsPhase
<1>4. CASE item.kind = "multiple"
  <2> DEFINE rest == [item EXCEPT !.left = @ \ {item.methods[i]}]
  <2>1. /\ rest.kind = item.kind /\ rest.name = item.name
        /\ rest.methods = item.methods /\ rest.left = item.left \ {who[p]}
    BY DEF Item
  <2>2. Remaining(item, i) = <<rest>>
    BY <1>4 DEF Remaining
  <2> HIDE DEF rest
  <2>3. Owed(rest) = Owed(item) \ {who[p]}
    BY <1>4, <2>1 DEF Owed
  <2>4. MirrorsPhase(rest, s, n, who, used \cup {p})
    BY <1>2, <1>3, <1>4, <2>1, <2>3 DEF MirrorsPhase, Distinct
  <2> QED
    BY <2>2, <2>4 DEF PhaseGoesOn
<1>5. CASE item.kind # "multiple" /\ Len(item.methods) # 1
  <2> DEFINE rest == [item EXCEPT !.methods = RemoveAt(@, i)]
  <2>1. /\ rest.kind = item.kind /\ rest.name = item.name
        /\ rest.methods = RemoveAt(item.methods, i)
    BY DEF Item
  <2>2. Remaining(item, i) = <<rest>>
    BY <1>5 DEF Remaining
  <2> HIDE DEF rest
  <2>3. IsInjective(rest.methods) /\ ToSet(rest.methods) = ToSet(item.methods) \ {who[p]}
    BY <1>1, <1>3, <1>5, <2>1, RemoveAtInjective
  <2>4. Owed(rest) = Owed(item) \ {who[p]}
    BY <1>5, <2>1, <2>3 DEF Owed
  <2>5. MirrorsPhase(rest, s, n, who, used \cup {p})
    BY <1>2, <1>3, <1>5, <2>1, <2>3, <2>4 DEF MirrorsPhase, Distinct
  <2> QED
    BY <2>2, <2>5 DEF PhaseGoesOn
<1>6. CASE item.kind # "multiple" /\ Len(item.methods) = 1
  <2>1. Remaining(item, i) = <<>>
    BY <1>6 DEF Remaining
  <2>2. i = 1 /\ ToSet(item.methods) = {who[p]}
    BY <1>1, <1>6 DEF ToSet
  <2>3. Owed(item) = {who[p]}
    BY <1>6, <2>2 DEF Owed
  <2>4. ASSUME NEW x \in Promise!Places(s), x[1] = n, x \notin used
        PROVE  x = p
    BY <1>2, <2>3, <2>4 DEF Distinct
  <2> QED
    BY <1>6, <2>1, <2>4 DEF PhaseIsDone
<1> QED
  BY <1>4, <1>5, <1>6

\* The place that a call is counted for is one that the calls before it lead to.
LEMMA PlaceServed ==
  ASSUME NEW queue, NEW s \in Seq(Phase), NEW who, NEW used \in SUBSET Promise!Places(s),
         Len(queue) \in Nat, Mirrors(queue, s, who, used),
         NEW hits, NEW k \in 1..Len(queue), Reaches(queue, hits, k),
         NEW p \in Promise!Places(s), p[1] = Behind(queue, s) + k,
         who[p] \in ToSet(queue[k].methods)
  PROVE  LeadsTo(s, used, p)
<1> DEFINE behind == Behind(queue, s)
<1>1. /\ Len(s) \in Nat /\ behind \in Nat /\ k \in Nat /\ k >= 1
  BY LenProperties DEF Mirrors, Behind
<1>2. /\ \A x \in Promise!Places(s) : x[1] <= behind => x \in used
      /\ \A x \in used : x[1] <= behind + 1
      /\ \A j \in 1..Len(queue) : MirrorsPhase(queue[j], s, behind + j, who, used)
      /\ p[1] = behind + k
  BY DEF Mirrors
<1> HIDE DEF behind
<1>3. \A x \in Promise!Places(s) : x[1] \in Nat
  BY PlaceType
<1>4. \A x \in used : x[1] <= p[1]
  BY <1>1, <1>2, <1>3
<1>5. p \in used => Promise!Repeatable(s, p)
  <2>1. MirrorsPhase(queue[k], s, behind + k, who, used)
    BY <1>2
  <2>2. queue[k].kind # "multiple" => p \notin used
    BY <1>2, <2>1 DEF MirrorsPhase, Owed
  <2>3. queue[k].kind = s[p[1]].kind
    BY <1>2, <2>1 DEF MirrorsPhase
  <2> QED
    BY <2>2, <2>3 DEF Promise!Repeatable
<1>6. ASSUME NEW x \in Promise!Places(s), x[1] < p[1]
      PROVE  x \in used
  <2>1. CASE x[1] <= behind
    BY <1>2, <2>1
  <2>2. CASE x[1] > behind
    <3> DEFINE j == x[1] - behind
    <3>1. j \in 1..(k - 1) /\ j \in 1..Len(queue) /\ behind + j = x[1]
      <4>1. x[1] \in Nat /\ x[1] < behind + k /\ x[1] > behind
        BY <1>2, <1>3, <1>6, <2>2
      <4>2. j \in Nat /\ behind + j = x[1] /\ 1 <= j /\ j < k
        BY <1>1, <4>1
      <4>3. k <= Len(queue)
        OBVIOUS
      <4> HIDE DEF j
      <4> QED
        BY <1>1, <4>2, <4>3
    <3> HIDE DEF j
    <3>2. queue[j].kind = "multiple" /\ queue[j].left = {}
      BY <3>1 DEF Reaches, PassedOver
    <3>3. MirrorsPhase(queue[j], s, x[1], who, used)
      BY <1>2, <3>1
    <3> QED
      BY <3>2, <3>3 DEF MirrorsPhase, Owed
  <2> QED
    BY <1>1, <1>3, <2>1, <2>2
<1> QED
  BY <1>4, <1>5, <1>6 DEF LeadsTo

\* Answering a call leaves a queue that mirrors the script with one more place used.
LEMMA ServedMirrors ==
  ASSUME NEW M, NEW queue \in Seq(Item(M)), NEW s \in Seq(Phase), NEW who,
         NEW used \in SUBSET Promise!Places(s), Mirrors(queue, s, who, used),
         Distinct(s, who),
         NEW hits, NEW k \in DOMAIN queue, Reaches(queue, hits, k),
         NEW i \in DOMAIN queue[k].methods,
         NEW p \in Promise!Places(s), p[1] = Behind(queue, s) + k,
         who[p] = queue[k].methods[i]
  PROVE  LET new == Remaining(queue[k], i) \o Beyond(queue, k)
         IN  /\ Mirrors(new, s, who, used \cup {p})
             /\ p[1] <= Behind(new, s) => ~Promise!Repeatable(s, p)
<1> DEFINE rem == Remaining(queue[k], i)
           rest == Beyond(queue, k)
           new == rem \o rest
           behind == Behind(queue, s)
           more == used \cup {p}
<1>1. /\ Len(queue) \in Nat /\ DOMAIN queue = 1..Len(queue) /\ k \in 1..Len(queue)
      /\ Len(s) \in Nat /\ Len(queue) <= Len(s)
      /\ behind = Len(s) - Len(queue) /\ behind \in Nat
  BY LenProperties DEF Mirrors, Behind
<1>2. /\ queue[k] \in Item(M) /\ queue[k].methods \in Seq(M)
      /\ who[p] \in ToSet(queue[k].methods)
  <2>1. queue[k] \in Item(M)
    BY <1>1, ElementOfSeq
  <2>2. queue[k].methods \in Seq(M)
    BY <2>1 DEF Item
  <2> QED
    BY <2>1, <2>2, ToSetType, LenProperties
<1>3. /\ \A x \in used : x[1] <= p[1]
      /\ \A x \in Promise!Places(s) : x[1] < p[1] => x \in used
  BY <1>1, <1>2, PlaceServed DEF LeadsTo
<1>4. \A j \in 1..Len(queue) : MirrorsPhase(queue[j], s, behind + j, who, used)
  BY DEF Mirrors
<1>5. /\ rest \in Seq(Item(M)) /\ Len(rest) = Len(queue) - k
      /\ \A n \in 1..(Len(queue) - k) : rest[n] = queue[k + n]
  <2>1. rest = SubSeq(queue, k + 1, Len(queue))
    BY DEF Beyond
  <2> HIDE DEF rest, new
  <2> QED
    BY <1>1, <2>1, AfterProperties
<1>6. p[1] = behind + k /\ \A x \in Promise!Places(s) : x[1] \in Nat
  BY PlaceType
<1> HIDE DEF behind, rest
\* The places of the phases behind the k-th item are still free.
<1>7. ASSUME NEW j \in 1..Len(queue), j > k
      PROVE  MirrorsPhase(queue[j], s, behind + j, who, more)
  <2>1. MirrorsPhase(queue[j], s, behind + j, who, used)
    BY <1>4
  <2>2. p[1] # behind + j
    BY <1>1, <1>6, <1>7
  <2>3. \A x : x[1] = behind + j => (x \in used <=> x \in more)
    BY <2>2
  <2> QED
    BY <2>1, <2>3 DEF MirrorsPhase
<1> HIDE DEF rem, more
<1>8. \/ PhaseIsDone(rem, queue[k], s, behind + k, more)
      \/ PhaseGoesOn(rem, s, behind + k, who, more)
  <2>1. /\ queue[k] \in Item(M) /\ MirrorsPhase(queue[k], s, behind + k, who, used)
        /\ p[1] = behind + k
    BY <1>1, <1>2, <1>4, <1>6
  <2> QED
    BY <2>1, RemainingMirrors DEF rem, more
<1>9. \A x \in more : x[1] <= behind + k
  BY <1>3, <1>6 DEF more
<1>10. CASE PhaseIsDone(rem, queue[k], s, behind + k, more)
  <2>1. /\ rem = <<>> /\ queue[k].kind # "multiple"
        /\ \A x \in Promise!Places(s) : x[1] = behind + k => x \in more
    BY <1>10 DEF PhaseIsDone
  <2>2. new = rest
    BY <1>5, <2>1, ConcatEmptySeq
  <2> HIDE DEF new
  <2>3. Len(new) = Len(queue) - k /\ Behind(new, s) = behind + k
    <3>1. Len(new) = Len(queue) - k
      BY <1>5, <2>2
    <3>2. Behind(new, s) = Len(s) - (Len(queue) - k)
      BY <3>1 DEF Behind
    <3> QED
      BY <1>1, <3>1, <3>2
  <2>4. Len(new) <= Len(s)
    BY <1>1, <2>3
  <2>5. \A x \in Promise!Places(s) : x[1] <= behind + k => x \in more
    BY <1>1, <1>3, <1>6, <2>1 DEF more
  <2>6. \A x \in more : x[1] <= (behind + k) + 1
    <3>1. \A x \in more : x[1] \in Nat
      BY <1>6 DEF more
    <3> QED
      BY <1>1, <1>9, <3>1
  <2>7. ASSUME NEW n \in 1..Len(new)
        PROVE  MirrorsPhase(new[n], s, (behind + k) + n, who, more)
    <3>1. /\ new[n] = queue[k + n] /\ k + n \in 1..Len(queue) /\ k + n > k
          /\ (behind + k) + n = behind + (k + n)
      BY <1>1, <1>5, <2>2, <2>3
    <3> QED
      BY <1>7, <3>1
  <2>8. ~Promise!Repeatable(s, p)
    BY <1>1, <1>4, <1>6, <2>1 DEF MirrorsPhase, Promise!Repeatable
  <2> HIDE DEF new
  <2>9. Mirrors(new, s, who, more)
    BY <2>3, <2>4, <2>5, <2>6, <2>7 DEF Mirrors
  <2> QED
    BY <2>8, <2>9 DEF new, more, rem, rest
<1>11. CASE PhaseGoesOn(rem, s, behind + k, who, more)
  <2>1. PICK first : rem = <<first>> /\ MirrorsPhase(first, s, behind + k, who, more)
    BY <1>11 DEF PhaseGoesOn
  <2>2. /\ Len(new) = Len(queue) - k + 1
        /\ new[1] = first
        /\ \A n \in 2..(Len(queue) - k + 1) : new[n] = queue[k + (n - 1)]
    <3>1. rem \in Seq(Item(M)) /\ Len(rem) = 1 /\ rem[1] = first
      <4>1. rem \in Seq(Item(M))
        BY <1>2, RemainingType DEF rem
      <4> QED
        BY <2>1, <4>1
    <3>2. /\ Len(new) = Len(rem) + Len(rest)
          /\ \A n \in 1..(Len(rem) + Len(rest)) :
               new[n] = IF n <= Len(rem) THEN rem[n] ELSE rest[n - Len(rem)]
      BY <1>5, <3>1, ConcatProperties
    <3> HIDE DEF new
    <3>3. Len(rem) + Len(rest) = Len(queue) - k + 1 /\ Len(queue) - k \in Nat
      BY <1>1, <1>5, <3>1
    <3>4. new[1] = first
      BY <3>1, <3>2, <3>3
    <3>5. ASSUME NEW n \in 2..(Len(queue) - k + 1)
          PROVE  new[n] = queue[k + (n - 1)]
      <4>1. n \in 1..(Len(rem) + Len(rest)) /\ ~(n <= 1) /\ n - 1 \in 1..(Len(queue) - k)
        BY <3>3
      <4> QED
        BY <1>5, <3>1, <3>2, <4>1
    <3> QED
      BY <3>2, <3>3, <3>4, <3>5
  <2> HIDE DEF new
  <2>3. /\ Behind(new, s) = behind + (k - 1) /\ Len(new) <= Len(s)
        /\ (behind + (k - 1)) + 1 = behind + k
    <3>1. Behind(new, s) = Len(s) - Len(new)
      BY DEF Behind
    <3>2. Len(new) = Len(queue) - k + 1
      BY <2>2
    <3>3. k \in Nat /\ 1 <= k /\ k <= Len(queue)
      BY <1>1
    <3>4. \A a, b, x \in Nat : 1 <= x /\ x <= b /\ b <= a =>
            /\ a - (b - x + 1) = (a - b) + (x - 1)
            /\ b - x + 1 <= a
            /\ ((a - b) + (x - 1)) + 1 = (a - b) + x
      OBVIOUS
    <3>5. /\ Len(s) - (Len(queue) - k + 1) = behind + (k - 1)
          /\ Len(queue) - k + 1 <= Len(s)
          /\ (behind + (k - 1)) + 1 = behind + k
      BY <1>1, <3>3, <3>4
    <3> QED
      BY <3>1, <3>2, <3>5
  <2>4. \A x \in Promise!Places(s) : x[1] <= behind + (k - 1) => x \in more
    BY <1>1, <1>3, <1>6 DEF more
  <2>5. ASSUME NEW n \in 1..Len(new)
        PROVE  MirrorsPhase(new[n], s, (behind + (k - 1)) + n, who, more)
    <3>1. CASE n = 1
      BY <2>1, <2>2, <2>3, <3>1
    <3>2. CASE n # 1
      <4>1. n \in 2..(Len(queue) - k + 1)
        BY <1>1, <2>2, <3>2
      <4>2. /\ k + (n - 1) \in 1..Len(queue) /\ k + (n - 1) > k
            /\ (behind + (k - 1)) + n = behind + (k + (n - 1))
        BY <1>1, <4>1
      <4>3. MirrorsPhase(queue[k + (n - 1)], s, behind + (k + (n - 1)), who, more)
        BY <1>7, <4>2
      <4>4. new[n] = queue[k + (n - 1)]
        BY <2>2, <4>1
      <4> QED
        BY <4>2, <4>3, <4>4
    <3> QED
      BY <3>1, <3>2
  <2>6. ~(p[1] <= behind + (k - 1))
    BY <1>1, <1>6
  <2> HIDE DEF new
  <2>7. Mirrors(new, s, who, more)
    BY <1>9, <2>3, <2>4, <2>5 DEF Mirrors
  <2> QED
    BY <2>3, <2>6, <2>7 DEF new, more, rem, rest
<1> QED
  BY <1>8, <1>10, <1>11

-----------------------------------------------------------------------------
(***************************************************************************)
(* The queue while the script is written: it mirrors all of it.            *)
(***************************************************************************)
\* A phase in its script.
LEMMA PlacesOfPhase ==
  ASSUME NEW s \in Seq(Phase), NEW n
  PROVE  \A p : p \in Promise!Places(s) /\ p[1] = n <=>
                  n \in 1..Len(s) /\ \E j \in DOMAIN s[n].calls : p = <<n, j>>
<1>1. \A p : p \in Promise!Places(s) =>
        p[1] \in 1..Len(s) /\ p[2] \in DOMAIN s[p[1]].calls /\ p = <<p[1], p[2]>>
  BY PlaceType
<1>2. \A i, j : i \in 1..Len(s) /\ j \in DOMAIN s[i].calls => <<i, j>> \in Promise!Places(s)
  BY PlaceType
<1> QED
  BY <1>1, <1>2

\* What mirrors a phase mirrors it in every script that has it at that place.
LEMMA SamePhase ==
  ASSUME NEW s \in Seq(Phase), NEW r \in Seq(Phase),
         NEW n \in 1..Len(s), n \in 1..Len(r), s[n] = r[n],
         NEW item, NEW who, NEW used, MirrorsPhase(item, s, n, who, used),
         NEW w, \A p \in Promise!Places(r) : p[1] = n => w[p] = who[p]
  PROVE  MirrorsPhase(item, r, n, w, used)
<1>1. \A p : p \in Promise!Places(s) /\ p[1] = n <=> p \in Promise!Places(r) /\ p[1] = n
  <2>1. \A p : p \in Promise!Places(s) /\ p[1] = n <=>
                 n \in 1..Len(s) /\ \E j \in DOMAIN s[n].calls : p = <<n, j>>
    BY PlacesOfPhase
  <2>2. \A p : p \in Promise!Places(r) /\ p[1] = n <=>
                 n \in 1..Len(r) /\ \E j \in DOMAIN r[n].calls : p = <<n, j>>
    BY PlacesOfPhase
  <2> QED
    BY <2>1, <2>2
<1> QED
  BY <1>1 DEF MirrorsPhase

\* A queue that mirrors the whole script mirrors it phase by phase.
LEMMA MirrorsWhole ==
  ASSUME NEW s \in Seq(Phase), NEW queue, Len(queue) = Len(s), NEW who
  PROVE  Mirrors(queue, s, who, {}) <=>
           \A k \in 1..Len(s) : MirrorsPhase(queue[k], s, k, who, {})
<1>1. Len(s) \in Nat /\ Behind(queue, s) = 0
  BY LenProperties DEF Behind
<1>2. \A p \in Promise!Places(s) : ~(p[1] <= 0)
  BY PlaceType
<1>3. \A k \in 1..Len(s) : 0 + k = k
  BY <1>1
<1> QED
  BY <1>1, <1>2, <1>3 DEF Mirrors

\* The places of a script without its last phase.
LEMMA FrontPlaces ==
  ASSUME NEW s \in Seq(Phase), s # <<>>
  PROVE  /\ Front(s) \in Seq(Phase) /\ Len(Front(s)) = Len(s) - 1
         /\ \A n \in 1..(Len(s) - 1) : Front(s)[n] = s[n]
         /\ \A p : p \in Promise!Places(Front(s)) <=>
                     p \in Promise!Places(s) /\ p[1] # Len(s)
         /\ \A p \in Promise!Places(Front(s)) :
              Promise!Expected(Front(s), p) = Promise!Expected(s, p)
<1> DEFINE r == Front(s)
<1>1. Len(s) \in Nat
  BY LenProperties
<1>2. /\ r \in Seq(Phase) /\ Len(r) = Len(s) - 1
      /\ \A n \in 1..(Len(s) - 1) : r[n] = s[n]
  BY <1>1, FrontProperties
<1> HIDE DEF r
<1>3. \A n \in 1..(Len(s) - 1) : n \in 1..Len(s) /\ n # Len(s)
  BY <1>1
<1>4. \A n \in 1..Len(s) : n # Len(s) => n \in 1..(Len(s) - 1)
  BY <1>1
<1>5. \A p : p \in Promise!Places(r) <=> p \in Promise!Places(s) /\ p[1] # Len(s)
  <2>1. ASSUME NEW p, p \in Promise!Places(r)
        PROVE  p \in Promise!Places(s) /\ p[1] # Len(s)
    <3>1. p[1] \in 1..(Len(s) - 1) /\ p[2] \in DOMAIN r[p[1]].calls /\ p = <<p[1], p[2]>>
      BY <1>2, <2>1, PlaceType
    <3> QED
      BY <1>2, <1>3, <3>1, PlaceType
  <2>2. ASSUME NEW p, p \in Promise!Places(s), p[1] # Len(s)
        PROVE  p \in Promise!Places(r)
    <3>1. p[1] \in 1..Len(s) /\ p[2] \in DOMAIN s[p[1]].calls /\ p = <<p[1], p[2]>>
      BY <2>2, PlaceType
    <3> QED
      BY <1>2, <1>4, <2>2, <3>1, PlaceType
  <2> QED
    BY <2>1, <2>2
<1>6. ASSUME NEW p \in Promise!Places(r)
      PROVE  Promise!Expected(r, p) = Promise!Expected(s, p)
  <2>1. p[1] \in 1..(Len(s) - 1)
    BY <1>2, PlaceType
  <2> QED
    BY <1>2, <2>1 DEF Promise!Expected
<1> QED
  BY <1>2, <1>5, <1>6 DEF r

\* One phase less and one item less.
LEMMA FrontMirrors ==
  ASSUME NEW M, NEW queue \in Seq(Item(M)), NEW s \in Seq(Phase), queue # <<>>,
         Len(queue) = Len(s), NEW who, Mirrors(queue, s, who, {})
  PROVE  /\ Mirrors(Front(queue), Front(s), who, {})
         /\ s # <<>> /\ Front(queue) \in Seq(Item(M)) /\ Len(Front(queue)) = Len(Front(s))
         /\ Last(queue) = queue[Len(s)] /\ MirrorsPhase(Last(queue), s, Len(s), who, {})
<1> DEFINE r == Front(s)
           rest == Front(queue)
<1>1. s # <<>> /\ Len(s) \in Nat /\ Len(s) \in 1..Len(s)
  BY EmptySeq, LenProperties
<1>2. /\ r \in Seq(Phase) /\ Len(r) = Len(s) - 1
      /\ \A n \in 1..(Len(s) - 1) : r[n] = s[n]
  BY <1>1, FrontPlaces
<1>3. /\ rest \in Seq(Item(M)) /\ Len(rest) = Len(s) - 1
      /\ \A n \in 1..(Len(s) - 1) : rest[n] = queue[n]
  BY FrontProperties
<1> HIDE DEF r, rest
<1>4. \A n \in 1..(Len(s) - 1) : n \in 1..Len(s)
  BY <1>1
<1>5. ASSUME NEW k \in 1..Len(r)
      PROVE  MirrorsPhase(rest[k], r, k, who, {})
  <2>1. k \in 1..Len(s) /\ s[k] = r[k] /\ rest[k] = queue[k]
    BY <1>2, <1>3, <1>4
  <2>2. MirrorsPhase(queue[k], s, k, who, {})
    BY <2>1, MirrorsWhole
  <2> QED
    BY <1>2, <2>1, <2>2, SamePhase
<1>6. Mirrors(rest, r, who, {})
  BY <1>2, <1>3, <1>5, MirrorsWhole
<1>7. Last(queue) = queue[Len(s)] /\ MirrorsPhase(queue[Len(s)], s, Len(s), who, {})
  <2>1. Last(queue) = queue[Len(s)]
    BY DEF Last
  <2> QED
    BY <1>1, <2>1, MirrorsWhole
<1> QED
  BY <1>1, <1>2, <1>3, <1>6, <1>7 DEF r, rest

\* The methods of s are found at the same places.
Extends(w, s, who) == \A p \in Promise!Places(s) : w[p] = who[p]

\* One phase more and an item that stands for it.
LEMMA AppendMirrors ==
  ASSUME NEW M, NEW queue \in Seq(Item(M)), NEW s \in Seq(Phase),
         Len(queue) = Len(s), NEW who, Mirrors(queue, s, who, {}),
         NEW item \in Item(M), NEW phase \in Phase,
         NEW w, Extends(w, s, who),
         MirrorsPhase(item, Append(s, phase), Len(s) + 1, w, {})
  PROVE  /\ Mirrors(Append(queue, item), Append(s, phase), w, {})
         /\ Len(Append(queue, item)) = Len(Append(s, phase))
<1> DEFINE r == Append(s, phase)
           more == Append(queue, item)
<1>1. /\ Len(s) \in Nat /\ r \in Seq(Phase) /\ Len(r) = Len(s) + 1 /\ r[Len(s) + 1] = phase
      /\ \A n \in 1..Len(s) : r[n] = s[n]
  BY LenProperties, AppendProperties
<1>2. /\ more \in Seq(Item(M)) /\ Len(more) = Len(s) + 1 /\ more[Len(s) + 1] = item
      /\ \A n \in 1..Len(s) : more[n] = queue[n]
  BY AppendProperties
<1>3. MirrorsPhase(item, r, Len(s) + 1, w, {})
  OBVIOUS
<1> HIDE DEF r, more
<1>4. ASSUME NEW k \in 1..Len(s)
      PROVE  MirrorsPhase(more[k], r, k, w, {})
  <2>1. k \in 1..Len(r) /\ s[k] = r[k] /\ more[k] = queue[k]
    BY <1>1, <1>2
  <2>2. MirrorsPhase(queue[k], s, k, who, {})
    BY MirrorsWhole
  <2>3. \A p : p \in Promise!Places(r) /\ p[1] = k => p \in Promise!Places(s)
    <3>1. \A p : p \in Promise!Places(r) /\ p[1] = k <=>
                   k \in 1..Len(r) /\ \E j \in DOMAIN r[k].calls : p = <<k, j>>
      BY <1>1, PlacesOfPhase
    <3>2. \A p : p \in Promise!Places(s) /\ p[1] = k <=>
                   k \in 1..Len(s) /\ \E j \in DOMAIN s[k].calls : p = <<k, j>>
      BY PlacesOfPhase
    <3> QED
      BY <2>1, <3>1, <3>2
  <2>4. \A p \in Promise!Places(r) : p[1] = k => w[p] = who[p]
    BY <2>3 DEF Extends
  <2> QED
    BY <1>1, <2>1, <2>2, <2>4, SamePhase
<1>5. ASSUME NEW k \in 1..Len(r)
      PROVE  MirrorsPhase(more[k], r, k, w, {})
  <2>1. k = Len(s) + 1 \/ k \in 1..Len(s)
    BY <1>1
  <2> QED
    BY <1>2, <1>3, <1>4, <2>1
<1>6. Mirrors(more, r, w, {})
  BY <1>1, <1>2, <1>5, MirrorsWhole
<1> QED
  BY <1>1, <1>2, <1>6 DEF r, more

\* The places of a longer script.
LEMMA AppendPlaces ==
  ASSUME NEW s \in Seq(Phase), NEW phase \in Phase
  PROVE  /\ \A p : p \in Promise!Places(Append(s, phase)) <=>
                     \/ p \in Promise!Places(s)
                     \/ \E j \in DOMAIN phase.calls : p = <<Len(s) + 1, j>>
         /\ \A p \in Promise!Places(s) :
              p[1] # Len(s) + 1 /\ Promise!Expected(Append(s, phase), p) = Promise!Expected(s, p)
         /\ \A j \in DOMAIN phase.calls :
              Promise!Expected(Append(s, phase), <<Len(s) + 1, j>>) = phase.calls[j]
<1> DEFINE r == Append(s, phase)
           n == Len(s) + 1
<1>1. /\ Len(s) \in Nat /\ r \in Seq(Phase) /\ Len(r) = n /\ r[n] = phase
      /\ \A i \in 1..Len(s) : r[i] = s[i]
      /\ n \in 1..n /\ \A i \in 1..Len(s) : i \in 1..n /\ i # n
      /\ \A i \in 1..n : i = n \/ i \in 1..Len(s)
  BY LenProperties, AppendProperties
<1> HIDE DEF r, n
<1>2. ASSUME NEW p, p \in Promise!Places(r)
      PROVE  p \in Promise!Places(s) \/ \E j \in DOMAIN phase.calls : p = <<n, j>>
  <2>1. p[1] \in 1..n /\ p[2] \in DOMAIN r[p[1]].calls /\ p = <<p[1], p[2]>>
    BY <1>1, <1>2, PlaceType
  <2>2. CASE p[1] = n
    BY <1>1, <2>1, <2>2
  <2>3. CASE p[1] \in 1..Len(s)
    BY <1>1, <2>1, <2>3, PlaceType
  <2> QED
    BY <1>1, <2>1, <2>2, <2>3
<1>3. ASSUME NEW p, p \in Promise!Places(s)
      PROVE  /\ p \in Promise!Places(r) /\ p[1] # n
             /\ Promise!Expected(r, p) = Promise!Expected(s, p)
  <2>1. p[1] \in 1..Len(s) /\ p[2] \in DOMAIN s[p[1]].calls /\ p = <<p[1], p[2]>>
    BY <1>3, PlaceType
  <2>2. p \in Promise!Places(r)
    BY <1>1, <2>1, PlaceType
  <2> QED
    BY <1>1, <2>1, <2>2 DEF Promise!Expected
<1>4. ASSUME NEW j \in DOMAIN phase.calls
      PROVE  <<n, j>> \in Promise!Places(r) /\ Promise!Expected(r, <<n, j>>) = phase.calls[j]
  BY <1>1, PlaceType DEF Promise!Expected
<1> QED
  BY <1>2, <1>3, <1>4 DEF r, n

\* x is the item with one method more, which it owes.
Grows(x, item, h) ==
  /\ x.kind = item.kind /\ x.name = item.name
  /\ ToSet(x.methods) = ToSet(item.methods) \cup {h}
  /\ Owed(x) = Owed(item) \cup {h}
  /\ x.kind # "multiple" /\ IsInjective(item.methods) => IsInjective(x.methods)

\* add_method: the group has its methods and the new one, and owes the new one.
LEMMA WithMethodMirrors ==
  ASSUME NEW M, IsFiniteSet(M), NEW item \in Item(M), item.kind \in GroupKind,
         NEW h \in M, h \notin ToSet(item.methods), NEW x \in WithMethod(item, h)
  PROVE  Grows(x, item, h)
<1>1. /\ item.methods \in Seq(M) /\ Len(item.methods) \in Nat
      /\ IsFiniteSet(ToSet(item.methods) \cup {h})
  <2>1. item.methods \in Seq(M)
    BY DEF Item
  <2>2. IsFiniteSet(ToSet(item.methods))
    BY <2>1, ToSetType, FS_Subset
  <2> QED
    BY <2>1, <2>2, FS_AddElement, LenProperties
<1>2. CASE item.kind = "unordered"
  <2>1. x = [item EXCEPT !.methods = Append(@, h)]
    BY <1>2 DEF WithMethod
  <2>2. x.methods = Append(item.methods, h) /\ x.kind = "unordered" /\ x.name = item.name
    BY <1>2, <2>1 DEF Item
  <2> DEFINE n == Len(item.methods)
             longer == Append(item.methods, h)
  <2>3. /\ longer \in Seq(M) /\ Len(longer) = n + 1 /\ longer[n + 1] = h
        /\ \A i \in 1..n : longer[i] = item.methods[i]
        /\ DOMAIN longer = 1..(n + 1) /\ DOMAIN item.methods = 1..n
        /\ \A i \in 1..(n + 1) : i = n + 1 \/ i \in 1..n
        /\ \A i \in 1..n : i \in 1..(n + 1) /\ n + 1 \in 1..(n + 1)
    BY <1>1, AppendProperties, LenProperties
  <2> HIDE DEF longer, n
  <2>4. ToSet(longer) = ToSet(item.methods) \cup {h}
    <3>1. n + 1 \in 1..(n + 1)
      BY <1>1 DEF n
    <3> QED
      BY <2>3, <3>1 DEF ToSet
  <2>5. ASSUME IsInjective(item.methods)
        PROVE  IsInjective(longer)
    <3>1. \A i \in 1..n : longer[i] # h
      BY <2>3 DEF ToSet
    <3>2. \A i, j \in 1..n : longer[i] = longer[j] => i = j
      BY <2>3, <2>5 DEF IsInjective
    <3> QED
      BY <2>3, <3>1, <3>2 DEF IsInjective
  <2> QED
    BY <1>2, <2>2, <2>4, <2>5 DEF Owed, longer, Grows
<1>3. CASE item.kind # "unordered"
  <2> DEFINE S == ToSet(item.methods) \cup {h}
  <2>1. PICK order \in SetToSeqs(S) :
               x = [item EXCEPT !.methods = order, !.left = @ \cup {h}]
    BY <1>3 DEF WithMethod
  <2>2. /\ x.methods = order /\ x.left = item.left \cup {h} /\ x.name = item.name
        /\ x.kind = "multiple" /\ item.kind = "multiple"
    BY <1>3, <2>1 DEF Item, GroupKind
  <2>3. ToSet(order) = S
    BY <1>1, ScanOrder
  <2> QED
    BY <2>2, <2>3 DEF Owed, Grows
<1> QED
  BY <1>2, <1>3

\* The item has the method m and no other.
Alone(item, kind, name, m) ==
  /\ item.kind = kind /\ item.name = name
  /\ ToSet(item.methods) = {m} /\ Owed(item) = {m}
  /\ item.kind # "multiple" => IsInjective(item.methods)

\* A phase with one call, and the item with the method that was recorded for it.
LEMMA LonePhase ==
  ASSUME NEW s \in Seq(Phase), NEW phase \in Phase, NEW c, phase.calls = <<c>>,
         NEW item, NEW m, Alone(item, phase.kind, phase.name, m),
         NEW w, w[<<Len(s) + 1, 1>>] = m
  PROVE  MirrorsPhase(item, Append(s, phase), Len(s) + 1, w, {})
<1> DEFINE n == Len(s) + 1
           r == Append(s, phase)
<1>1. r \in Seq(Phase) /\ Len(r) = n /\ r[n] = phase /\ n \in 1..n
  BY LenProperties, AppendProperties
<1>2. r \in Seq(Phase)
  BY <1>1
<1> HIDE DEF r, n
<1>3. \A p : p \in Promise!Places(r) /\ p[1] = n <=>
               n \in 1..Len(r) /\ \E j \in DOMAIN r[n].calls : p = <<n, j>>
  BY <1>2, PlacesOfPhase
<1>4. DOMAIN phase.calls = {1}
  OBVIOUS
<1>5. \A p : p \in Promise!Places(r) /\ p[1] = n <=> p = <<n, 1>>
  BY <1>1, <1>3, <1>4
<1>6. MirrorsPhase(item, r, n, w, {})
  BY <1>1, <1>5 DEF MirrorsPhase, Alone, n
<1> QED
  BY <1>6 DEF r, n

\* The phase is the last one of s with one call more, in a group.
LongerBy(s, phase, c) ==
  /\ c \in Call /\ phase \in Phase /\ phase.kind \in GroupKind
  /\ phase.calls = Append(s[Len(s)].calls, c)
  /\ phase.kind = s[Len(s)].kind /\ phase.name = s[Len(s)].name

\* The place of that call.
NextPlace(s) == <<Len(s), Len(s[Len(s)].calls) + 1>>

\* The places of a script whose last phase gets one call more.
LEMMA LongerPlaces ==
  ASSUME NEW s \in Seq(Phase), s # <<>>, NEW phase, NEW c, LongerBy(s, phase, c)
  PROVE  LET r == Append(Front(s), phase)
             new == NextPlace(s)
         IN  /\ r \in Seq(Phase) /\ Len(r) = Len(s)
             /\ \A p : p \in Promise!Places(r) <=> p = new \/ p \in Promise!Places(s)
             /\ new \notin Promise!Places(s)
             /\ \A p \in Promise!Places(s) : Promise!Expected(r, p) = Promise!Expected(s, p)
             /\ Promise!Expected(r, new) = c
<1> DEFINE n == Len(s)
           r == Append(Front(s), phase)
           k == Len(s[n].calls) + 1
           new == <<n, k>>
<1>1. phase \in Phase /\ c \in Call /\ phase.calls = Append(s[n].calls, c)
  BY DEF LongerBy
<1>2. n \in Nat /\ n \in 1..n
  BY LenProperties, EmptySeq
<1>3. s[n] \in Phase
  BY <1>2, ElementOfSeq
<1>4. s[n].calls \in Seq(Call)
  BY <1>3 DEF Phase
<1>5. /\ DOMAIN phase.calls = DOMAIN s[n].calls \cup {k} /\ k \notin DOMAIN s[n].calls
      /\ phase.calls[k] = c
      /\ \A j \in DOMAIN s[n].calls : phase.calls[j] = s[n].calls[j]
  <2> DEFINE old == s[n].calls
  <2> HIDE DEF old
  <2>1. DOMAIN old = 1..Len(old) /\ Len(old) \in Nat
    BY <1>4, LenProperties DEF old
  <2>2. /\ Append(old, c) \in Seq(Call) /\ Len(Append(old, c)) = Len(old) + 1
        /\ Append(old, c)[Len(old) + 1] = c
        /\ \A j \in 1..Len(old) : Append(old, c)[j] = old[j]
    BY <1>1, <1>4, AppendProperties DEF old
  <2>3. DOMAIN Append(old, c) = 1..(Len(old) + 1)
    BY <2>2, LenProperties
  <2>4. phase.calls = Append(old, c) /\ k = Len(old) + 1
    BY <1>1 DEF old
  <2>5. /\ DOMAIN phase.calls = DOMAIN old \cup {k} /\ k \notin DOMAIN old
    BY <2>1, <2>3, <2>4
  <2>6. /\ phase.calls[k] = c
        /\ \A j \in DOMAIN old : phase.calls[j] = old[j]
    BY <2>1, <2>2, <2>4
  <2> QED
    BY <2>5, <2>6 DEF old
<1>6. /\ Front(s) \in Seq(Phase) /\ Len(Front(s)) = n - 1
      /\ \A p : p \in Promise!Places(Front(s)) <=> p \in Promise!Places(s) /\ p[1] # n
      /\ \A p \in Promise!Places(Front(s)) :
           Promise!Expected(Front(s), p) = Promise!Expected(s, p)
  BY FrontPlaces
<1>7. r \in Seq(Phase) /\ Len(r) = n
  BY <1>1, <1>2, <1>6, AppendProperties
<1> HIDE DEF n, r, k, new, NextPlace
<1>8. (n - 1) + 1 = n
  BY <1>2
<1>9. /\ \A p : p \in Promise!Places(r) <=>
              \/ p \in Promise!Places(Front(s))
              \/ \E j \in DOMAIN phase.calls : p = <<n, j>>
      /\ \A p \in Promise!Places(Front(s)) :
           Promise!Expected(r, p) = Promise!Expected(Front(s), p)
      /\ \A j \in DOMAIN phase.calls : Promise!Expected(r, <<n, j>>) = phase.calls[j]
  <2> DEFINE front == Front(s)
  <2>1. front \in Seq(Phase) /\ Len(front) + 1 = n
    BY <1>6, <1>8
  <2> HIDE DEF front
  <2>2. /\ \A p : p \in Promise!Places(Append(front, phase)) <=>
                    \/ p \in Promise!Places(front)
                    \/ \E j \in DOMAIN phase.calls : p = <<Len(front) + 1, j>>
        /\ \A p \in Promise!Places(front) :
             p[1] # Len(front) + 1
             /\ Promise!Expected(Append(front, phase), p) = Promise!Expected(front, p)
        /\ \A j \in DOMAIN phase.calls :
             Promise!Expected(Append(front, phase), <<Len(front) + 1, j>>) = phase.calls[j]
    BY <1>1, <2>1, AppendPlaces
  <2> QED
    BY <2>1, <2>2 DEF r, front
<1>10. \A p : p \in Promise!Places(s) /\ p[1] = n <=>
               n \in 1..n /\ \E j \in DOMAIN s[n].calls : p = <<n, j>>
  BY PlacesOfPhase DEF n
<1>11. \A p : p \in Promise!Places(r) <=> p = new \/ p \in Promise!Places(s)
  BY <1>2, <1>5, <1>6, <1>9, <1>10 DEF new
<1>12. new \notin Promise!Places(s)
  BY <1>5, <1>10 DEF new
<1>13. ASSUME NEW p \in Promise!Places(s)
       PROVE  Promise!Expected(r, p) = Promise!Expected(s, p)
  <2>1. CASE p[1] = n
    <3>1. PICK j \in DOMAIN s[n].calls : p = <<n, j>>
      BY <1>10, <2>1
    <3>2. Promise!Expected(r, p) = s[n].calls[j]
      BY <1>5, <1>9, <3>1
    <3> QED
      BY <3>1, <3>2 DEF Promise!Expected
  <2>2. CASE p[1] # n
    BY <1>6, <1>9, <2>2
  <2> QED
    BY <2>1, <2>2
<1>14. Promise!Expected(r, new) = c
  BY <1>5, <1>9 DEF new
<1> QED
  BY <1>7, <1>11, <1>12, <1>13, <1>14 DEF n, r, k, new, NextPlace

\* A phase with one call more, and the group with one method more.
LEMMA LongerPhase ==
  ASSUME NEW s \in Seq(Phase), s # <<>>, NEW old, NEW who,
         MirrorsPhase(old, s, Len(s), who, {}),
         NEW phase, NEW c, LongerBy(s, phase, c),
         NEW item, NEW h, Grows(item, old, h),
         NEW w, w[NextPlace(s)] = h, Extends(w, s, who)
  PROVE  MirrorsPhase(item, Append(Front(s), phase), Len(s), w, {})
<1> DEFINE n == Len(s)
           r == Append(Front(s), phase)
           new == NextPlace(s)
<1>1. /\ r \in Seq(Phase) /\ Len(r) = n
      /\ \A p : p \in Promise!Places(r) <=> p = new \/ p \in Promise!Places(s)
  BY LongerPlaces
<1>2. new[1] = n
  BY DEF NextPlace
<1>3. r[n] = phase
  <2>1. n \in Nat /\ (n - 1) + 1 = n
    BY LenProperties
  <2>2. Front(s) \in Seq(Phase) /\ Len(Front(s)) = n - 1
    BY FrontPlaces
  <2>3. phase \in Phase
    BY DEF LongerBy
  <2> QED
    BY <2>1, <2>2, <2>3, AppendProperties
<1>4. phase.kind = s[n].kind /\ phase.name = s[n].name /\ phase.kind \in GroupKind
  BY DEF LongerBy
<1>5. w[new] = h /\ \A p \in Promise!Places(s) : w[p] = who[p]
  BY DEF Extends
<1> HIDE DEF r, n, new
<1>6. /\ old.kind = s[n].kind /\ old.name = s[n].name
      /\ old.kind # "multiple" => IsInjective(old.methods)
      /\ \A m \in ToSet(old.methods) :
           \E p \in Promise!Places(s) : p[1] = n /\ who[p] = m
      /\ \A p \in Promise!Places(s) : p[1] = n =>
           /\ who[p] \in Owed(old)
           /\ old.kind = "multiple" => who[p] \in ToSet(old.methods)
  BY DEF MirrorsPhase, n
<1>7. ASSUME NEW m \in ToSet(item.methods)
      PROVE  \E p \in Promise!Places(r) : p[1] = n /\ w[p] = m
  <2>1. CASE m = h
    BY <1>1, <1>2, <1>5, <2>1
  <2>2. CASE m \in ToSet(old.methods)
    <3>1. PICK p \in Promise!Places(s) : p[1] = n /\ who[p] = m
      BY <1>6, <2>2
    <3> QED
      BY <1>1, <1>5, <3>1
  <2> QED
    BY <2>1, <2>2 DEF Grows
<1>8. ASSUME NEW p \in Promise!Places(r), p[1] = n
      PROVE  /\ w[p] \in Owed(item)
             /\ item.kind = "multiple" => w[p] \in ToSet(item.methods)
  <2>1. CASE p = new
    BY <1>5, <1>6, <2>1 DEF Grows
  <2>2. CASE p \in Promise!Places(s)
    BY <1>5, <1>6, <1>8, <2>2 DEF Grows
  <2> QED
    BY <1>1, <1>8, <2>1, <2>2
<1>9. MirrorsPhase(item, r, n, w, {})
  BY <1>3, <1>4, <1>6, <1>7, <1>8 DEF MirrorsPhase, Grows
<1> QED
  BY <1>9 DEF r, n

\* The script that any_order or multiple_times leaves, as FluentMock has it.
Rewritten(s, kind, g) ==
  LET rest == Front(s)
  IN IF rest # <<>> /\ Last(rest).kind = kind /\ Last(rest).name = g
     THEN [rest EXCEPT ![Len(rest)].calls = @ \o Last(s).calls]
     ELSE Append(rest, [kind |-> kind, name |-> g, calls |-> Last(s).calls])

\* Each place of s has a method of X of its own.
Owners(s, who, X) == who \in [Promise!Places(s) -> X] /\ Distinct(s, who)

\* The methods of s are those of r, each recorded for the same call.
Carries(s, who, X, r, w) ==
  /\ Owners(r, w, X)
  /\ \A p \in Promise!Places(r) :
       \E q \in Promise!Places(s) :
         w[p] = who[q] /\ Promise!Expected(r, p) = Promise!Expected(s, q)

\* One place of s is another one in r, and all others are the same.
Moves(s, r, old, new) ==
  /\ old \in Promise!Places(s)
  /\ \A p : p \in Promise!Places(r) <=> p = new \/ (p \in Promise!Places(s) /\ p # old)
  /\ Promise!Expected(r, new) = Promise!Expected(s, old)
  /\ \A p \in Promise!Places(s) :
       p # old => p # new /\ Promise!Expected(r, p) = Promise!Expected(s, p)

\* A method changes its place and all others keep theirs.
LEMMA PlaceMoved ==
  ASSUME NEW s, NEW X, NEW who, Owners(s, who, X),
         NEW r, NEW old, NEW new, Moves(s, r, old, new)
  PROVE  \E w : /\ Carries(s, who, X, r, w)
                /\ w[new] = who[old]
                /\ \A p \in Promise!Places(s) : p # old => w[p] = who[p]
<1> DEFINE w == [p \in Promise!Places(r) |-> IF p = new THEN who[old] ELSE who[p]]
<1>1. /\ w[new] = who[old]
      /\ \A p \in Promise!Places(s) : p # old => w[p] = who[p]
      /\ w \in [Promise!Places(r) -> X]
  BY DEF Moves, Owners
<1> HIDE DEF w
<1>2. Owners(r, w, X)
  BY <1>1 DEF Distinct, Moves, Owners
<1>3. \A p \in Promise!Places(r) :
        \E q \in Promise!Places(s) :
          w[p] = who[q] /\ Promise!Expected(r, p) = Promise!Expected(s, q)
  BY <1>1 DEF Moves
<1>4. Carries(s, who, X, r, w)
  BY <1>1, <1>2, <1>3 DEF Carries
<1> QED
  BY <1>1, <1>4

\* A group with one method.
LEMMA OwnGroup ==
  ASSUME NEW M, IsFiniteSet(M), NEW h \in M, NEW kind \in GroupKind, NEW g \in Group,
         NEW item \in WithMethod(EmptyGroup(kind, g), h)
  PROVE  item \in Item(M) /\ Alone(item, kind, g, h)
<1> DEFINE empty == EmptyGroup(kind, g)
<1>1. /\ empty.kind = kind /\ empty.name = g /\ ToSet(empty.methods) = {}
      /\ Owed(empty) = {} /\ IsInjective(empty.methods)
  BY DEF EmptyGroup, Owed, ToSet, IsInjective
<1>2. item \in WithMethod(empty, h) /\ empty \in Item(M)
  BY EmptyGroupType
<1> HIDE DEF empty
<1>3. item \in Item(M)
  BY <1>2, WithMethodType
<1>4. empty.kind \in GroupKind /\ h \notin ToSet(empty.methods)
  BY <1>1
<1>5. Grows(item, empty, h)
  BY <1>2, <1>4, WithMethodMirrors
<1> QED
  BY <1>1, <1>3, <1>5 DEF Grows, Alone

\* The last phase has one call, c.
EndsWith(s, c) == c \in Call /\ s[Len(s)].calls = <<c>>

\* The place of that call.
LastPlace(s) == <<Len(s), 1>>

\* The last phase has no other place.
LEMMA LonePlace ==
  ASSUME NEW s \in Seq(Phase), s # <<>>, NEW c, EndsWith(s, c)
  PROVE  /\ \A p : p \in Promise!Places(s) /\ p[1] = Len(s) <=> p = LastPlace(s)
         /\ Promise!Expected(s, LastPlace(s)) = c
<1>1. Len(s) \in Nat /\ Len(s) \in 1..Len(s)
  BY LenProperties, EmptySeq
<1>2. DOMAIN s[Len(s)].calls = {1} /\ s[Len(s)].calls[1] = c
  BY DEF EndsWith
<1>3. \A p : p \in Promise!Places(s) /\ p[1] = Len(s) <=>
               Len(s) \in 1..Len(s) /\ \E j \in DOMAIN s[Len(s)].calls : p = <<Len(s), j>>
  BY PlacesOfPhase
<1>4. \A p : p \in Promise!Places(s) /\ p[1] = Len(s) <=> p = LastPlace(s)
  BY <1>1, <1>2, <1>3 DEF LastPlace
<1> QED
  BY <1>2, <1>4 DEF Promise!Expected, LastPlace

\* The call recorded last becomes a group of its own.
LEMMA NewGroupMirrors ==
  ASSUME NEW M, IsFiniteSet(M), NEW queue \in Seq(Item(M)), queue # <<>>,
         NEW s \in Seq(Phase), Len(queue) = Len(s), NEW X,
         NEW who, Owners(s, who, X), Mirrors(queue, s, who, {}),
         NEW c, EndsWith(s, c), NEW h \in M, who[LastPlace(s)] = h,
         NEW kind \in GroupKind, NEW g \in Group,
         NEW item \in WithMethod(EmptyGroup(kind, g), h)
  PROVE  LET r == Append(Front(s), [kind |-> kind, name |-> g, calls |-> <<c>>])
             new == Append(Front(queue), item)
         IN  \E w : Carries(s, who, X, r, w) /\ Mirrors(new, r, w, {}) /\ Len(new) = Len(r)
<1> DEFINE phase == [kind |-> kind, name |-> g, calls |-> <<c>>]
           rest == Front(s)
           r == Append(rest, phase)
           old == LastPlace(s)
<1>1. phase \in Phase /\ phase.calls = <<c>> /\ phase.kind = kind /\ phase.name = g
  BY DEF Phase, EndsWith
<1>2. /\ Mirrors(Front(queue), rest, who, {})
      /\ s # <<>> /\ rest \in Seq(Phase) /\ Len(rest) = Len(s) - 1
      /\ Front(queue) \in Seq(Item(M)) /\ Len(Front(queue)) = Len(rest)
      /\ \A p : p \in Promise!Places(rest) <=> p \in Promise!Places(s) /\ p[1] # Len(s)
      /\ \A p \in Promise!Places(rest) :
           Promise!Expected(rest, p) = Promise!Expected(s, p)
  <2>1. /\ Mirrors(Front(queue), rest, who, {}) /\ s # <<>>
        /\ Front(queue) \in Seq(Item(M)) /\ Len(Front(queue)) = Len(rest)
    BY FrontMirrors
  <2> QED
    BY <2>1, FrontPlaces
<1>3. Len(s) \in Nat /\ Len(s) \in 1..Len(s) /\ Len(rest) + 1 = Len(s)
  BY <1>2, LenProperties, EmptySeq
<1>4. DOMAIN phase.calls = {1} /\ phase.calls[1] = c
  BY <1>1
<1>5. /\ \A p : p \in Promise!Places(r) <=> p \in Promise!Places(rest) \/ p = old
      /\ \A p \in Promise!Places(rest) :
           Promise!Expected(r, p) = Promise!Expected(rest, p)
      /\ Promise!Expected(r, old) = c
  <2> HIDE DEF phase, rest, old
  <2>1. /\ \A p : p \in Promise!Places(Append(rest, phase)) <=>
                     \/ p \in Promise!Places(rest)
                     \/ \E j \in DOMAIN phase.calls : p = <<Len(rest) + 1, j>>
        /\ \A p \in Promise!Places(rest) :
              p[1] # Len(rest) + 1
              /\ Promise!Expected(Append(rest, phase), p) = Promise!Expected(rest, p)
        /\ \A j \in DOMAIN phase.calls :
              Promise!Expected(Append(rest, phase), <<Len(rest) + 1, j>>) = phase.calls[j]
    BY <1>1, <1>2, AppendPlaces
  <2> QED
    BY <1>3, <1>4, <2>1 DEF old, LastPlace
<1>6. \A p : p \in Promise!Places(s) /\ p[1] = Len(s) <=> p = old
  BY <1>2, LonePlace
<1>7. Promise!Expected(s, old) = c
  BY <1>2, LonePlace
<1> HIDE DEF phase, rest, r, old
<1>8. Moves(s, r, old, old)
  BY <1>2, <1>5, <1>6, <1>7 DEF Moves
<1>9. PICK w : /\ Carries(s, who, X, r, w)
                /\ w[old] = who[old]
                /\ \A p \in Promise!Places(s) : p # old => w[p] = who[p]
  BY <1>8, PlaceMoved
<1>10. w[<<Len(rest) + 1, 1>>] = h
  BY <1>3, <1>9 DEF old, LastPlace
<1>11. Extends(w, rest, who)
  BY <1>2, <1>6, <1>9 DEF Extends
<1>12. item \in Item(M) /\ Alone(item, kind, g, h)
  BY OwnGroup
<1>13. MirrorsPhase(item, Append(rest, phase), Len(rest) + 1, w, {})
  BY <1>1, <1>2, <1>10, <1>12, LonePhase
<1>14. /\ Mirrors(Append(Front(queue), item), Append(rest, phase), w, {})
       /\ Len(Append(Front(queue), item)) = Len(Append(rest, phase))
  <2>1. /\ Front(queue) \in Seq(Item(M)) /\ rest \in Seq(Phase) /\ Len(Front(queue)) = Len(rest)
        /\ Mirrors(Front(queue), rest, who, {}) /\ item \in Item(M) /\ phase \in Phase
    BY <1>1, <1>2, <1>12
  <2> QED
    BY <1>11, <1>13, <2>1, AppendMirrors
<1> QED
  BY <1>9, <1>14 DEF r, rest, phase

\* The last phase gets one call more and the last group one method more.
LEMMA LongerMirrors ==
  ASSUME NEW M, IsFiniteSet(M), NEW queue \in Seq(Item(M)), queue # <<>>,
         NEW s \in Seq(Phase), Len(queue) = Len(s), NEW who, Mirrors(queue, s, who, {}),
         NEW phase, NEW c, LongerBy(s, phase, c),
         NEW h \in M, h \notin ToSet(Last(queue).methods),
         NEW item \in WithMethod(Last(queue), h),
         NEW w, w[NextPlace(s)] = h, Extends(w, s, who)
  PROVE  /\ Mirrors(Append(Front(queue), item), Append(Front(s), phase), w, {})
         /\ Len(Append(Front(queue), item)) = Len(Append(Front(s), phase))
<1> DEFINE last == Last(queue)
           n == Len(s)
           r == Append(Front(s), phase)
<1>1. /\ Mirrors(Front(queue), Front(s), who, {}) /\ s # <<>>
      /\ Front(queue) \in Seq(Item(M)) /\ Len(Front(queue)) = Len(Front(s))
      /\ last = queue[n] /\ MirrorsPhase(last, s, n, who, {})
  BY FrontMirrors
<1>2. n \in Nat /\ n \in 1..n /\ (n - 1) + 1 = n
  BY <1>1, LenProperties, EmptySeq
<1>3. /\ Front(s) \in Seq(Phase) /\ Len(Front(s)) = n - 1
      /\ \A p \in Promise!Places(Front(s)) : p \in Promise!Places(s)
  BY <1>1, FrontPlaces
<1>4. last \in Item(M)
  BY <1>1, <1>2, ElementOfSeq
<1>5. last.kind \in GroupKind /\ phase \in Phase
  BY <1>1 DEF MirrorsPhase, LongerBy
<1>6. item \in WithMethod(last, h) /\ h \notin ToSet(last.methods)
  OBVIOUS
<1> HIDE DEF last
<1>7. item \in Item(M)
  BY <1>4, <1>6, WithMethodType
<1>8. Grows(item, last, h)
  BY <1>4, <1>5, <1>6, WithMethodMirrors
<1>9. MirrorsPhase(item, r, n, w, {})
  <2>1. MirrorsPhase(last, s, Len(s), who, {}) /\ s # <<>>
    BY <1>1
  <2> QED
    BY <1>8, <2>1, LongerPhase, SMTT(30)
<1>10. MirrorsPhase(item, Append(Front(s), phase), Len(Front(s)) + 1, w, {})
  BY <1>2, <1>3, <1>9
<1>11. Extends(w, Front(s), who)
  BY <1>3 DEF Extends
<1> QED
  BY <1>1, <1>3, <1>5, <1>7, <1>10, <1>11, AppendMirrors, SMTT(30)

\* The call recorded last becomes part of the group before it.
LEMMA JoinedGroupMirrors ==
  ASSUME NEW M, IsFiniteSet(M), NEW queue \in Seq(Item(M)), queue # <<>>,
         NEW s \in Seq(Phase), Len(queue) = Len(s), NEW X,
         NEW who, Owners(s, who, X), Mirrors(queue, s, who, {}),
         NEW c, EndsWith(s, c), NEW h \in M, who[LastPlace(s)] = h,
         NEW rest, rest = Front(s), rest # <<>>, NEW phase, LongerBy(rest, phase, c),
         NEW item \in WithMethod(Last(Front(queue)), h)
  PROVE  LET r == Append(Front(rest), phase)
             new == Append(Front(Front(queue)), item)
         IN  \E w : Carries(s, who, X, r, w) /\ Mirrors(new, r, w, {}) /\ Len(new) = Len(r)
<1> DEFINE old == LastPlace(s)
           new == NextPlace(rest)
           front == Front(queue)
           r == Append(Front(rest), phase)
<1>1. /\ Mirrors(front, rest, who, {}) /\ s # <<>>
      /\ front \in Seq(Item(M)) /\ Len(front) = Len(rest)
  BY FrontMirrors
<1>2. /\ rest \in Seq(Phase) /\ Len(rest) = Len(s) - 1
      /\ \A p : p \in Promise!Places(rest) <=> p \in Promise!Places(s) /\ p[1] # Len(s)
      /\ \A p \in Promise!Places(rest) :
           Promise!Expected(rest, p) = Promise!Expected(s, p)
  BY <1>1, FrontPlaces
<1>3. front # <<>>
  <2>1. Len(rest) # 0
    BY <1>2, EmptySeq
  <2> QED
    BY <1>1, <2>1, LenProperties, EmptySeq
<1>4. /\ \A p : p \in Promise!Places(s) /\ p[1] = Len(s) <=> p = old
      /\ Promise!Expected(s, old) = c
  BY <1>1, LonePlace
<1>5. item \in WithMethod(Last(front), h)
  OBVIOUS
<1> HIDE DEF front
<1>6. /\ \A p : p \in Promise!Places(r) <=> p = new \/ p \in Promise!Places(rest)
      /\ new \notin Promise!Places(rest)
      /\ \A p \in Promise!Places(rest) : Promise!Expected(r, p) = Promise!Expected(rest, p)
      /\ Promise!Expected(r, new) = c
  BY <1>2, LongerPlaces
<1> HIDE DEF old, r, new
<1>7. Moves(s, r, old, new)
  BY <1>2, <1>4, <1>6 DEF Moves
<1>8. PICK w : /\ Carries(s, who, X, r, w)
               /\ w[new] = who[old]
               /\ \A p \in Promise!Places(s) : p # old => w[p] = who[p]
  BY <1>7, PlaceMoved
<1>9. Extends(w, rest, who)
  BY <1>2, <1>4, <1>8 DEF Extends
<1>10. h \notin ToSet(Last(front).methods)
  <2>1. Distinct(s, who) /\ who[old] = h
    BY DEF Owners, old
  <2>2. \A p \in Promise!Places(rest) : who[p] # h
    BY <1>2, <1>4, <2>1 DEF Distinct
  <2>3. MirrorsPhase(Last(front), rest, Len(rest), who, {})
    BY <1>1, <1>2, <1>3, FrontMirrors
  <2> QED
    BY <2>2, <2>3 DEF MirrorsPhase
<1>11. w[NextPlace(rest)] = h
  BY <1>8 DEF new, old
<1>12. /\ Mirrors(Append(Front(front), item), r, w, {})
       /\ Len(Append(Front(front), item)) = Len(r)
  BY <1>1, <1>2, <1>3, <1>5, <1>9, <1>10, <1>11, LongerMirrors DEF r
<1> QED
  BY <1>8, <1>12 DEF r, front

\* A single call has a phase with one call.
LoneCalls(s) == \A i \in 1..Len(s) : s[i].kind = "method" => Len(s[i].calls) = 1

\* Appending a phase leaves a script.
LEMMA LoneCallsKept ==
  ASSUME NEW s \in Seq(Phase), LoneCalls(s), NEW phase \in Phase,
         phase.kind = "method" => Len(phase.calls) = 1
  PROVE  /\ Front(s) \in Seq(Phase) /\ LoneCalls(Front(s))
         /\ Append(s, phase) \in Seq(Phase) /\ LoneCalls(Append(s, phase))
<1>1. Len(s) \in Nat
  BY LenProperties
<1>2. Append(s, phase) \in Seq(Phase) /\ LoneCalls(Append(s, phase))
  <2> DEFINE r == Append(s, phase)
  <2>1. /\ r \in Seq(Phase) /\ Len(r) = Len(s) + 1 /\ r[Len(s) + 1] = phase
        /\ \A i \in 1..Len(s) : r[i] = s[i]
    BY AppendProperties
  <2> HIDE DEF r
  <2>2. \A i \in 1..Len(r) : i = Len(s) + 1 \/ i \in 1..Len(s)
    BY <1>1, <2>1
  <2>3. LoneCalls(r)
    BY <2>1, <2>2 DEF LoneCalls
  <2> QED
    BY <2>1, <2>3 DEF r
<1>3. Front(s) \in Seq(Phase) /\ LoneCalls(Front(s))
  <2> DEFINE r == Front(s)
  <2>1. CASE s = <<>>
    <3>1. Front(s) = <<>>
      BY <2>1 DEF Front
    <3> QED
      BY <3>1, EmptySeq DEF LoneCalls
  <2>2. CASE s # <<>>
    <3>1. /\ r \in Seq(Phase) /\ Len(r) = Len(s) - 1
          /\ \A i \in 1..(Len(s) - 1) : r[i] = s[i]
      BY <2>2, FrontPlaces
    <3> HIDE DEF r
    <3>2. \A i \in 1..Len(r) : i \in 1..(Len(s) - 1) /\ i \in 1..Len(s)
      BY <1>1, <3>1
    <3>3. LoneCalls(r)
      BY <3>1, <3>2 DEF LoneCalls
    <3> QED
      BY <3>1, <3>3 DEF r
  <2> QED
    BY <2>1, <2>2
<1> QED
  BY <1>2, <1>3

\* To replace the last element is to append to the front.
LEMMA LastReplaced ==
  ASSUME NEW S, NEW s \in Seq(S), s # <<>>, NEW e \in S
  PROVE  [s EXCEPT ![Len(s)] = e] = Append(Front(s), e)
<1> DEFINE n == Len(s)
           r == [s EXCEPT ![n] = e]
           front == Front(s)
           new == Append(front, e)
<1>1. PICK m \in Nat : n = m + 1
  <2>1. n \in Nat \ {0}
    BY EmptySeq
  <2>2. n - 1 \in Nat /\ n = (n - 1) + 1
    BY <2>1
  <2> QED
    BY <2>2
<1> HIDE DEF n
<1>2. n - 1 = m /\ n \in 1..n /\ \A i \in 1..n : i = n \/ i \in 1..m
  BY <1>1
<1>3. /\ r \in Seq(S) /\ Len(r) = n
      /\ \A i \in 1..n : r[i] = IF i = n THEN e ELSE s[i]
  BY <1>2, ExceptSeq DEF n
<1>4. front \in Seq(S) /\ Len(front) = m /\ \A i \in 1..m : front[i] = s[i]
  BY <1>2, FrontProperties DEF n
<1> HIDE DEF front
<1>5. /\ new \in Seq(S) /\ Len(new) = m + 1 /\ new[m + 1] = e
      /\ \A i \in 1..m : new[i] = front[i]
  BY <1>4, AppendProperties
<1> HIDE DEF r, new
<1>6. \A i \in 1..n : r[i] = new[i]
  BY <1>1, <1>2, <1>3, <1>4, <1>5
<1> QED
  BY <1>1, <1>3, <1>5, <1>6, SeqEqual DEF r, new, n, front

\* A phase with other calls.
LEMMA CallsReplaced ==
  ASSUME NEW phase \in Phase, NEW x
  PROVE  [phase EXCEPT !.calls = x] = [kind |-> phase.kind, name |-> phase.name, calls |-> x]
BY DEF Phase

\* What a modifier makes of the script: the last call in a phase of its own, or in the
\* phase before it.
LEMMA RewrittenCases ==
  ASSUME NEW s \in Seq(Phase), s # <<>>, LoneCalls(s), NEW c, EndsWith(s, c),
         NEW kind \in GroupKind, NEW g \in Group
  PROVE  LET rest == Front(s)
             r == Rewritten(s, kind, g)
         IN  /\ r \in Seq(Phase) /\ LoneCalls(r)
             /\ \/ /\ ~(rest # <<>> /\ Last(rest).kind = kind /\ Last(rest).name = g)
                   /\ r = Append(rest, [kind |-> kind, name |-> g, calls |-> <<c>>])
                \/ /\ rest # <<>> /\ Last(rest).kind = kind /\ Last(rest).name = g
                   /\ \E phase : /\ LongerBy(rest, phase, c)
                                 /\ r = Append(Front(rest), phase)
<1> DEFINE rest == Front(s)
           n == Len(rest)
           r == Rewritten(s, kind, g)
           own == [kind |-> kind, name |-> g, calls |-> <<c>>]
           joined == [kind |-> kind, name |-> g, calls |-> Append(rest[n].calls, c)]
<1>1. rest \in Seq(Phase) /\ n \in Nat /\ kind # "method" /\ kind \in GroupKind
  BY FrontPlaces, LenProperties DEF GroupKind
<1>2. Last(s).calls = <<c>> /\ c \in Call
  BY DEF EndsWith, Last
<1>3. own \in Phase /\ own.kind = kind
  BY <1>2 DEF Phase
<1>4. LoneCalls(rest)
  BY <1>3, <1>1, LoneCallsKept
<1>5. CASE ~(rest # <<>> /\ Last(rest).kind = kind /\ Last(rest).name = g)
  <2>1. r = Append(rest, own)
    BY <1>2, <1>5 DEF Rewritten
  <2>2. r \in Seq(Phase) /\ LoneCalls(r)
    <3> HIDE DEF own, rest
    <3> QED
      BY <1>1, <1>3, <1>4, <2>1, LoneCallsKept
  <2> QED
    BY <1>5, <2>1, <2>2
<1>6. CASE rest # <<>> /\ Last(rest).kind = kind /\ Last(rest).name = g
  <2>1. n \in 1..n /\ n >= 1 /\ (n - 1) + 1 = n
    BY <1>1, <1>6, EmptySeq
  <2>2. rest[n] \in Phase /\ rest[n].kind = kind /\ rest[n].name = g
    BY <1>1, <1>6, <2>1, ElementOfSeq DEF Last
  <2>3. rest[n].calls \in Seq(Call)
    BY <2>2 DEF Phase
  <2>4. joined \in Phase /\ joined.kind = kind
    BY <1>2, <2>3, AppendProperties DEF Phase
  <2>5. LongerBy(rest, joined, c)
    BY <1>1, <1>2, <2>2, <2>4 DEF LongerBy
  <2>6. r = [rest EXCEPT ![n].calls = @ \o <<c>>]
    BY <1>2, <1>6 DEF Rewritten
  <2>7. r = [rest EXCEPT ![n] = joined]
    <3>1. rest[n].calls \o <<c>> = Append(rest[n].calls, c)
      <4> DEFINE old == rest[n].calls
      <4>1. old \in Seq(Call)
        BY <2>3
      <4> HIDE DEF old
      <4>2. old \o <<c>> = Append(old, c)
        BY <1>2, <4>1
      <4> QED
        BY <4>2 DEF old
    <3>2. \A x : [rest[n] EXCEPT !.calls = x] =
                     [kind |-> rest[n].kind, name |-> rest[n].name, calls |-> x]
      BY <2>2, CallsReplaced
    <3>3. [rest[n] EXCEPT !.calls = @ \o <<c>>] = joined
      BY <2>2, <3>1, <3>2
    <3> QED
      BY <2>6, <3>3
  <2>8. r = Append(Front(rest), joined)
    <3> HIDE DEF rest, joined, r
    <3> QED
      BY <1>1, <1>6, <2>4, <2>7, LastReplaced
  <2>9. r \in Seq(Phase) /\ LoneCalls(r)
    <3>1. Front(rest) \in Seq(Phase) /\ LoneCalls(Front(rest))
      BY <1>1, <1>3, <1>4, LoneCallsKept
    <3> HIDE DEF joined, r, rest
    <3> QED
      BY <1>1, <2>4, <2>8, <3>1, LoneCallsKept
  <2> QED
    BY <1>6, <2>5, <2>8, <2>9
<1> QED
  BY <1>5, <1>6

\* The method recorded last is that of the last place.
LEMMA LastMethod ==
  ASSUME NEW M, NEW queue \in Seq(Item(M)), queue # <<>>,
         NEW s \in Seq(Phase), Len(queue) = Len(s), NEW who, Mirrors(queue, s, who, {}),
         NEW c, EndsWith(s, c), NEW h, Last(queue) = Single(h)
  PROVE  s # <<>> /\ LastPlace(s) \in Promise!Places(s) /\ who[LastPlace(s)] = h
<1>1. s # <<>> /\ MirrorsPhase(Last(queue), s, Len(s), who, {})
  BY FrontMirrors
<1>2. h \in ToSet(Last(queue).methods)
  BY DEF Single, ToSet
<1>3. PICK p \in Promise!Places(s) : p[1] = Len(s) /\ who[p] = h
  BY <1>1, <1>2 DEF MirrorsPhase
<1>4. \A x : x \in Promise!Places(s) /\ x[1] = Len(s) <=> x = LastPlace(s)
  BY <1>1, LonePlace
<1> QED
  BY <1>1, <1>3, <1>4

\* The queue without its last element ends with the group exactly when the script does.
LEMMA SameGroupJoined ==
  ASSUME NEW M, NEW queue \in Seq(Item(M)), queue # <<>>,
         NEW s \in Seq(Phase), Len(queue) = Len(s), NEW who, Mirrors(queue, s, who, {}),
         NEW kind, NEW g
  PROVE  JoinsGroup(Front(queue), kind, g) <=>
           Front(s) # <<>> /\ Last(Front(s)).kind = kind /\ Last(Front(s)).name = g
<1> DEFINE front == Front(queue)
           rest == Front(s)
<1>1. /\ front \in Seq(Item(M)) /\ rest \in Seq(Phase) /\ Len(front) = Len(rest)
      /\ Mirrors(front, rest, who, {})
  BY FrontMirrors, FrontPlaces
<1> HIDE DEF front, rest
<1>2. front # <<>> <=> rest # <<>>
  BY <1>1, EmptySeq
<1>3. ASSUME front # <<>>
      PROVE  Last(front).kind = Last(rest).kind /\ Last(front).name = Last(rest).name
  <2>1. MirrorsPhase(Last(front), rest, Len(rest), who, {})
    BY <1>1, <1>3, FrontMirrors
  <2> QED
    BY <2>1 DEF MirrorsPhase, Last
<1>4. JoinsGroup(front, kind, g) <=> rest # <<>> /\ Last(rest).kind = kind /\ Last(rest).name = g
  BY <1>2, <1>3 DEF JoinsGroup, IsGroup
<1> QED
  BY <1>4 DEF front, rest

\* any_order and multiple_times keep the queue the mirror of the script.
LEMMA GroupedMirrors ==
  ASSUME NEW M, IsFiniteSet(M), NEW queue \in Seq(Item(M)), queue # <<>>,
         NEW s \in Seq(Phase), LoneCalls(s), Len(queue) = Len(s), NEW X,
         NEW who, Owners(s, who, X), Mirrors(queue, s, who, {}),
         NEW c, EndsWith(s, c), NEW h \in M, Last(queue) = Single(h),
         NEW kind \in GroupKind, NEW g \in Group, NEW new \in Grouped(queue, h, kind, g)
  PROVE  LET r == Rewritten(s, kind, g)
         IN  /\ r \in Seq(Phase) /\ LoneCalls(r)
             /\ \E w : Carries(s, who, X, r, w) /\ Mirrors(new, r, w, {}) /\ Len(new) = Len(r)
<1> DEFINE rest == Front(s)
           r == Rewritten(s, kind, g)
           own == [kind |-> kind, name |-> g, calls |-> <<c>>]
           joins == JoinsGroup(Front(queue), kind, g)
<1>1. s # <<>> /\ who[LastPlace(s)] = h
  BY LastMethod
<1>2. /\ r \in Seq(Phase) /\ LoneCalls(r)
      /\ \/ /\ ~(rest # <<>> /\ Last(rest).kind = kind /\ Last(rest).name = g)
            /\ r = Append(rest, own)
         \/ /\ rest # <<>> /\ Last(rest).kind = kind /\ Last(rest).name = g
            /\ \E phase : /\ LongerBy(rest, phase, c)
                          /\ r = Append(Front(rest), phase)
  BY <1>1, RewrittenCases
<1>3. joins <=> rest # <<>> /\ Last(rest).kind = kind /\ Last(rest).name = g
  BY SameGroupJoined
<1> HIDE DEF r
<1>4. CASE ~joins
  <2>1. PICK item \in WithMethod(EmptyGroup(kind, g), h) : new = Append(Front(queue), item)
    BY <1>4 DEF Grouped
  <2>2. r = Append(rest, own)
    BY <1>2, <1>3, <1>4
  <2>3. \E w : /\ Carries(s, who, X, Append(rest, own), w)
               /\ Mirrors(Append(Front(queue), item), Append(rest, own), w, {})
               /\ Len(Append(Front(queue), item)) = Len(Append(rest, own))
    BY <1>1, <2>1, NewGroupMirrors
  <2> QED
    BY <1>2, <2>1, <2>2, <2>3 DEF r
<1>5. CASE joins
  <2>1. PICK item \in WithMethod(Last(Front(queue)), h) :
               new = Append(Front(Front(queue)), item)
    BY <1>5 DEF Grouped
  <2>2. PICK phase : LongerBy(rest, phase, c) /\ r = Append(Front(rest), phase)
    BY <1>2, <1>3, <1>5
  <2>3. rest # <<>>
    BY <1>3, <1>5
  <2> HIDE DEF joins
  <2>4. \E w : /\ Carries(s, who, X, Append(Front(rest), phase), w)
               /\ Mirrors(Append(Front(Front(queue)), item), Append(Front(rest), phase), w, {})
               /\ Len(Append(Front(Front(queue)), item)) = Len(Append(Front(rest), phase))
    BY <1>1, <2>1, <2>2, <2>3, JoinedGroupMirrors
  <2> QED
    BY <1>2, <2>1, <2>2, <2>4 DEF r
<1> QED
  BY <1>4, <1>5

-----------------------------------------------------------------------------
(***************************************************************************)
(* The queue follows the script s when the calls t were answered: f counts *)
(* them for places of the script, and the queue is what f leaves of it.    *)
(***************************************************************************)
Follows(queue, s, t, who, f) ==
  /\ f \in Promise!Assignments(s, t) /\ Promise!Explains(s, t, f)
  /\ Mirrors(queue, s, who, Counted(t, f))
  /\ Settled(queue, s, t, f)
  /\ Promise!Ambiguous(s) \/ Unambiguous(s, t, f)

\* The methods that a call c finds equal to it are those recorded for a fitting call.
HitsFit(s, who, hits, c) ==
  \A p \in Promise!Places(s) : who[p] \in hits <=> Fits(Promise!Expected(s, p), c)

\* Before the first call the queue mirrors the script and has nothing to follow.
LEMMA FollowsNothing ==
  ASSUME NEW s \in Seq(Phase), NEW queue, NEW who
  PROVE  Mirrors(queue, s, who, {}) <=> \E f : Follows(queue, s, <<>>, who, f)
<1> DEFINE none == [i \in {} |-> i]
<1>1. <<>> \in Seq(Call) /\ Len(<<>>) = 0 /\ DOMAIN <<>> = {} /\ 1..0 = {}
  BY EmptySeq
<1>2. \A f : Counted(<<>>, f) = {}
  BY <1>1 DEF Counted
<1>3. none \in Promise!Assignments(s, <<>>)
  BY <1>1 DEF Promise!Assignments
<1> HIDE DEF none
<1>4. \A f : Promise!Explains(s, <<>>, f) /\ Settled(queue, s, <<>>, f) /\ Unambiguous(s, <<>>, f)
  BY <1>1 DEF Promise!Explains, Settled, Unambiguous, Agree
<1> QED
  BY <1>2, <1>3, <1>4 DEF Follows

\* One way to count one call more agrees with every other one.
LEMMA OneMoreUnambiguous ==
  ASSUME NEW s \in Seq(Phase), ~Promise!Ambiguous(s), NEW t \in Seq(Call), NEW c \in Call,
         NEW f, Unambiguous(s, t, f),
         NEW e \in Promise!Assignments(s, Append(t, c)),
         Promise!Explains(s, Append(t, c), e), \A i \in 1..Len(t) : e[i] = f[i]
  PROVE  Unambiguous(s, Append(t, c), e)
<1> DEFINE u == Append(t, c)
<1> SUFFICES ASSUME NEW g \in Promise!Assignments(s, u), Promise!Explains(s, u, g)
             PROVE  Agree(s, u, e, g)
  BY DEF Unambiguous
<1> DEFINE less == [i \in 1..Len(t) |-> g[i]]
<1>1. less \in Promise!Assignments(s, t) /\ Promise!Explains(s, t, less)
  BY FewerExplained, SMTT(30)
<1>2. \A i \in 1..Len(t) : less[i] = g[i]
  OBVIOUS
<1> HIDE DEF less
<1>3. Agree(s, t, f, less)
  BY <1>1 DEF Unambiguous
<1>4. Agree(s, t, e, g)
  BY <1>2, <1>3 DEF Agree
<1> QED
  BY <1>4, LastAgrees

\* Answering a call: the queue that is left follows the script, with the call counted
\* for the place that its method was recorded for.
LEMMA FollowsServed ==
  ASSUME NEW M, NEW queue \in Seq(Item(M)), NEW s \in Seq(Phase), NEW X,
         NEW who, Owners(s, who, X), NEW t \in Seq(Call), NEW c \in Call,
         NEW f, Follows(queue, s, t, who, f), NEW hits, HitsFit(s, who, hits, c),
         NEW k \in DOMAIN queue, Reaches(queue, hits, k),
         NEW i \in DOMAIN queue[k].methods, queue[k].methods[i] \in hits
  PROVE  LET new == Remaining(queue[k], i) \o Beyond(queue, k)
         IN  \E e : Follows(new, s, Append(t, c), who, e)
<1> DEFINE u == Append(t, c)
           used == Counted(t, f)
           new == Remaining(queue[k], i) \o Beyond(queue, k)
<1>1. /\ f \in Promise!Assignments(s, t) /\ Promise!Explains(s, t, f)
      /\ Mirrors(queue, s, who, used) /\ Distinct(s, who)
      /\ Promise!Ambiguous(s) \/ Unambiguous(s, t, f)
  BY DEF Follows, Owners
<1>2. /\ Len(queue) \in Nat /\ DOMAIN queue = 1..Len(queue) /\ k \in 1..Len(queue)
      /\ queue[k].methods[i] \in ToSet(queue[k].methods)
  BY LenProperties DEF ToSet
<1>3. used \in SUBSET Promise!Places(s)
  BY <1>1, Explained DEF Counted
<1>4. PICK p \in Promise!Places(s) : p[1] = Behind(queue, s) + k /\ who[p] = queue[k].methods[i]
  <2>1. MirrorsPhase(queue[k], s, Behind(queue, s) + k, who, used)
    BY <1>1, <1>2 DEF Mirrors
  <2> QED
    BY <1>2, <2>1 DEF MirrorsPhase
<1>5. Fits(Promise!Expected(s, p), c)
  BY <1>4 DEF HitsFit
<1> HIDE DEF used
<1>6. LeadsTo(s, used, p)
  <2>1. /\ who[p] \in ToSet(queue[k].methods) /\ p[1] = Behind(queue, s) + k
        /\ Len(queue) \in Nat /\ k \in 1..Len(queue)
        /\ Mirrors(queue, s, who, used) /\ used \in SUBSET Promise!Places(s)
    BY <1>1, <1>2, <1>3, <1>4
  <2> HIDE DEF u, new
  <2> QED
    BY <2>1, PlaceServed
<1>7. PICK e : /\ e \in Promise!Assignments(s, u) /\ Promise!Explains(s, u, e)
               /\ Counted(u, e) = used \cup {p}
               /\ u # <<>> /\ e[Len(u)] = p
               /\ \A j \in 1..Len(t) : e[j] = f[j]
  <2>1. PICK e : CountsOneMore(e, s, t, c, f, p)
    BY <1>1, <1>5, <1>6, OneMoreExplained DEF used
  <2>2. /\ e \in Promise!Assignments(s, u) /\ Promise!Explains(s, u, e)
        /\ Counted(u, e) = used \cup {p}
        /\ u # <<>> /\ e[Len(u)] = p
        /\ \A j \in 1..Len(t) : e[j] = f[j]
    BY <2>1 DEF CountsOneMore, used
  <2> QED
    BY <2>2
<1>8. /\ Mirrors(new, s, who, used \cup {p})
      /\ p[1] <= Behind(new, s) => ~Promise!Repeatable(s, p)
  BY <1>1, <1>3, <1>4, ServedMirrors
<1> HIDE DEF new, u
<1>9. Settled(new, s, u, e)
  BY <1>7, <1>8 DEF Settled
<1>10. Promise!Ambiguous(s) \/ Unambiguous(s, u, e)
  BY <1>1, <1>7, OneMoreUnambiguous DEF u
<1>11. Follows(new, s, u, who, e)
  BY <1>7, <1>8, <1>9, <1>10 DEF Follows
<1> QED
  BY <1>11 DEF new, u

\* Refusing a call: the script does not allow it after the calls answered so far.
LEMMA FollowsRefused ==
  ASSUME NEW M, NEW queue \in Seq(Sound(M)), NEW s \in Seq(Phase),
         NEW who, NEW t \in Seq(Call), NEW c \in Call,
         NEW f, Follows(queue, s, t, who, f), NEW hits, HitsFit(s, who, hits, c),
         NEW k \in 1..(Len(queue) + 1), Reaches(queue, hits, k),
         k \in DOMAIN queue => NoHit(queue[k], hits)
  PROVE  Promise!Ambiguous(s) \/ ~Promise!Allowed(s, Append(t, c))
<1>1. queue \in Seq(Item(M))
  BY SeqMonotonic DEF Sound
<1>2. \A j \in 1..Len(queue) : Satisfiable(queue[j])
  BY ElementOfSeq DEF Sound
<1>3. \A p \in Promise!Places(s) : Fits(Promise!Expected(s, p), c) => who[p] \in hits
  BY DEF HitsFit
<1>4. /\ f \in Promise!Assignments(s, t) /\ Promise!Explains(s, t, f)
      /\ Mirrors(queue, s, who, Counted(t, f)) /\ Settled(queue, s, t, f)
      /\ Promise!Ambiguous(s) \/ Unambiguous(s, t, f)
  BY DEF Follows
<1> QED
  BY <1>1, <1>2, <1>3, <1>4, RefusedRightly

\* Verify: the queue expects nothing any more when the script was run to its end, and
\* only then when the script is not ambiguous.
LEMMA FollowsVerified ==
  ASSUME NEW M, NEW queue \in Seq(Sound(M)), NEW s \in Seq(Phase),
         NEW who, NEW t \in Seq(Call), NEW f, Follows(queue, s, t, who, f)
  PROVE  /\ Emptied(queue) => Promise!Fulfilled(s, t)
         /\ ~Emptied(queue) => Promise!Ambiguous(s) \/ ~Promise!Fulfilled(s, t)
<1>1. queue \in Seq(Item(M))
  BY SeqMonotonic DEF Sound
<1>2. \A j \in 1..Len(queue) : Satisfiable(queue[j])
  BY ElementOfSeq DEF Sound
<1>3. /\ f \in Promise!Assignments(s, t) /\ Promise!Explains(s, t, f)
      /\ Mirrors(queue, s, who, Counted(t, f))
      /\ Promise!Ambiguous(s) \/ Unambiguous(s, t, f)
  BY DEF Follows
<1>4. Emptied(queue) => Promise!Fulfilled(s, t)
  BY <1>3, FinishedRightly
<1>5. ~Emptied(queue) => Promise!Ambiguous(s) \/ ~Promise!Fulfilled(s, t)
  BY <1>1, <1>2, <1>3, UnfinishedRightly
<1> QED
  BY <1>4, <1>5

\* The methods of r are those of s and m, recorded for the call c.
Adds(s, who, X, m, c, r, w) ==
  /\ Owners(r, w, X \cup {m})
  /\ \A p \in Promise!Places(r) :
       \/ w[p] = m /\ Promise!Expected(r, p) = c
       \/ /\ p \in Promise!Places(s) /\ w[p] = who[p]
          /\ Promise!Expected(r, p) = Promise!Expected(s, p)

\* A recorded call: one phase more, and one method more that was recorded for it.
LEMMA RecordedMirrors ==
  ASSUME NEW M, NEW queue \in Seq(Item(M)), NEW s \in Seq(Phase), LoneCalls(s),
         Len(queue) = Len(s), NEW X, NEW who, Owners(s, who, X), Mirrors(queue, s, who, {}),
         NEW c \in Call, NEW m \in M, m \notin X
  PROVE  LET r == Append(s, [kind |-> "method", name |-> NoGroup, calls |-> <<c>>])
             new == Append(queue, Single(m))
         IN  /\ r \in Seq(Phase) /\ LoneCalls(r) /\ Len(new) = Len(r)
             /\ \E w : Adds(s, who, X, m, c, r, w) /\ Mirrors(new, r, w, {})
<1> DEFINE phase == [kind |-> "method", name |-> NoGroup, calls |-> <<c>>]
           r == Append(s, phase)
           last == <<Len(s) + 1, 1>>
           w == [p \in Promise!Places(r) |-> IF p = last THEN m ELSE who[p]]
<1>1. phase \in Phase /\ phase.calls = <<c>> /\ Len(phase.calls) = 1
  BY DEF Phase
<1>2. DOMAIN phase.calls = {1} /\ phase.calls[1] = c
  BY <1>1
<1>3. Alone(Single(m), phase.kind, phase.name, m)
  BY DEF Alone, Single, ToSet, Owed, IsInjective
<1> HIDE DEF phase
<1>4. r \in Seq(Phase) /\ LoneCalls(r)
  BY <1>1, LoneCallsKept
<1>5. /\ \A p : p \in Promise!Places(r) <=>
                  \/ p \in Promise!Places(s)
                  \/ \E j \in DOMAIN phase.calls : p = <<Len(s) + 1, j>>
      /\ \A p \in Promise!Places(s) :
           p[1] # Len(s) + 1 /\ Promise!Expected(r, p) = Promise!Expected(s, p)
      /\ \A j \in DOMAIN phase.calls : Promise!Expected(r, <<Len(s) + 1, j>>) = phase.calls[j]
  BY <1>1, AppendPlaces
<1>6. /\ \A p : p \in Promise!Places(r) <=> p \in Promise!Places(s) \/ p = last
      /\ \A p \in Promise!Places(s) : p # last
      /\ Promise!Expected(r, last) = c
  BY <1>2, <1>5
<1> HIDE DEF r, last
<1>7. /\ w \in [Promise!Places(r) -> X \cup {m}] /\ w[last] = m
      /\ \A p \in Promise!Places(s) : w[p] = who[p] /\ who[p] \in X
  BY <1>6 DEF Owners
<1> HIDE DEF w
<1>8. Owners(r, w, X \cup {m})
  BY <1>6, <1>7 DEF Owners, Distinct
<1>9. Extends(w, s, who)
  BY <1>7 DEF Extends
<1>10. Single(m) \in Item(M)
  BY SingleType
<1>11. MirrorsPhase(Single(m), r, Len(s) + 1, w, {})
  <2>1. w[<<Len(s) + 1, 1>>] = m
    BY <1>7 DEF last
  <2> QED
    BY <1>1, <1>3, <2>1, LonePhase DEF r
<1>12. Mirrors(Append(queue, Single(m)), r, w, {}) /\ Len(Append(queue, Single(m))) = Len(r)
  <2>1. MirrorsPhase(Single(m), Append(s, phase), Len(s) + 1, w, {})
    BY <1>11 DEF r
  <2> QED
    BY <1>1, <1>9, <1>10, <2>1, AppendMirrors DEF r
<1>13. \A p \in Promise!Places(r) :
         \/ w[p] = m /\ Promise!Expected(r, p) = c
         \/ /\ p \in Promise!Places(s) /\ w[p] = who[p]
            /\ Promise!Expected(r, p) = Promise!Expected(s, p)
  BY <1>5, <1>6, <1>7
<1>14. Adds(s, who, X, m, c, r, w)
  BY <1>8, <1>13 DEF Adds
<1> QED
  BY <1>4, <1>12, <1>14 DEF r, phase

-----------------------------------------------------------------------------
(***************************************************************************)
(* The invariant of the mock with its script.                              *)
(***************************************************************************)
\* The methods were recorded for the calls of the script.
Recorded(ms, s, who) ==
  /\ Owners(s, who, DOMAIN ms)
  /\ \A p \in Promise!Places(s) : /\ ms[who[p]].name = Promise!Expected(s, p).name
                                  /\ ms[who[p]].args = Promise!Expected(s, p).args

\* The methods and the queue follow the script in some way.
Tracks(ms, queue, s, t) == \E who, f : Recorded(ms, s, who) /\ Follows(queue, s, t, who, f)

\* The phases have their types, and a single call is a phase of its own.
ScriptTypeOK == script \in Seq(Phase) /\ LoneCalls(script)

\* While the script is written nothing is answered, and each phase has its item.
Writing == ~replaying => answered = <<>> /\ Len(CurrentQueue) = Len(script)

\* Until a call is refused the queue follows the script.
Tracking == (replaying /\ thrown) \/ Tracks(methods, CurrentQueue, script, answered)

\* All together.
ScriptInv == HistoryInv /\ QueuesInOrder /\ ScriptTypeOK /\ Writing /\ Tracking

\* What the invariant says of the queue of the mock.
LEMMA CurrentIsSound ==
  ASSUME ScriptInv
  PROVE  /\ QueueInv /\ answered \in Seq(Call) /\ script \in Seq(Phase)
         /\ CurrentQueue \in Seq(Item(MethodIds)) /\ CurrentQueue \in Seq(Sound(MethodIds))
         /\ methods \in Seq(MockMethod) /\ Len(methods) \in Nat
         /\ DOMAIN methods = 1..Len(methods) /\ DOMAIN methods \subseteq MethodIds
         /\ IsFiniteSet(MethodIds)
<1>1. QueueInv /\ answered \in Seq(Call) /\ script \in Seq(Phase)
  BY DEF ScriptInv, HistoryInv, HistoryTypeOK, ScriptTypeOK
<1>2. Current \in DOMAIN queues
  BY <1>1, CurrentQueueType
<1>3. CurrentQueue \in Seq(Sound(MethodIds))
  BY <1>2 DEF ScriptInv, QueuesInOrder, Ordered, CurrentQueue
<1>4. CurrentQueue \in Seq(Item(MethodIds))
  BY <1>3, SeqMonotonic DEF Sound
<1>5. methods \in Seq(MockMethod) /\ Len(methods) \in Nat /\ DOMAIN methods = 1..Len(methods)
  BY <1>1, LenProperties DEF QueueInv
<1>6. IsFiniteSet(MethodIds)
  BY BoundsAssumption, FS_Interval DEF MethodIds
<1>7. DOMAIN methods \subseteq MethodIds
  BY <1>1, <1>5, BoundsAssumption DEF QueueInv, MethodIds
<1> QED
  BY <1>1, <1>3, <1>4, <1>5, <1>6, <1>7

\* An empty queue follows an empty script.
LEMMA NothingTracked ==
  ASSUME NEW ms
  PROVE  Tracks(ms, <<>>, <<>>, <<>>)
<1> DEFINE none == [p \in {} |-> p]
<1>1. <<>> \in Seq(Phase) /\ Len(<<>>) = 0 /\ 1..0 = {}
  BY EmptySeq
<1>2. Promise!Places(<<>>) = {}
  BY <1>1, PlaceType
<1>3. Recorded(ms, <<>>, none)
  BY <1>2 DEF Recorded, Owners, Distinct
<1>4. Mirrors(<<>>, <<>>, none, {})
  BY <1>1, MirrorsWhole
<1>5. PICK f : Follows(<<>>, <<>>, <<>>, none, f)
  BY <1>1, <1>4, FollowsNothing
<1> QED
  BY <1>3, <1>5 DEF Tracks

\* FluentRecord writes a phase, and the queue has an item more.
LEMMA RecordTracks ==
  ASSUME ScriptInv, QueueInv', NEW name \in Name, NEW args \in Args,
         FluentRecord(name, args), script' = Extended(CallOf(name, args))
  PROVE  ScriptTypeOK' /\ Writing' /\ Tracking' /\ Promise!Record(CallOf(name, args))
<1> DEFINE m == Len(methods) + 1
           c == CallOf(name, args)
<1>1. Promise!Record(c)
  <2>1. /\ ~replaying /\ UNCHANGED <<answered, replaying, thrown>> /\ outcome' = "recorded"
        /\ script' = Append(script, [kind |-> "method", name |-> NoGroup, calls |-> <<c>>])
    BY DEF FluentRecord, RecordCall, Enqueue, Extended
  <2> HIDE DEF c
  <2> QED
    BY <2>1 DEF Promise!Record, Verdict
<1>2. /\ ~replaying /\ ~replaying' /\ answered' = answered
      /\ Len(methods) < MaxMethods
      /\ methods' = Append(methods, NewMethod(name, args))
      /\ queues' = [queues EXCEPT ![Current] = Append(CurrentQueue, Single(m))]
      /\ script' = Append(script, [kind |-> "method", name |-> NoGroup, calls |-> <<c>>])
  BY DEF FluentRecord, RecordCall, Enqueue, CurrentQueue, Extended
<1>3. /\ QueueInv /\ script \in Seq(Phase) /\ LoneCalls(script)
      /\ CurrentQueue \in Seq(Item(MethodIds))
      /\ methods \in Seq(MockMethod) /\ Len(methods) \in Nat
      /\ DOMAIN methods = 1..Len(methods)
  BY CurrentIsSound DEF ScriptInv, ScriptTypeOK
<1>4. CurrentQueue' = Append(CurrentQueue, Single(m))
  BY <1>2, <1>3, CurrentQueueReplaced
<1>5. c \in Call /\ c.name = name /\ c.args = args
  BY DEF CallOf, Call
<1>6. m \in MethodIds /\ m \notin DOMAIN methods
  BY <1>2, <1>3, BoundsAssumption DEF MethodIds
<1>7. /\ answered = <<>> /\ Len(CurrentQueue) = Len(script)
      /\ Tracks(methods, CurrentQueue, script, answered)
  BY <1>2 DEF ScriptInv, Writing, Tracking
<1>8. PICK who, f : Recorded(methods, script, who) /\ Follows(CurrentQueue, script, <<>>, who, f)
  BY <1>7 DEF Tracks
<1>9. Mirrors(CurrentQueue, script, who, {})
  BY <1>3, <1>8, FollowsNothing
<1>10. Owners(script, who, DOMAIN methods)
  BY <1>8 DEF Recorded
<1> HIDE DEF c, m
<1>11. /\ script' \in Seq(Phase) /\ LoneCalls(script') /\ Len(CurrentQueue') = Len(script')
       /\ \E w : /\ Adds(script, who, DOMAIN methods, m, c, script', w)
                 /\ Mirrors(CurrentQueue', script', w, {})
  <2> DEFINE r == Append(script, [kind |-> "method", name |-> NoGroup, calls |-> <<c>>])
             new == Append(CurrentQueue, Single(m))
  <2>1. /\ m \notin DOMAIN methods /\ Owners(script, who, DOMAIN methods) /\ c \in Call
        /\ Len(CurrentQueue) = Len(script)
    BY <1>5, <1>6, <1>7, <1>10
  <2>2. /\ r \in Seq(Phase) /\ LoneCalls(r) /\ Len(new) = Len(r)
        /\ \E w : Adds(script, who, DOMAIN methods, m, c, r, w) /\ Mirrors(new, r, w, {})
    BY <1>3, <1>6, <1>9, <2>1, RecordedMirrors
  <2>3. script' = r /\ CurrentQueue' = new
    BY <1>2, <1>4
  <2> HIDE DEF r, new
  <2> QED
    BY <2>2, <2>3
<1>12. PICK w : /\ Owners(script', w, DOMAIN methods \cup {m})
                /\ Mirrors(CurrentQueue', script', w, {})
                /\ \A p \in Promise!Places(script') :
                     \/ w[p] = m /\ Promise!Expected(script', p) = c
                     \/ /\ p \in Promise!Places(script) /\ w[p] = who[p]
                        /\ Promise!Expected(script', p) = Promise!Expected(script, p)
  BY <1>11 DEF Adds
<1>13. /\ DOMAIN methods' = DOMAIN methods \cup {m}
       /\ methods'[m].name = name /\ methods'[m].args = args
       /\ \A i \in DOMAIN methods : methods'[i] = methods[i]
  <2> DEFINE new == NewMethod(name, args)
             ms == Append(methods, new)
  <2>1. new.name = name /\ new.args = args /\ new \in MockMethod
    BY <1>3, BoundsAssumption DEF NewMethod, MockMethod, QueueInv, Current
  <2> HIDE DEF new
  <2>2. /\ ms \in Seq(MockMethod) /\ Len(ms) = m /\ ms[m] = new
        /\ \A i \in 1..Len(methods) : ms[i] = methods[i]
    BY <1>3, <2>1, AppendProperties DEF m
  <2>3. DOMAIN ms = 1..m
    BY <2>2, LenProperties
  <2>4. 1..m = 1..Len(methods) \cup {m}
    BY <1>3 DEF m
  <2>5. methods' = ms
    BY <1>2 DEF new
  <2> HIDE DEF ms
  <2> QED
    BY <1>3, <2>1, <2>2, <2>3, <2>4, <2>5
<1>14. Recorded(methods', script', w)
  <2>1. ASSUME NEW p \in Promise!Places(script')
        PROVE  /\ methods'[w[p]].name = Promise!Expected(script', p).name
               /\ methods'[w[p]].args = Promise!Expected(script', p).args
    <3>1. CASE w[p] = m /\ Promise!Expected(script', p) = c
      BY <1>5, <1>13, <3>1
    <3>2. CASE /\ p \in Promise!Places(script) /\ w[p] = who[p]
               /\ Promise!Expected(script', p) = Promise!Expected(script, p)
      <4>1. who[p] \in DOMAIN methods
        BY <1>10, <3>2 DEF Owners
      <4> QED
        BY <1>8, <1>13, <3>2, <4>1 DEF Recorded
    <3> QED
      BY <1>12, <3>1, <3>2
  <2> QED
    BY <1>12, <1>13, <2>1 DEF Recorded
<1>15. PICK e : Follows(CurrentQueue', script', <<>>, w, e)
  BY <1>11, <1>12, FollowsNothing
<1>16. Tracks(methods', CurrentQueue', script', answered')
  BY <1>2, <1>7, <1>14, <1>15 DEF Tracks
<1> QED
  BY <1>1, <1>2, <1>7, <1>11, <1>16 DEF ScriptTypeOK, Writing, Tracking, c

\* A modifier rewrites the script, and the queue mirrors what it becomes.
LEMMA RegroupTracks ==
  ASSUME ScriptInv, QueueInv', NEW kind \in GroupKind, NEW g \in Group,
         FluentRegroup(kind, g), script' = RegroupedScript(kind, g)
  PROVE  ScriptTypeOK' /\ Writing' /\ Tracking' /\ Promise!Regroup(kind, g)
<1> DEFINE X == DOMAIN methods
           c == Last(script).calls[1]
<1>1. PICK h \in DOMAIN methods : Last(CurrentQueue) = Single(h) /\ Regroup(h, kind, g)
  BY DEF FluentRegroup
<1>2. /\ CurrentQueue # <<>> /\ UNCHANGED <<answered, methods, thrown, replaying>>
      /\ ~replaying /\ outcome' = "recorded"
  BY <1>1 DEF FluentRegroup, Regroup
<1>3. /\ QueueInv /\ script \in Seq(Phase) /\ LoneCalls(script)
      /\ CurrentQueue \in Seq(Item(MethodIds)) /\ IsFiniteSet(MethodIds) /\ h \in MethodIds
  BY CurrentIsSound DEF ScriptInv, ScriptTypeOK
<1>4. methods[h].queue = Current
  <2>1. Last(CurrentQueue) \in Item(Own(Current))
    BY <1>2, <1>3, CurrentQueueType, FrontType
  <2>2. h \in Owed(Single(h))
    BY DEF Single, Owed, ToSet
  <2> QED
    BY <1>1, <2>1, <2>2, OwedType DEF Own
<1>5. PICK queue \in Grouped(CurrentQueue, h, kind, g) :
        queues' = [queues EXCEPT ![Current] = queue]
  BY <1>1, <1>4 DEF Regroup, CurrentQueue
<1>6. CurrentQueue' = queue
  BY <1>3, <1>5, CurrentQueueReplaced
<1>7. /\ answered = <<>> /\ Len(CurrentQueue) = Len(script)
      /\ Tracks(methods, CurrentQueue, script, answered)
  BY <1>2 DEF ScriptInv, Writing, Tracking
<1>8. PICK who, f : Recorded(methods, script, who) /\ Follows(CurrentQueue, script, <<>>, who, f)
  BY <1>7 DEF Tracks
<1>9. Mirrors(CurrentQueue, script, who, {}) /\ Owners(script, who, X)
  BY <1>3, <1>8, FollowsNothing DEF Recorded
<1>10. script # <<>> /\ Last(script).kind = "method" /\ EndsWith(script, c)
  <2>1. /\ script # <<>> /\ MirrorsPhase(Last(CurrentQueue), script, Len(script), who, {})
    BY <1>2, <1>3, <1>7, <1>9, FrontMirrors
  <2>2. Last(script) = script[Len(script)] /\ script[Len(script)].kind = "method"
    BY <1>1, <2>1 DEF MirrorsPhase, Single, Last
  <2>3. Len(script) \in 1..Len(script)
    BY <1>3, <2>1, LenProperties, EmptySeq
  <2>4. script[Len(script)] \in Phase /\ Len(script[Len(script)].calls) = 1
    BY <1>3, <2>2, <2>3, ElementOfSeq DEF LoneCalls
  <2> DEFINE calls == script[Len(script)].calls
  <2>5. calls \in Seq(Call) /\ Len(calls) = 1
    BY <2>4 DEF Phase
  <2> HIDE DEF calls
  <2>6. calls = <<calls[1]>> /\ calls[1] \in Call
    BY <2>5, ElementOfSeq
  <2>7. c = calls[1]
    BY <2>2 DEF calls
  <2>8. EndsWith(script, c)
    BY <2>6, <2>7 DEF EndsWith, calls
  <2> QED
    BY <2>1, <2>2, <2>8
<1> HIDE DEF X, c
<1>11. script' = Rewritten(script, kind, g)
  BY DEF RegroupedScript, Rewritten
<1>12. /\ script' \in Seq(Phase) /\ LoneCalls(script')
       /\ \E w : /\ Carries(script, who, X, script', w) /\ Mirrors(queue, script', w, {})
                 /\ Len(queue) = Len(script')
  <2> DEFINE r == Rewritten(script, kind, g)
  <2>1. /\ CurrentQueue # <<>> /\ Len(CurrentQueue) = Len(script)
        /\ Last(CurrentQueue) = Single(h) /\ EndsWith(script, c)
        /\ queue \in Grouped(CurrentQueue, h, kind, g)
    BY <1>1, <1>2, <1>5, <1>7, <1>10
  <2>2. /\ r \in Seq(Phase) /\ LoneCalls(r)
        /\ \E w : Carries(script, who, X, r, w) /\ Mirrors(queue, r, w, {}) /\ Len(queue) = Len(r)
    BY <1>3, <1>9, <2>1, GroupedMirrors
  <2> HIDE DEF r
  <2> QED
    BY <1>11, <2>2 DEF r
<1>13. PICK w : /\ Carries(script, who, X, script', w) /\ Mirrors(queue, script', w, {})
                /\ Len(queue) = Len(script')
  BY <1>12
<1>14. Recorded(methods', script', w)
  <2>1. Owners(script', w, X)
    BY <1>13 DEF Carries
  <2>2. ASSUME NEW p \in Promise!Places(script')
        PROVE  /\ methods[w[p]].name = Promise!Expected(script', p).name
               /\ methods[w[p]].args = Promise!Expected(script', p).args
    <3>1. PICK q \in Promise!Places(script) :
            w[p] = who[q] /\ Promise!Expected(script', p) = Promise!Expected(script, q)
      BY <1>13 DEF Carries
    <3> QED
      BY <1>8, <3>1 DEF Recorded
  <2> QED
    BY <1>2, <2>1, <2>2 DEF Recorded, X
<1>15. PICK e : Follows(queue, script', <<>>, w, e)
  BY <1>12, <1>13, FollowsNothing
<1>16. Tracks(methods', CurrentQueue', script', answered')
  BY <1>2, <1>6, <1>7, <1>14, <1>15 DEF Tracks
<1>17. Promise!Regroup(kind, g)
  <2>1. Verdict' = "none"
    BY <1>2 DEF Verdict
  <2>2. script' = LET rest == Front(script)
                      calls == Last(script).calls
                  IN IF rest # <<>> /\ Last(rest).kind = kind /\ Last(rest).name = g
                     THEN [rest EXCEPT ![Len(rest)].calls = @ \o calls]
                     ELSE Append(rest, [kind |-> kind, name |-> g, calls |-> calls])
    BY DEF RegroupedScript
  <2>3. \A x : Promise!Front(x) = Front(x) /\ Promise!Last(x) = Last(x)
    BY DEF Promise!Front, Front, Promise!Last, Last
  <2> QED
    BY <1>2, <1>10, <2>1, <2>2, <2>3 DEF Promise!Regroup
<1> QED
  BY <1>2, <1>6, <1>7, <1>12, <1>13, <1>16, <1>17 DEF ScriptTypeOK, Writing, Tracking

\* MockMethod.__eq__ finds the methods that were recorded for the calls that fit.
LEMMA RecordedHits ==
  ASSUME script \in Seq(Phase), NEW who, Recorded(methods, script, who),
         NEW name \in Name, NEW args \in Args
  PROVE  HitsFit(script, who, Hits(name, args), CallOf(name, args))
<1> SUFFICES ASSUME NEW p \in Promise!Places(script)
             PROVE  who[p] \in Hits(name, args) <=>
                      Fits(Promise!Expected(script, p), CallOf(name, args))
  BY DEF HitsFit
<1> DEFINE e == Promise!Expected(script, p)
           m == who[p]
           c == CallOf(name, args)
<1>1. e \in Call
  BY PlaceType
<1>2. m \in DOMAIN methods /\ methods[m].name = e.name /\ methods[m].args = e.args
  BY DEF Recorded, Owners
<1>3. c.name = name /\ c.args = args
  BY DEF CallOf
<1> HIDE DEF e, m, c
<1>4. e.args \in Args /\ e.args # NoArgs /\ args # NoArgs
  BY <1>1, ArgsAssumption DEF Call
<1>5. args = e.args => args \in Matches[e.args]
  BY <1>4, ArgsAssumption
<1>6. m \in Hits(name, args) <=> Fits(e, c)
  BY <1>2, <1>3, <1>4, <1>5 DEF Hits, Equal, Fits
<1> QED
  BY <1>6 DEF e, m, c

\* What the mock answers the script allows, and the queue follows it.
LEMMA AnswerTracks ==
  ASSUME ScriptInv, QueueInv', NEW name \in Name, NEW args \in Args,
         FluentAnswer(name, args), UNCHANGED script
  PROVE  ScriptTypeOK' /\ Writing' /\ Tracking' /\ Promise!Accept(CallOf(name, args))
<1> DEFINE c == CallOf(name, args)
           hits == Hits(name, args)
           u == Append(answered, c)
<1>1. PICK m \in DOMAIN methods : AnswerCall(name, args, m)
  BY DEF FluentAnswer
<1>2. /\ replaying /\ UNCHANGED <<methods, replaying, thrown>> /\ answered' = u
      /\ outcome' = "returned"
  BY <1>1 DEF FluentAnswer, AnswerCall, Serve
<1>3. /\ QueueInv /\ script \in Seq(Phase) /\ answered \in Seq(Call)
      /\ CurrentQueue \in Seq(Item(MethodIds))
  BY CurrentIsSound
<1>4. c \in Call
  BY DEF CallOf, Call
<1>5. ASSUME ~thrown
      PROVE  /\ Tracks(methods', CurrentQueue', script', answered')
             /\ Promise!Allowed(script, u)
  <2>1. PICK k \in DOMAIN CurrentQueue :
          /\ Reaches(CurrentQueue, hits, k)
          /\ \E i \in DOMAIN CurrentQueue[k].methods :
               /\ FirstHit(CurrentQueue[k], hits, i)
               /\ queues' = [queues EXCEPT
                   ![Current] = Remaining(CurrentQueue[k], i) \o Beyond(CurrentQueue, k)]
    BY <1>1 DEF AnswerCall, Serve, CurrentQueue
  <2>2. PICK i \in DOMAIN CurrentQueue[k].methods :
          /\ FirstHit(CurrentQueue[k], hits, i)
          /\ queues' = [queues EXCEPT
               ![Current] = Remaining(CurrentQueue[k], i) \o Beyond(CurrentQueue, k)]
    BY <2>1
  <2> DEFINE new == Remaining(CurrentQueue[k], i) \o Beyond(CurrentQueue, k)
  <2>3. CurrentQueue' = new
    BY <1>3, <2>2, CurrentQueueReplaced
  <2>4. PICK who, f : /\ Recorded(methods, script, who)
                      /\ Follows(CurrentQueue, script, answered, who, f)
    BY <1>5 DEF ScriptInv, Tracking, Tracks
  <2>5. Owners(script, who, DOMAIN methods)
    BY <2>4 DEF Recorded
  <2>6. HitsFit(script, who, hits, c)
    BY <1>3, <2>4, RecordedHits
  <2>7. CurrentQueue[k].methods[i] \in hits
    BY <2>2 DEF FirstHit
  <2>8. Reaches(CurrentQueue, hits, k)
    BY <2>1
  <2> HIDE DEF c, hits
  <2>9. \E e : Follows(new, script, u, who, e)
    BY <1>3, <1>4, <2>4, <2>5, <2>6, <2>7, <2>8, FollowsServed
  <2> HIDE DEF new, u
  <2>10. PICK e : Follows(new, script, u, who, e)
    BY <2>9
  <2>11. Promise!Allowed(script, u)
    BY <2>10 DEF Follows, Promise!Allowed
  <2> QED
    BY <1>2, <2>3, <2>4, <2>10, <2>11 DEF Tracks
<1>6. Promise!Accept(c)
  <2> HIDE DEF c
  <2>1. Verdict' = "none"
    BY <1>2 DEF Verdict
  <2> QED
    BY <1>2, <1>5, <2>1 DEF Promise!Accept
<1> QED
  BY <1>2, <1>3, <1>5, <1>6 DEF ScriptInv, ScriptTypeOK, Writing, Tracking

\* What the mock refuses the script does not allow.
LEMMA RefuseTracks ==
  ASSUME ScriptInv, NEW name \in Name, NEW args \in Args,
         FluentRefuse(name, args), UNCHANGED script
  PROVE  ScriptTypeOK' /\ Writing' /\ Tracking' /\ Promise!Refuse(CallOf(name, args))
<1> DEFINE c == CallOf(name, args)
           hits == Hits(name, args)
<1>1. /\ replaying /\ replaying' = replaying /\ thrown' = TRUE /\ answered' = answered
      /\ outcome' = "UnexpectedMethodCallError"
  BY DEF FluentRefuse, RefuseCall, Refuse
<1>2. /\ script \in Seq(Phase) /\ answered \in Seq(Call)
      /\ CurrentQueue \in Seq(Sound(MethodIds))
  BY CurrentIsSound
<1>3. c \in Call
  BY DEF CallOf, Call
<1>4. ASSUME ~thrown
      PROVE  Promise!Ambiguous(script) \/ ~Promise!Allowed(script, Append(answered, c))
  <2>1. PICK k \in 1..(Len(CurrentQueue) + 1) :
          /\ Reaches(CurrentQueue, hits, k)
          /\ k \in DOMAIN CurrentQueue => NoHit(CurrentQueue[k], hits)
    BY DEF FluentRefuse, RefuseCall, Refuse, CurrentQueue
  <2>2. PICK who, f : /\ Recorded(methods, script, who)
                      /\ Follows(CurrentQueue, script, answered, who, f)
    BY <1>4 DEF ScriptInv, Tracking, Tracks
  <2>3. HitsFit(script, who, hits, c)
    BY <1>2, <2>2, RecordedHits
  <2> HIDE DEF c, hits
  <2> QED
    BY <1>2, <1>3, <2>1, <2>2, <2>3, FollowsRefused
<1>5. Promise!Refuse(c)
  <2> HIDE DEF c
  <2>1. Verdict' = "none"
    BY <1>1 DEF Verdict
  <2> QED
    BY <1>1, <1>4, <2>1 DEF Promise!Refuse
<1> QED
  BY <1>1, <1>5 DEF ScriptInv, ScriptTypeOK, Writing, Tracking

\* What verify says of the queue holds of the script.
LEMMA VerifyTracks ==
  ASSUME ScriptInv, FluentVerify, UNCHANGED script
  PROVE  ScriptTypeOK' /\ Writing' /\ Tracking' /\ Promise!Verify
<1>1. /\ UNCHANGED <<methods, queues, replaying, thrown, answered>>
      /\ outcome' = IF thrown THEN "SwallowedExceptionError"
                    ELSE IF NothingExpected THEN "verified"
                    ELSE "ExpectedMethodCallsError"
  BY DEF FluentVerify, Verify
<1>2. NothingExpected <=> Emptied(CurrentQueue)
  BY DEF NothingExpected, Emptied
<1>3. /\ script \in Seq(Phase) /\ answered \in Seq(Call)
      /\ CurrentQueue \in Seq(Sound(MethodIds))
  BY CurrentIsSound
<1>4. ASSUME ~thrown
      PROVE  /\ Emptied(CurrentQueue) => Promise!Fulfilled(script, answered)
             /\ ~Emptied(CurrentQueue) =>
                  Promise!Ambiguous(script) \/ ~Promise!Fulfilled(script, answered)
  <2>1. PICK who, f : Follows(CurrentQueue, script, answered, who, f)
    BY <1>4 DEF ScriptInv, Tracking, Tracks
  <2> QED
    BY <1>3, <2>1, FollowsVerified
<1>5. /\ Verdict' \in {"passed", "failed"}
      /\ Verdict' = "passed" => ~thrown /\ Emptied(CurrentQueue)
      /\ Verdict' = "failed" => thrown \/ ~Emptied(CurrentQueue)
  BY <1>1, <1>2 DEF Verdict
<1>6. Promise!Verify
  BY <1>1, <1>4, <1>5 DEF Promise!Verify
<1>7. CurrentQueue' = CurrentQueue
  BY <1>1 DEF CurrentQueue, Current
<1> QED
  BY <1>1, <1>6, <1>7 DEF ScriptInv, ScriptTypeOK, Writing, Tracking

\* A new script, and a new queue.
LEMMA ResetTracks ==
  ASSUME ScriptInv, QueueInv', FluentReset, script' = <<>>
  PROVE  ScriptTypeOK' /\ Writing' /\ Tracking' /\ Promise!Reset
<1>1. /\ queues' = Append(queues, <<>>) /\ ~replaying' /\ replaying' = FALSE
      /\ UNCHANGED <<methods, thrown>> /\ answered' = <<>> /\ outcome' = "none"
  BY DEF FluentReset, Reset
<1>2. CurrentQueue' = <<>>
  <2>1. queues \in Seq(Seq(Item(MethodIds))) /\ <<>> \in Seq(Item(MethodIds))
    BY CurrentIsSound, EmptySeq DEF QueueInv
  <2>2. Len(queues') = Len(queues) + 1 /\ queues'[Len(queues) + 1] = <<>>
    BY <1>1, <2>1, AppendProperties
  <2> QED
    BY <2>2 DEF CurrentQueue, Current
<1>3. Tracks(methods', <<>>, <<>>, <<>>)
  BY NothingTracked
<1>4. Promise!Reset
  <2>1. Verdict' = "none"
    BY <1>1 DEF Verdict
  <2> QED
    BY <1>1, <2>1 DEF Promise!Reset
<1>5. <<>> \in Seq(Phase) /\ LoneCalls(<<>>)
  BY EmptySeq DEF LoneCalls
<1> QED
  BY <1>1, <1>2, <1>3, <1>4, <1>5 DEF ScriptTypeOK, Writing, Tracking

\* The operations that leave script, queue and history alone.
LEMMA OthersTrack ==
  ASSUME ScriptInv, UNCHANGED <<methods, queues, answered, script>>,
         replaying => replaying', thrown => thrown'
  PROVE  ScriptTypeOK' /\ Writing' /\ Tracking'
<1>1. CurrentQueue' = CurrentQueue
  BY DEF CurrentQueue, Current
<1> QED
  BY <1>1 DEF ScriptInv, ScriptTypeOK, Writing, Tracking

\* With or without a script, the client is in fluent use.
LEMMA ScriptedIsFluent == [ScriptedNext]_fluentVars => [FluentNext]_historyVars
<1>1. ScriptedNext => FluentNext
  BY DEF ScriptedNext, FluentNext
<1>2. UNCHANGED fluentVars => UNCHANGED historyVars
  BY DEF fluentVars, historyVars
<1> QED
  BY <1>1, <1>2

\* A mock and a promise begin with nothing.
LEMMA ScriptInitInv == ScriptedInit => ScriptInv /\ Promise!Init
<1> SUFFICES ASSUME ScriptedInit PROVE ScriptInv /\ Promise!Init
  OBVIOUS
<1>1. /\ HistoryInit /\ script = <<>> /\ answered = <<>> /\ outcome = "none"
      /\ queues = <<<<>>>> /\ replaying = FALSE /\ thrown = FALSE
  BY DEF ScriptedInit, HistoryInit, Init
<1>2. HistoryInv
  BY <1>1, HistoryInitInv
<1>3. QueuesInOrder
  BY <1>1, EmptyOrdered DEF QueuesInOrder
<1>4. CurrentQueue = <<>> /\ Len(CurrentQueue) = Len(script)
  BY <1>1 DEF CurrentQueue, Current
<1>5. ScriptTypeOK
  BY <1>1, EmptySeq DEF ScriptTypeOK, LoneCalls
<1>6. Tracks(methods, CurrentQueue, script, answered)
  BY <1>1, <1>4, NothingTracked
<1>7. Promise!Init
  BY <1>1 DEF Promise!Init, Verdict
<1> QED
  BY <1>1, <1>2, <1>3, <1>4, <1>5, <1>6, <1>7 DEF ScriptInv, Writing, Tracking

\* Each step keeps the invariant, and is a step of the promise or leaves it alone.
LEMMA ScriptStep ==
  ScriptInv /\ [ScriptedNext]_fluentVars => ScriptInv' /\ [Promise!Next]_(Promise!scriptVars)
<1> SUFFICES ASSUME ScriptInv, [ScriptedNext]_fluentVars
             PROVE  ScriptInv' /\ [Promise!Next]_(Promise!scriptVars)
  OBVIOUS
<1> DEFINE Tracked == ScriptTypeOK' /\ Writing' /\ Tracking'
<1>1. HistoryInv' /\ QueuesInOrder' /\ QueueInv'
  <2>1. [FluentNext]_historyVars /\ [Next]_vars
    BY ScriptedIsFluent, FluentIsNext
  <2>2. HistoryInv'
    BY <2>1, HistoryStepInv DEF ScriptInv
  <2>3. QueuesInOrder'
    BY <2>1, StepInOrder DEF ScriptInv, HistoryInv
  <2> QED
    BY <2>2, <2>3 DEF HistoryInv
<1>2. ASSUME NEW name \in Name, NEW args \in Args,
             FluentRecord(name, args), script' = Extended(CallOf(name, args))
      PROVE  Tracked /\ Promise!Next
  <2>1. CallOf(name, args) \in Promise!Call
    BY DEF CallOf, Promise!Call
  <2> QED
    BY <1>1, <1>2, <2>1, RecordTracks DEF Promise!Next
<1>3. ASSUME NEW name \in Name, NEW args \in Args,
             FluentReject(name, args), UNCHANGED script
      PROVE  Tracked /\ Promise!Next
  <2>1. UNCHANGED <<methods, queues, answered, script, replaying, thrown>> /\ Verdict' = "none"
    BY <1>3 DEF FluentReject, RejectCall, Verdict
  <2>2. Promise!Reject
    BY <2>1 DEF Promise!Reject
  <2> QED
    BY <2>1, <2>2, OthersTrack DEF Promise!Next
<1>4. ASSUME NEW name \in Name, NEW args \in Args,
             FluentAnswer(name, args), UNCHANGED script
      PROVE  Tracked /\ Promise!Next
  <2>1. CallOf(name, args) \in Promise!Call
    BY DEF CallOf, Promise!Call
  <2> QED
    BY <1>1, <1>4, <2>1, AnswerTracks DEF Promise!Next
<1>5. ASSUME NEW name \in Name, NEW args \in Args,
             FluentRefuse(name, args), UNCHANGED script
      PROVE  Tracked /\ Promise!Next
  <2>1. CallOf(name, args) \in Promise!Call
    BY DEF CallOf, Promise!Call
  <2> QED
    BY <1>5, <2>1, RefuseTracks DEF Promise!Next
<1>6. CASE FluentUnknown /\ UNCHANGED script
  <2>1. /\ UNCHANGED <<methods, queues, answered, script, replaying>> /\ thrown' = TRUE
        /\ Verdict' = "unknown"
    BY <1>6 DEF FluentUnknown, AccessUnknown, Verdict
  <2>2. Promise!Stray
    BY <2>1 DEF Promise!Stray
  <2>3. Tracked /\ Promise!Next
    BY <2>1, <2>2, OthersTrack DEF Promise!Next
  <2> QED
    BY <1>1, <2>3 DEF ScriptInv
<1>7. ASSUME NEW kind \in GroupKind, NEW g \in Group,
             FluentRegroup(kind, g), script' = RegroupedScript(kind, g)
      PROVE  Tracked /\ Promise!Next
  <2>1. kind \in {"unordered", "multiple"}
    BY DEF GroupKind
  <2> QED
    BY <1>1, <1>7, <2>1, RegroupTracks DEF Promise!Next
<1>8. CASE FluentReplay /\ UNCHANGED script
  <2>1. /\ UNCHANGED <<methods, queues, answered, script, thrown>> /\ replaying' = TRUE
        /\ Verdict' = "none"
    BY <1>8 DEF FluentReplay, Replay, Verdict
  <2>2. Promise!Replay
    BY <2>1 DEF Promise!Replay
  <2>3. Tracked /\ Promise!Next
    BY <2>1, <2>2, OthersTrack DEF Promise!Next
  <2> QED
    BY <1>1, <2>3 DEF ScriptInv
<1>9. CASE FluentReset /\ script' = <<>>
  BY <1>1, <1>9, ResetTracks DEF ScriptInv, Promise!Next
<1>10. CASE FluentVerify /\ UNCHANGED script
  BY <1>1, <1>10, VerifyTracks DEF ScriptInv, Promise!Next
<1>11. CASE UNCHANGED fluentVars
  <2>1. UNCHANGED <<methods, queues, answered, script, replaying, thrown, outcome>>
    BY <1>11 DEF fluentVars
  <2>2. Tracked
    BY <2>1, OthersTrack
  <2>3. UNCHANGED Promise!scriptVars
    BY <2>1 DEF Promise!scriptVars, Verdict
  <2> QED
    BY <1>1, <2>2, <2>3 DEF ScriptInv
<1> HIDE DEF Tracked
<1>12. Tracked /\ Promise!Next => ScriptInv' /\ [Promise!Next]_(Promise!scriptVars)
  BY <1>1 DEF ScriptInv, Tracked
<1> QED
  BY <1>2, <1>3, <1>4, <1>5, <1>6, <1>7, <1>8, <1>9, <1>10, <1>11, <1>12 DEF ScriptedNext

\* In fluent use a mock keeps the promise of CallScript (MockMethod.__call__ with its
\* groups, and MockAnything._verify), whatever the names, the comparators and the
\* bounds are: it accepts only runs of its script, verify passes only for complete
\* ones, and unless the script is ambiguous it refuses nothing else and fails for
\* nothing else.
THEOREM MockKeepsItsPromise == ScriptedSpec => KeepsPromise
<1> QED
  BY ScriptInitInv, ScriptStep, PTL DEF ScriptedSpec, KeepsPromise, Promise!Spec

=============================================================================
