------------------------ MODULE RememberedValuesProofs ------------------------
(***************************************************************************)
(* Proofs about RememberedValues, for any comparators of which the careful *)
(* ones do what ComparatorsAreCareful says.                                *)
(*                                                                         *)
(* Every comparison is one of a series (of places, of methods, of elements *)
(* of the queue) that goes on while nothing is stored: WhileSteady is about*)
(* all three.  So a call finds what it would find if each comparison were  *)
(* made with what the Value had at first; list.remove finds the same       *)
(* method again, though something may be stored by then.                   *)
(***************************************************************************)
EXTENDS RememberedValues, MethodGroupsProofs, WellFoundedInduction

-----------------------------------------------------------------------------
(***************************************************************************)
(* A series of comparisons.                                                *)
(***************************************************************************)
\* A set of numbers has a least one.
LEMMA LeastNumber ==
  ASSUME NEW T \in SUBSET Nat, T # {}
  PROVE  \E n \in T : \A m \in T : n <= m
<1> DEFINE R == {p \in Nat \X Nat : p[1] < p[2]}
<1>1. IsWellFoundedOn(R, Nat)
  BY NatLessThanWellFounded DEF OpToRel
<1>2. \A m, n \in Nat : m < n => <<m, n>> \in R
  OBVIOUS
<1> HIDE DEF R
<1>3. PICK n \in T : \A m \in T : ~(<<m, n>> \in R)
  BY <1>1, WFMin
<1>4. \A m \in T : ~(m < n)
  BY <1>2, <1>3
<1> QED
  BY <1>4

\* A set that has 0, and with a number the next, has all numbers up to N.
LEMMA Counting ==
  ASSUME NEW N \in Nat, NEW T, 0 \in T,
         \A n \in 0..(N - 1) : n \in T => n + 1 \in T
  PROVE  \A n \in 0..N : n \in T
<1> DEFINE Left == {n \in 0..N : n \notin T}
<1> SUFFICES ASSUME Left # {} PROVE FALSE
  OBVIOUS
<1>1. PICK n \in Left : \A m \in Left : n <= m
  <2>1. Left \in SUBSET Nat
    OBVIOUS
  <2> HIDE DEF Left
  <2> QED
    BY <2>1, LeastNumber
<1>2. n # 0 /\ n \in 0..N
  BY <1>1
<1>3. n - 1 \in 0..(N - 1) /\ n - 1 \in 0..N /\ (n - 1) + 1 = n /\ ~(n <= n - 1)
  BY <1>2
<1>4. n - 1 \in T
  BY <1>1, <1>3
<1> QED
  BY <1>1, <1>3, <1>4

\* The i-th comparison of a series, after what came before it.
Continued(i, before, verdict, comparisons) ==
  IF before.verdict = verdict THEN comparisons[i][before.stored] ELSE before

\* What a series of n comparisons comes to, one by one.
IsSeries(made, n, verdict, comparisons, start) ==
  made = [i \in 0..n |-> IF i = 0
                         THEN start
                         ELSE Continued(i, made[i - 1], verdict, comparisons)]

\* There is such a series.
LEMMA SeriesExists ==
  ASSUME NEW N \in Nat, NEW verdict, NEW comparisons, NEW start
  PROVE  \E made : IsSeries(made, N, verdict, comparisons, start)
<1> DEFINE Is(f, n) == IsSeries(f, n, verdict, comparisons, start)
           T == {n \in 0..N : \E f : Is(f, n)}
<1>1. 0 \in T
  <2> DEFINE f == [i \in 0..0 |-> start]
  <2>1. \A i \in 0..0 : i = 0
    OBVIOUS
  <2>2. Is(f, 0)
    BY <2>1 DEF IsSeries
  <2>3. 0 \in 0..N
    OBVIOUS
  <2> HIDE DEF f, Is
  <2> QED
    BY <2>2, <2>3
<1>2. ASSUME NEW n \in 0..(N - 1), n \in T
      PROVE  n + 1 \in T
  <2>1. PICK f : Is(f, n)
    BY <1>2
  <2> DEFINE m == n + 1
             After(i, before) == Continued(i, before, verdict, comparisons)
             g == [i \in 0..m |-> IF i = m THEN After(m, f[n]) ELSE f[i]]
  <2>2. /\ m \in 0..N /\ m # 0 /\ m - 1 = n /\ n \in 0..n
        /\ \A i \in 0..m : i = m \/ i \in 0..n
        /\ \A i \in 0..n : i \in 0..m /\ i # m
        /\ \A i \in 0..n : i = 0 \/ i - 1 \in 0..n
    OBVIOUS
  <2> HIDE DEF m
  <2>3. \A i \in 0..n : f[i] = IF i = 0 THEN start ELSE After(i, f[i - 1])
    BY <2>1 DEF IsSeries
  <2>4. \A i \in 0..n : g[i] = f[i]
    BY <2>2
  <2>5. g[m] = After(m, g[m - 1])
    <3>1. m \in 0..m
      BY <2>2 DEF m
    <3>2. g[m] = After(m, f[n])
      BY <3>1
    <3> HIDE DEF g
    <3> QED
      BY <2>2, <2>4, <3>2
  <2>6. ASSUME NEW i \in 0..m
        PROVE  g[i] = IF i = 0 THEN start ELSE After(i, g[i - 1])
    <3> HIDE DEF g
    <3>1. CASE i = m
      BY <2>2, <2>5, <3>1
    <3>2. CASE i # m
      <4>1. i \in 0..n
        BY <2>2, <3>2
      <4>2. f[i] = IF i = 0 THEN start ELSE After(i, f[i - 1])
        BY <2>3, <4>1
      <4>3. g[i] = f[i] /\ (i = 0 \/ g[i - 1] = f[i - 1])
        BY <2>2, <2>4, <4>1
      <4> QED
        BY <4>2, <4>3
    <3> QED
      BY <3>1, <3>2
  <2>7. g = [i \in 0..m |-> g[i]]
    OBVIOUS
  <2> HIDE DEF g
  <2>8. Is(g, m)
    BY <2>6, <2>7 DEF IsSeries
  <2> QED
    BY <2>2, <2>8 DEF m
<1> HIDE DEF T
<1>3. N \in T
  BY <1>1, <1>2, Counting
<1>4. PICK f : Is(f, N)
  BY <1>3 DEF T
<1> QED
  BY <1>4

\* What a series of N comparisons comes to when it goes on without storing anything:
\* there is none, or it ends with the k-th, made with what there was at first.
EndsWith(end, N, verdict, comparisons, v, start) ==
  \/ N = 0 /\ end = start
  \/ \E k \in 1..N :
       /\ end = comparisons[k][v]
       /\ k = N \/ end.verdict # verdict
       /\ \A j \in 1..(k - 1) : comparisons[j][v].verdict = verdict

LEMMA WhileSteady ==
  ASSUME NEW verdict, NEW comparisons, Len(comparisons) \in Nat, NEW v, NEW start,
         start.verdict = verdict, start.stored = v,
         \A i \in 1..(Len(comparisons) - 1) :
           comparisons[i][v].verdict = verdict => comparisons[i][v].stored = v
  PROVE  EndsWith(While(verdict, comparisons, start), Len(comparisons), verdict,
                  comparisons, v, start)
<1> DEFINE N == Len(comparisons)
           made == CHOOSE f : IsSeries(f, N, verdict, comparisons, start)
<1>1. While(verdict, comparisons, start) = made[N]
  BY DEF While, IsSeries, Continued
<1>2. IsSeries(made, N, verdict, comparisons, start)
  <2>1. \E f : IsSeries(f, N, verdict, comparisons, start)
    BY SeriesExists
  <2> HIDE DEF N
  <2> QED
    BY <2>1
<1> HIDE DEF made
<1> DEFINE T == {n \in 0..N : EndsWith(made[n], n, verdict, comparisons, v, start)}
<1>3. 0 \in T
  <2>1. 0 \in 0..N
    OBVIOUS
  <2>2. made[0] = start
    BY <1>2, <2>1 DEF IsSeries
  <2> QED
    BY <2>1, <2>2 DEF EndsWith
<1>4. ASSUME NEW n \in 0..(N - 1), n \in T
      PROVE  n + 1 \in T
  <2> DEFINE m == n + 1
  <2>1. /\ m \in 0..N /\ m # 0 /\ m - 1 = n /\ m \in 1..m
        /\ n \in 1..n => n \in 1..(N - 1)
        /\ \A k \in 1..n : k \in 1..m
        /\ \A j \in 1..n : j \in 1..(n - 1) \/ j = n
    OBVIOUS
  <2> HIDE DEF m
  <2>2. made[m] = IF made[n].verdict = verdict
                  THEN comparisons[m][made[n].stored]
                  ELSE made[n]
    BY <1>2, <2>1 DEF IsSeries, Continued
  <2>3. EndsWith(made[n], n, verdict, comparisons, v, start)
    BY <1>4
  <2>4. CASE made[n].verdict # verdict
    <3>1. PICK k \in 1..n : /\ made[n] = comparisons[k][v]
                            /\ \A j \in 1..(k - 1) : comparisons[j][v].verdict = verdict
      BY <2>3, <2>4 DEF EndsWith
    <3> QED
      BY <2>1, <2>2, <2>4, <3>1 DEF EndsWith
  <2>5. CASE made[n].verdict = verdict
    <3>1. made[n].stored = v /\ \A j \in 1..n : comparisons[j][v].verdict = verdict
      <4>1. CASE n = 0
        BY <2>3, <4>1 DEF EndsWith
      <4>2. CASE n # 0
        <5>1. /\ made[n] = comparisons[n][v]
              /\ \A j \in 1..(n - 1) : comparisons[j][v].verdict = verdict
          BY <2>3, <2>5, <4>2 DEF EndsWith
        <5>2. n \in 1..(N - 1)
          BY <4>2
        <5> QED
          BY <2>1, <2>5, <5>1, <5>2
      <4> QED
        BY <4>1, <4>2
    <3>2. made[m] = comparisons[m][v]
      BY <2>2, <2>5, <3>1
    <3> QED
      BY <2>1, <3>1, <3>2 DEF EndsWith
  <2> QED
    BY <2>4, <2>5 DEF m
<1> HIDE DEF T, N
<1>5. N \in Nat /\ N \in T
  BY <1>3, <1>4, Counting DEF N
<1> QED
  BY <1>1, <1>5 DEF T, N

\* The length of a sequence that is given place by place.
LEMMA LengthOf ==
  ASSUME NEW N \in Nat, NEW s, s = [i \in 1..N |-> s[i]]
  PROVE  Len(s) = N /\ DOMAIN s = 1..N
<1> DEFINE S == {s[i] : i \in 1..N}
<1>1. s \in [1..N -> S] /\ DOMAIN s = 1..N
  OBVIOUS
<1> HIDE DEF S
<1>2. \E n \in Nat : s \in [1..n -> S]
  BY <1>1
<1>3. s \in Seq(S)
  BY <1>2, SeqDef
<1>4. Len(s) \in Nat /\ DOMAIN s = 1..Len(s)
  BY <1>3, LenProperties
<1> QED
  BY <1>1, <1>4

-----------------------------------------------------------------------------
(***************************************************************************)
(* Careful parameters compared with those of a call.                       *)
(***************************************************************************)
\* How many places both have.
Both(params, args) == IF Len(params) <= Len(args) THEN Len(params) ELSE Len(args)

\* The call has the parameters, as far as the verdicts go while the Value has v.
AllMatch(params, args, v) ==
  /\ Len(params) = Len(args)
  /\ \A i \in 1..Len(params) : Equal(params[i], args[i], v).verdict = "yes"

\* What careful parameters leave that match.
LeftBy(params, args, v) == IF params \in Storing THEN Last(args) ELSE v

\* What a comparison of careful parameters comes to.
Clear(result, params, args, v) ==
  /\ result.verdict = IF AllMatch(params, args, v) THEN "yes" ELSE "no"
  /\ result.stored = IF AllMatch(params, args, v) THEN LeftBy(params, args, v) ELSE v
  /\ result.stored \in Storable

\* What is known of careful parameters and of the parameters of a call.
LEMMA CarefulSequences ==
  ASSUME ComparatorsAreCareful, NEW params \in Careful, NEW args \in Passed
  PROVE  /\ Len(params) \in Nat /\ DOMAIN params = 1..Len(params)
         /\ Len(args) \in Nat /\ DOMAIN args = 1..Len(args)
         /\ \A i \in 1..Len(args) : args[i] \in Argument /\ args[i] \in Storable
         /\ params \in Storing => Len(params) # 0 /\ Len(args) <= Len(params)
<1>1. params \in Expected /\ params \in Seq(ToSet(params)) /\ args \in Seq(Argument)
  BY RememberAssumption
<1>2. /\ Len(params) \in Nat /\ DOMAIN params = 1..Len(params)
      /\ Len(args) \in Nat /\ DOMAIN args = 1..Len(args)
      /\ \A i \in 1..Len(args) : args[i] \in Argument
  BY <1>1, LenProperties, ElementOfSeq
<1>3. Argument \subseteq Storable
  BY RememberAssumption
<1>4. params \in Storing => Len(params) # 0
  BY <1>1, EmptySeq, RememberAssumption
<1>5. params \in Storing => Len(args) <= Len(params)
  BY DEF ComparatorsAreCareful
<1> QED
  BY <1>2, <1>3, <1>4, <1>5

\* What is known of one careful comparison.
LEMMA CarefulComparison ==
  ASSUME ComparatorsAreCareful, NEW params \in Careful, NEW i \in DOMAIN params,
         NEW arg \in Argument, NEW v \in Storable
  PROVE  LET here == Equal(params[i], arg, v) IN
           /\ here.verdict \in {"yes", "no"}
           /\ here.stored = IF params \in Storing /\ i = Len(params) /\ here.verdict = "yes"
                            THEN arg
                            ELSE v
           /\ params \notin Reading =>
                \A w \in Storable : Equal(params[i], arg, w).verdict = here.verdict
BY DEF ComparatorsAreCareful

\* Careful parameters store what matches, when all match.
LEMMA CarefulParams ==
  ASSUME ComparatorsAreCareful, NEW params \in Careful, NEW args \in Passed,
         NEW v \in Storable
  PROVE  Clear(ParamsEqual(params, args, v), params, args, v)
<1> DEFINE N == Both(params, args)
           step(i) == Equal(params[i], args[i], v)
           comparisons == [i \in 1..N |-> [w \in Storable |-> Equal(params[i], args[i], w)]]
           start == Verdict(TRUE, v)
           places == While("yes", comparisons, start)
<1>1. /\ Len(params) \in Nat /\ DOMAIN params = 1..Len(params)
      /\ Len(args) \in Nat /\ DOMAIN args = 1..Len(args)
      /\ \A i \in 1..Len(args) : args[i] \in Argument /\ args[i] \in Storable
      /\ params \in Storing => Len(params) # 0 /\ Len(args) <= Len(params)
  BY CarefulSequences
<1>lengths. Len(params) \in Nat /\ Len(args) \in Nat
  BY <1>1
<1>2. /\ N \in Nat /\ DOMAIN params \cap DOMAIN args = 1..N
      /\ N <= Len(params) /\ N <= Len(args) /\ (N = Len(params) \/ N = Len(args))
  BY <1>1 DEF Both
<1>3. ParamsEqual(params, args, v) =
        IF places.verdict = "yes"
        THEN Verdict(Len(params) = Len(args), places.stored)
        ELSE places
  BY <1>2 DEF ParamsEqual
<1> HIDE DEF N
<1>4. Len(comparisons) = N
  BY <1>2, LengthOf
<1>5. \A i \in 1..N : comparisons[i][v] = step(i)
  OBVIOUS
<1>6. ASSUME NEW i \in 1..N
      PROVE  /\ step(i).verdict \in {"yes", "no"}
             /\ step(i).stored = IF params \in Storing /\ i = Len(params) /\ step(i).verdict = "yes"
                                 THEN args[i]
                                 ELSE v
  <2>1. i \in DOMAIN params /\ args[i] \in Argument
    BY <1>1, <1>2
  <2> QED
    BY <2>1, CarefulComparison
<1>7. start.verdict = "yes" /\ start.stored = v
  BY DEF Verdict
<1> HIDE DEF comparisons, step, start
<1>8. EndsWith(places, N, "yes", comparisons, v, start)
  <2>1. ASSUME NEW i \in 1..(Len(comparisons) - 1), comparisons[i][v].verdict = "yes"
        PROVE  comparisons[i][v].stored = v
    <3>1. i \in 1..N /\ i # Len(params)
      BY <1>2, <1>4
    <3> QED
      BY <1>5, <1>6, <3>1
  <2>2. Len(comparisons) \in Nat
    BY <1>2, <1>4
  <2> QED
    BY <1>4, <1>7, <2>1, <2>2, WhileSteady
<1> HIDE DEF places
<1>9. CASE N = 0
  <2>1. places.verdict = "yes" /\ places.stored = v
    BY <1>7, <1>8, <1>9 DEF EndsWith
  <2>2. AllMatch(params, args, v) <=> Len(params) = Len(args)
    <3>1. ASSUME Len(params) = Len(args) PROVE Len(params) = 0
      BY <1>2, <1>9, <3>1
    <3>2. Len(params) = 0 => \A i \in 1..Len(params) : FALSE
      OBVIOUS
    <3> QED
      BY <3>1, <3>2 DEF AllMatch
  <2>3. Len(params) = Len(args) => params \notin Storing
    BY <1>1, <1>2, <1>9
  <2> QED
    BY <1>3, <2>1, <2>2, <2>3 DEF Clear, Verdict, LeftBy
<1>10. CASE N # 0
  <2>1. PICK k \in 1..N : /\ places = step(k)
                          /\ k = N \/ places.verdict # "yes"
                          /\ \A j \in 1..(k - 1) : step(j).verdict = "yes"
    <3>1. PICK k \in 1..N : /\ places = comparisons[k][v]
                            /\ k = N \/ places.verdict # "yes"
                            /\ \A j \in 1..(k - 1) : comparisons[j][v].verdict = "yes"
      BY <1>8, <1>10 DEF EndsWith
    <3>2. \A j \in 1..(k - 1) : j \in 1..N
      BY <1>2
    <3> QED
      BY <1>5, <3>1, <3>2
  <2>2. CASE places.verdict # "yes"
    <3>1. places.verdict = "no" /\ places.stored = v
      BY <1>6, <2>1, <2>2
    <3>2. k \in 1..Len(params) /\ step(k).verdict # "yes"
      BY <1>1, <1>2, <2>1, <2>2
    <3>3. ~AllMatch(params, args, v)
      BY <3>2 DEF AllMatch, step
    <3> QED
      BY <1>3, <2>2, <3>1, <3>3 DEF Clear
  <2>3. CASE places.verdict = "yes"
    <3>1. k = N /\ \A j \in 1..N : step(j).verdict = "yes"
      BY <1>2, <2>1, <2>3
    <3>2. AllMatch(params, args, v) <=> Len(params) = Len(args)
      <4>1. Len(params) = Len(args) => N = Len(params)
        BY <1>2
      <4> QED
        BY <3>1, <4>1 DEF AllMatch, step
    <3>3. places.stored = IF params \in Storing /\ N = Len(params) THEN args[N] ELSE v
      BY <1>6, <2>1, <2>3, <3>1
    <3>4. params \in Storing /\ N = Len(params) => Len(params) = Len(args)
      <4>1. ASSUME params \in Storing, N = Len(params)
            PROVE  Len(params) = Len(args)
        <5>1. Len(args) <= Len(params) /\ Len(params) <= Len(args)
          BY <1>1, <1>2, <4>1
        <5> QED
          BY <1>lengths, <5>1
      <4> QED
        BY <4>1
    <3>5. Len(params) = Len(args) => Last(args) = args[N]
      BY <1>2 DEF Last
    <3>6. places.stored \in Storable
      <4>1. N \in 1..Len(args)
        BY <1>lengths, <1>2, <1>10
      <4>2. args[N] \in Storable
        BY <1>1, <4>1
      <4> QED
        BY <3>3, <4>2
    <3>7. places.stored = IF AllMatch(params, args, v) THEN LeftBy(params, args, v) ELSE v
      BY <1>2, <3>2, <3>3, <3>4, <3>5 DEF LeftBy
    <3> QED
      BY <1>3, <2>3, <3>2, <3>6, <3>7 DEF Clear, Verdict
  <2> QED
    BY <2>2, <2>3
<1> QED
  BY <1>9, <1>10

\* Without the Value in them, they match or not whatever it has.
LEMMA SteadyMatch ==
  ASSUME ComparatorsAreCareful, NEW params \in Careful \ Reading, NEW args \in Passed,
         NEW v \in Storable, NEW w \in Storable, AllMatch(params, args, v)
  PROVE  AllMatch(params, args, w)
<1>1. /\ DOMAIN params = 1..Len(params) /\ Len(params) = Len(args)
      /\ \A i \in 1..Len(args) : args[i] \in Argument
  BY CarefulSequences DEF AllMatch
<1>2. ASSUME NEW i \in 1..Len(params)
      PROVE  Equal(params[i], args[i], w).verdict = "yes"
  <2>1. i \in DOMAIN params /\ args[i] \in Argument
    BY <1>1
  <2>2. Equal(params[i], args[i], v).verdict = "yes"
    BY DEF AllMatch
  <2> QED
    BY <2>1, <2>2, CarefulComparison
<1> QED
  BY <1>1, <1>2 DEF AllMatch

-----------------------------------------------------------------------------
(***************************************************************************)
(* A call that is compared with the methods of an element of the queue.    *)
(***************************************************************************)
\* The m-th method is equal to the call, while the Value has v.
Matches(m, args, v) == AllMatch(expected[m], args, v)

\* The i-th of the methods is the first that is equal to the call.
FirstMatch(methods, i, args, v) ==
  /\ i \in DOMAIN methods
  /\ Matches(methods[i], args, v)
  /\ \A j \in 1..(i - 1) : ~Matches(methods[j], args, v)

\* What a scan comes to: the first method that matches, or none.
Scanned(found, methods, args, v) ==
  \/ /\ found.verdict = "no" /\ found.stored = v
     /\ \A i \in DOMAIN methods : ~Matches(methods[i], args, v)
  \/ /\ found.verdict = "yes"
     /\ FirstMatch(methods, found.at, args, v)
     /\ found.stored = LeftBy(expected[methods[found.at]], args, v)
     /\ found.stored \in Storable

LEMMA CarefulScan ==
  ASSUME ComparatorsAreCareful, expected \in Seq(Careful),
         NEW methods \in Seq(DOMAIN expected), NEW args \in Passed, NEW v \in Storable
  PROVE  Scanned(Scan(methods, args, v), methods, args, v)
<1> DEFINE N == Len(methods)
           here(i, w) == FoundAt(i, ParamsEqual(expected[methods[i]], args, w))
           comparisons == [i \in 1..N |-> [w \in Storable |-> here(i, w)]]
           start == FoundAt(0, Verdict(FALSE, v))
           found == While("no", comparisons, start)
<1>1. N \in Nat /\ DOMAIN methods = 1..N
  BY LenProperties
<1>2. Scan(methods, args, v) = found
  BY <1>1 DEF Scan
<1> HIDE DEF N
<1>3. Len(comparisons) = N
  BY <1>1, LengthOf
<1>4. \A i \in 1..N : comparisons[i][v] = here(i, v)
  OBVIOUS
<1>5. ASSUME NEW i \in 1..N
      PROVE  /\ here(i, v).at = i
             /\ Clear(here(i, v), expected[methods[i]], args, v)
  <2>1. methods[i] \in DOMAIN expected
    BY <1>1, ElementOfSeq
  <2>2. expected[methods[i]] \in Careful
    BY <2>1, LenProperties, ElementOfSeq
  <2>3. Clear(ParamsEqual(expected[methods[i]], args, v), expected[methods[i]], args, v)
    BY <2>2, CarefulParams
  <2> QED
    BY <2>3 DEF Clear, FoundAt
<1>6. start.verdict = "no" /\ start.stored = v
  BY DEF FoundAt, Verdict
<1> HIDE DEF comparisons, here, start
<1>7. EndsWith(found, N, "no", comparisons, v, start)
  <2>1. ASSUME NEW i \in 1..(Len(comparisons) - 1), comparisons[i][v].verdict = "no"
        PROVE  comparisons[i][v].stored = v
    <3>1. i \in 1..N
      BY <1>1, <1>3
    <3> QED
      BY <1>4, <1>5, <2>1, <3>1 DEF Clear
  <2>2. Len(comparisons) \in Nat
    BY <1>1, <1>3
  <2> QED
    BY <1>3, <1>6, <2>1, <2>2, WhileSteady
<1> HIDE DEF found
<1>8. CASE N = 0
  <2>1. found.verdict = "no" /\ found.stored = v
    BY <1>6, <1>7, <1>8 DEF EndsWith
  <2>2. \A i \in DOMAIN methods : FALSE
    BY <1>1, <1>8
  <2> QED
    BY <1>2, <2>1, <2>2 DEF Scanned
<1>9. CASE N # 0
  <2>1. PICK k \in 1..N : /\ found = here(k, v)
                          /\ k = N \/ found.verdict # "no"
                          /\ \A j \in 1..(k - 1) : here(j, v).verdict = "no"
    <3>1. PICK k \in 1..N : /\ found = comparisons[k][v]
                            /\ k = N \/ found.verdict # "no"
                            /\ \A j \in 1..(k - 1) : comparisons[j][v].verdict = "no"
      BY <1>7, <1>9 DEF EndsWith
    <3>2. \A j \in 1..(k - 1) : j \in 1..N
      BY <1>1
    <3> QED
      BY <1>4, <3>1, <3>2
  <2>2. found.at = k /\ Clear(found, expected[methods[k]], args, v)
    BY <1>5, <2>1
  <2>3. \A j \in 1..(k - 1) : ~Matches(methods[j], args, v)
    <3>1. \A j \in 1..(k - 1) : j \in 1..N
      BY <1>1
    <3> QED
      BY <1>5, <2>1, <3>1 DEF Clear, Matches
  <2>4. CASE found.verdict = "yes"
    <3>1. Matches(methods[k], args, v)
      BY <2>2, <2>4 DEF Clear, Matches
    <3>2. FirstMatch(methods, k, args, v)
      BY <1>1, <2>3, <3>1 DEF FirstMatch
    <3> QED
      BY <1>2, <2>2, <2>4, <3>1, <3>2 DEF Scanned, Clear, Matches
  <2>5. CASE found.verdict # "yes"
    <3>1. found.verdict = "no" /\ found.stored = v /\ ~Matches(methods[k], args, v)
      BY <2>2, <2>5 DEF Clear, Matches
    <3>2. \A i \in 1..N : i \in 1..(k - 1) \/ i = k
      BY <1>1, <2>1, <3>1
    <3>3. \A i \in DOMAIN methods : ~Matches(methods[i], args, v)
      BY <1>1, <2>3, <3>1, <3>2
    <3> QED
      BY <1>2, <3>1, <3>3 DEF Scanned
  <2> QED
    BY <2>4, <2>5
<1> QED
  BY <1>8, <1>9

\* list.remove finds the method that was found: either nothing was stored, or the call
\* was stored by a method of a list in which none reads.
LEMMA FoundAgain ==
  ASSUME ComparatorsAreCareful, expected \in Seq(Careful),
         NEW methods \in Seq(DOMAIN expected), NEW args \in Passed, NEW v \in Storable,
         ~\E m, n \in ToSet(methods) : Stores(m) /\ Reads(n),
         NEW found, Scanned(found, methods, args, v), found.verdict = "yes",
         NEW again, Scanned(again, methods, args, found.stored)
  PROVE  again.verdict = "yes" /\ again.at = found.at /\ again.stored = found.stored
<1> DEFINE u == found.stored
           m == methods[found.at]
<1>1. /\ FirstMatch(methods, found.at, args, v) /\ u \in Storable
      /\ u = LeftBy(expected[m], args, v)
  BY DEF Scanned
<1>2. Len(methods) \in Nat /\ DOMAIN methods = 1..Len(methods)
  BY LenProperties
<1>3. \A i \in DOMAIN methods : expected[methods[i]] \in Careful
  BY <1>2, ElementOfSeq, LenProperties
<1>4. \A i \in DOMAIN methods : Matches(methods[i], args, v) <=> Matches(methods[i], args, u)
  <2>1. CASE u = v
    BY <2>1
  <2>2. CASE u # v
    <3>1. Stores(m) /\ m \in ToSet(methods)
      BY <1>1, <2>2 DEF LeftBy, Stores, FirstMatch, ToSet
    <3>2. \A i \in DOMAIN methods : expected[methods[i]] \in Careful \ Reading
      BY <1>3, <3>1 DEF Reads, ToSet
    <3> QED
      BY <1>1, <3>2, SteadyMatch DEF Matches
  <2> QED
    BY <2>1, <2>2
<1>5. Matches(m, args, u) /\ found.at \in DOMAIN methods
  BY <1>1, <1>4 DEF FirstMatch
<1>6. again.verdict = "yes" /\ FirstMatch(methods, again.at, args, u)
      /\ again.stored = LeftBy(expected[methods[again.at]], args, u)
  BY <1>5 DEF Scanned
<1>7. again.at = found.at
  <2>1. again.at \in 1..Len(methods) /\ found.at \in 1..Len(methods)
    BY <1>1, <1>2, <1>6 DEF FirstMatch
  <2>2. ~(found.at \in 1..(again.at - 1))
    BY <1>5, <1>6 DEF FirstMatch
  <2>3. ~(again.at \in 1..(found.at - 1))
    BY <1>1, <1>4, <1>6 DEF FirstMatch
  <2> QED
    BY <1>2, <2>1, <2>2, <2>3
<1>8. again.stored = u
  BY <1>1, <1>6, <1>7 DEF LeftBy
<1> QED
  BY <1>6, <1>7, <1>8

-----------------------------------------------------------------------------
(***************************************************************************)
(* A call that meets the queue.                                            *)
(***************************************************************************)
\* The call is answered by the i-th method of item, and stores what the method stores.
AnsweredBy(end, item, i, rest, args, v) ==
  /\ i \in DOMAIN item.methods
  /\ end = Ends("returned", item.methods[i], Remaining(item, i) \o rest,
                LeftBy(expected[item.methods[i]], args, v))
  /\ LeftBy(expected[item.methods[i]], args, v) \in Storable

\* The call is refused, and nothing is stored.
Refused(end, rest, v) == end = Ends("UnexpectedMethodCallError", 0, rest, v)

\* The element gives way to the rest, and nothing is stored: it owes nothing.
PassedBy(end, rest, v) == end = GivesWay(rest, v)

OwesNothing(item) == item.kind = "multiple" /\ item.left = {}

\* What the ends of a call say.
LEMMA RefusedEnd ==
  ASSUME NEW end, NEW rest, NEW v, Refused(end, rest, v)
  PROVE  /\ end.verdict = "ended" /\ end.outcome = "UnexpectedMethodCallError"
         /\ end.method = 0 /\ end.queue = rest /\ end.stored = v
BY DEF Refused, Ends

LEMMA PassedByEnd ==
  ASSUME NEW end, NEW rest, NEW v, PassedBy(end, rest, v)
  PROVE  /\ end.verdict = "given way" /\ end.outcome = "UnexpectedMethodCallError"
         /\ end.method = 0 /\ end.queue = rest /\ end.stored = v
BY DEF PassedBy, GivesWay

LEMMA AnsweredByEnd ==
  ASSUME NEW end, NEW item, NEW i, NEW rest, NEW args, NEW v,
         AnsweredBy(end, item, i, rest, args, v)
  PROVE  /\ end.verdict = "ended" /\ end.outcome = "returned"
         /\ end.method = item.methods[i] /\ end.queue = Remaining(item, i) \o rest
         /\ end.stored = LeftBy(expected[item.methods[i]], args, v)
         /\ end.stored \in Storable /\ i \in DOMAIN item.methods
<1> DEFINE left == LeftBy(expected[item.methods[i]], args, v)
           remains == Remaining(item, i) \o rest
<1>1. /\ i \in DOMAIN item.methods /\ left \in Storable
      /\ end = Ends("returned", item.methods[i], remains, left)
  BY DEF AnsweredBy
<1> HIDE DEF left, remains
<1>2. /\ end.verdict = "ended" /\ end.outcome = "returned" /\ end.method = item.methods[i]
      /\ end.queue = remains /\ end.stored = left
  BY <1>1 DEF Ends
<1> QED
  BY <1>1, <1>2 DEF left, remains

\* A call that a method answers as it is found.
LEMMA Answers ==
  ASSUME NEW item, NEW i \in DOMAIN item.methods, NEW rest, NEW args, NEW v,
         NEW u \in Storable, u = LeftBy(expected[item.methods[i]], args, v)
  PROVE  AnsweredBy(Ends("returned", item.methods[i], Remaining(item, i) \o rest, u),
                    item, i, rest, args, v)
<1> DEFINE end == Ends("returned", item.methods[i], Remaining(item, i) \o rest,
                       LeftBy(expected[item.methods[i]], args, v))
<1>1. AnsweredBy(end, item, i, rest, args, v)
  BY DEF AnsweredBy
<1> QED
  BY <1>1

LEMMA CarefulServedBy ==
  ASSUME ComparatorsAreCareful, expected \in Seq(Careful),
         NEW item \in Item(DOMAIN expected), Unmixed(item), NEW rest,
         NEW args \in Passed, NEW v \in Storable,
         NEW end, end = ServedBy(item, rest, args, v)
  PROVE  \/ \E i \in DOMAIN item.methods : AnsweredBy(end, item, i, rest, args, v)
         \/ Refused(end, rest, v)
         \/ PassedBy(end, rest, v) /\ OwesNothing(item)
<1> DEFINE found == Scan(item.methods, args, v)
           again == Scan(item.methods, args, found.stored)
<1>1. item.methods \in Seq(DOMAIN expected) /\ item.kind \in {"method"} \cup GroupKind
  BY DEF Item
<1>2. Scanned(found, item.methods, args, v)
  BY <1>1, CarefulScan
<1>3. CASE found.verdict = "no"
  <2>1. found.stored = v
    BY <1>2, <1>3 DEF Scanned
  <2>2. end = IF OwesNothing(item)
              THEN GivesWay(rest, v)
              ELSE Ends("UnexpectedMethodCallError", 0, rest, v)
    BY <1>3, <2>1 DEF ServedBy, OwesNothing
  <2> QED
    BY <2>2 DEF Refused, PassedBy
<1>4. CASE found.verdict = "yes"
  <2>1. /\ found.at \in DOMAIN item.methods /\ found.stored \in Storable
        /\ found.stored = LeftBy(expected[item.methods[found.at]], args, v)
    BY <1>2, <1>4 DEF Scanned, FirstMatch
  <2>2. CASE item.kind # "unordered"
    <3>1. end = Ends("returned", item.methods[found.at],
                     Remaining(item, found.at) \o rest, found.stored)
      BY <1>4, <2>2 DEF ServedBy
    <3>2. AnsweredBy(end, item, found.at, rest, args, v)
      <4> HIDE DEF found
      <4> QED
        BY <2>1, <3>1, Answers
    <3> HIDE DEF found
    <3> QED
      BY <2>1, <3>2
  <2>3. CASE item.kind = "unordered"
    <3>1. end = Removed(item, found, args, rest)
      BY <1>4, <2>3 DEF ServedBy
    <3>2. Scanned(again, item.methods, args, found.stored)
      BY <1>1, <2>1, CarefulScan
    <3> HIDE DEF found
    <3>3. ~\E m, n \in ToSet(item.methods) : Stores(m) /\ Reads(n)
      BY <2>3 DEF Unmixed
    <3>4. again.verdict = "yes" /\ again.at = found.at /\ again.stored = found.stored
      <4> HIDE DEF again
      <4> QED
        BY <1>1, <1>2, <1>4, <3>2, <3>3, FoundAgain
    <3>5. end = Ends("returned", item.methods[found.at],
                     Remaining(item, found.at) \o rest, found.stored)
      BY <3>1, <3>4 DEF Removed
    <3>6. AnsweredBy(end, item, found.at, rest, args, v)
      BY <2>1, <3>5, Answers
    <3> QED
      BY <2>1, <3>6
  <2> QED
    BY <2>2, <2>3
<1>5. found.verdict \in {"yes", "no"}
  BY <1>2 DEF Scanned
<1> QED
  BY <1>3, <1>4, <1>5

\* What follows the k-th element.
Rest(q, k) == SubSeq(q, k + 1, Len(q))

\* The k-th element is reached when the ones before it owe nothing.
Reached(q, k) ==
  k \in 1..Len(q) /\ \A j \in 1..(k - 1) : OwesNothing(q[j])

\* What a call comes to: a method of the first element that does not give way answers,
\* or the call is refused.
ServedCarefully(end, q, args, v) ==
  \/ \E k \in 1..Len(q) : \E i \in DOMAIN q[k].methods :
       Reached(q, k) /\ AnsweredBy(end, q[k], i, Rest(q, k), args, v)
  \/ /\ end.outcome = "UnexpectedMethodCallError" /\ end.method = 0 /\ end.stored = v
     /\ end.queue = <<>> \/ \E k \in 1..Len(q) : end.queue = Rest(q, k)

LEMMA CarefulServed ==
  ASSUME ComparatorsAreCareful, expected \in Seq(Careful),
         NEW q \in Seq(Item(DOMAIN expected)), \A k \in DOMAIN q : Unmixed(q[k]),
         NEW args \in Passed, NEW v \in Storable
  PROVE  ServedCarefully(Served(q, args, v), q, args, v)
<1> DEFINE N == Len(q)
           meets(k, w) == ServedBy(q[k], Rest(q, k), args, w)
           comparisons == [k \in 1..N |-> [w \in Storable |-> meets(k, w)]]
           start == GivesWay(<<>>, v)
           end == While("given way", comparisons, start)
<1>1. N \in Nat /\ DOMAIN q = 1..N /\ \A k \in 1..N : q[k] \in Item(DOMAIN expected)
  BY LenProperties, ElementOfSeq
<1>2. Served(q, args, v) = end
  BY <1>1 DEF Served, Rest
<1> HIDE DEF N
<1>3. Len(comparisons) = N
  BY <1>1, LengthOf
<1>4. \A k \in 1..N : comparisons[k][v] = meets(k, v)
  OBVIOUS
<1>5. ASSUME NEW k \in 1..N
      PROVE  \/ \E i \in DOMAIN q[k].methods :
                  AnsweredBy(meets(k, v), q[k], i, Rest(q, k), args, v)
             \/ Refused(meets(k, v), Rest(q, k), v)
             \/ PassedBy(meets(k, v), Rest(q, k), v) /\ OwesNothing(q[k])
  BY <1>1, CarefulServedBy
<1>6. start.verdict = "given way" /\ start.stored = v
  BY DEF GivesWay
<1> HIDE DEF comparisons, meets
<1>7. ASSUME NEW k \in 1..N, meets(k, v).verdict = "given way"
      PROVE  PassedBy(meets(k, v), Rest(q, k), v) /\ OwesNothing(q[k])
  <2>1. ~Refused(meets(k, v), Rest(q, k), v)
    BY <1>7, RefusedEnd
  <2>2. ASSUME NEW i \in DOMAIN q[k].methods
        PROVE  ~AnsweredBy(meets(k, v), q[k], i, Rest(q, k), args, v)
    BY <1>7, AnsweredByEnd
  <2> QED
    BY <1>5, <2>1, <2>2
<1>8. EndsWith(end, N, "given way", comparisons, v, start)
  <2> HIDE DEF start
  <2>1. ASSUME NEW k \in 1..(Len(comparisons) - 1), comparisons[k][v].verdict = "given way"
        PROVE  comparisons[k][v].stored = v
    <3>1. k \in 1..N
      BY <1>1, <1>3
    <3>2. comparisons[k][v] = meets(k, v)
      BY <1>4, <3>1
    <3>3. PassedBy(meets(k, v), Rest(q, k), v)
      BY <1>7, <2>1, <3>1, <3>2
    <3>4. meets(k, v).stored = v
      BY <3>3, PassedByEnd
    <3> QED
      BY <3>2, <3>4
  <2>2. Len(comparisons) \in Nat
    BY <1>1, <1>3
  <2> QED
    BY <1>3, <1>6, <2>1, <2>2, WhileSteady
<1> HIDE DEF end
<1>9. CASE N = 0
  <2>1. end = GivesWay(<<>>, v)
    BY <1>8, <1>9 DEF EndsWith
  <2>2. /\ end.outcome = "UnexpectedMethodCallError" /\ end.method = 0 /\ end.stored = v
        /\ end.queue = <<>>
    BY <2>1 DEF GivesWay
  <2> QED
    BY <1>2, <2>2 DEF ServedCarefully
<1>10. CASE N # 0
  <2>1. PICK k \in 1..N : /\ end = meets(k, v)
                          /\ \A j \in 1..(k - 1) : meets(j, v).verdict = "given way"
    <3>1. PICK k \in 1..N : /\ end = comparisons[k][v]
                            /\ \A j \in 1..(k - 1) : comparisons[j][v].verdict = "given way"
      BY <1>8, <1>10 DEF EndsWith
    <3>2. \A j \in 1..(k - 1) : j \in 1..N
      BY <1>1
    <3> QED
      BY <1>4, <3>1, <3>2
  <2>2. Reached(q, k)
    <3>1. \A j \in 1..(k - 1) : j \in 1..N
      BY <1>1
    <3>2. \A j \in 1..(k - 1) : OwesNothing(q[j])
      BY <1>7, <2>1, <3>1
    <3> QED
      BY <3>2 DEF Reached, N
  <2>3. CASE \E i \in DOMAIN q[k].methods : AnsweredBy(end, q[k], i, Rest(q, k), args, v)
    BY <1>2, <2>2, <2>3 DEF ServedCarefully, N
  <2>4. CASE Refused(end, Rest(q, k), v) \/ PassedBy(end, Rest(q, k), v)
    <3>1. /\ end.outcome = "UnexpectedMethodCallError" /\ end.method = 0 /\ end.stored = v
          /\ end.queue = Rest(q, k)
      <4>1. CASE Refused(end, Rest(q, k), v)
        BY <4>1, RefusedEnd
      <4>2. CASE PassedBy(end, Rest(q, k), v)
        BY <4>2, PassedByEnd
      <4> QED
        BY <2>4, <4>1, <4>2
    <3>2. k \in 1..Len(q)
      BY DEF N
    <3> QED
      BY <1>2, <3>1, <3>2 DEF ServedCarefully
  <2> QED
    BY <1>5, <2>1, <2>3, <2>4
<1> QED
  BY <1>9, <1>10

-----------------------------------------------------------------------------
(***************************************************************************)
(* The elements of queues that are put together from others.               *)
(***************************************************************************)
LEMMA ToSetConcat ==
  ASSUME NEW S, NEW s \in Seq(S), NEW t \in Seq(S)
  PROVE  s \o t \in Seq(S) /\ ToSet(s \o t) = ToSet(s) \cup ToSet(t)
<1>1. /\ s \o t \in Seq(S) /\ Len(s \o t) = Len(s) + Len(t)
      /\ \A n \in 1..(Len(s) + Len(t)) :
           (s \o t)[n] = IF n <= Len(s) THEN s[n] ELSE t[n - Len(s)]
  BY ConcatProperties
<1>2. Len(s) \in Nat /\ Len(t) \in Nat
  BY LenProperties
<1> DEFINE u == s \o t
<1>3. u \in Seq(S)
  BY <1>1
<1>4. ASSUME NEW x \in ToSet(u)
      PROVE  x \in ToSet(s) \cup ToSet(t)
  <2>1. PICK n \in 1..(Len(s) + Len(t)) : u[n] = x
    BY <1>1, <1>3, <1>4, ToSetElements
  <2>2. CASE n <= Len(s)
    <3>1. n \in 1..Len(s) /\ s[n] = x
      BY <1>1, <1>2, <2>1, <2>2
    <3> QED
      BY <3>1, ToSetElements
  <2>3. CASE ~(n <= Len(s))
    <3>1. n - Len(s) \in 1..Len(t)
      BY <1>2, <2>3
    <3>2. t[n - Len(s)] = x
      BY <1>1, <2>1, <2>3
    <3> QED
      BY <3>1, <3>2, ToSetElements
  <2> QED
    BY <2>2, <2>3
<1>5. ASSUME NEW x \in ToSet(s)
      PROVE  x \in ToSet(u)
  <2>1. PICK n \in 1..Len(s) : s[n] = x
    BY <1>5, ToSetElements
  <2>2. n \in 1..(Len(s) + Len(t)) /\ n <= Len(s)
    BY <1>2
  <2>3. u[n] = x
    BY <1>1, <2>1, <2>2
  <2> HIDE DEF u
  <2> QED
    BY <1>1, <1>3, <2>2, <2>3, ToSetElements DEF u
<1>6. ASSUME NEW x \in ToSet(t)
      PROVE  x \in ToSet(u)
  <2>1. PICK n \in 1..Len(t) : t[n] = x
    BY <1>6, ToSetElements
  <2> DEFINE p == Len(s) + n
  <2>2. p \in 1..(Len(s) + Len(t)) /\ ~(p <= Len(s)) /\ p - Len(s) = n
    BY <1>2
  <2> HIDE DEF p
  <2>3. u[p] = x
    BY <1>1, <2>1, <2>2
  <2> HIDE DEF u
  <2> QED
    BY <1>1, <1>3, <2>2, <2>3, ToSetElements DEF u
<1> QED
  BY <1>3, <1>4, <1>5, <1>6

LEMMA ToSetAppend ==
  ASSUME NEW S, NEW s \in Seq(S), NEW x \in S
  PROVE  /\ Append(s, x) \in Seq(S) /\ Append(s, x) # <<>> /\ Last(Append(s, x)) = x
         /\ ToSet(Append(s, x)) = ToSet(s) \cup {x}
<1> DEFINE u == Append(s, x)
           N == Len(s)
           last == N + 1
<1>1. /\ u \in Seq(S) /\ Len(u) = N + 1
      /\ \A n \in 1..N : u[n] = s[n]
      /\ u[N + 1] = x
  BY AppendProperties
<1>2. N \in Nat /\ last \in 1..last /\ \A n \in 1..last : n \in 1..N \/ n = last
  BY LenProperties
<1>3. Len(u) = last /\ u[last] = x
  BY <1>1
<1> HIDE DEF u, last
<1>4. u # <<>> /\ Last(u) = x
  <2>1. Len(u) # 0
    BY <1>2, <1>3
  <2> QED
    BY <1>1, <1>3, <2>1, EmptySeq DEF Last
<1>5. \A n \in 1..N : n \in 1..last
  BY <1>2 DEF last
<1> HIDE DEF N
<1>6. ASSUME NEW y
      PROVE  y \in ToSet(u) <=> y \in ToSet(s) \cup {x}
  <2>1. y \in ToSet(u) <=> \E n \in 1..last : u[n] = y
    BY <1>1, <1>3, ToSetElements
  <2>2. y \in ToSet(s) <=> \E n \in 1..N : s[n] = y
    BY ToSetElements DEF N
  <2> QED
    BY <1>1, <1>2, <1>3, <1>5, <2>1, <2>2
<1> QED
  BY <1>1, <1>4, <1>6 DEF u

LEMMA ToSetFront ==
  ASSUME NEW S, NEW s \in Seq(S), s # <<>>
  PROVE  /\ Front(s) \in Seq(S) /\ Last(s) \in S
         /\ ToSet(s) = ToSet(Front(s)) \cup {Last(s)}
<1> DEFINE f == Front(s)
           N == Len(s)
<1>1. /\ f \in Seq(S) /\ Len(f) = N - 1 /\ Last(s) \in S
      /\ \A n \in 1..(N - 1) : f[n] = s[n]
  BY FrontProperties, FrontType
<1>2. N \in Nat \ {0} /\ Last(s) = s[N]
  BY LenProperties, EmptySeq DEF Last
<1>3. /\ N \in 1..N
      /\ \A n \in 1..N : n \in 1..(N - 1) \/ n = N
      /\ \A n \in 1..(N - 1) : n \in 1..N
  BY <1>2
<1> HIDE DEF f
<1>4. ASSUME NEW y
      PROVE  y \in ToSet(s) <=> y \in ToSet(f) \cup {Last(s)}
  <2>1. y \in ToSet(f) <=> \E n \in 1..(N - 1) : f[n] = y
    BY <1>1, ToSetElements
  <2>2. y \in ToSet(s) <=> \E n \in 1..N : s[n] = y
    BY ToSetElements
  <2> HIDE DEF N
  <2> QED
    BY <1>1, <1>2, <1>3, <2>1, <2>2
<1> QED
  BY <1>1, <1>4 DEF f

LEMMA ToSetRest ==
  ASSUME NEW S, NEW s \in Seq(S), NEW k \in 1..Len(s)
  PROVE  /\ Rest(s, k) \in Seq(S)
         /\ \A x : x \in ToSet(s) <=> x \in ToSet(Rest(s, k)) \/ \E j \in 1..k : s[j] = x
<1> DEFINE r == Rest(s, k)
           N == Len(s)
<1>1. /\ r \in Seq(S) /\ Len(r) = N - k
      /\ \A n \in 1..(N - k) : r[n] = s[k + n]
  BY AfterProperties DEF Rest
<1>2. /\ N \in Nat /\ k \in 1..N
      /\ \A n \in 1..N : n \in 1..k \/ (n - k \in 1..(N - k) /\ k + (n - k) = n)
      /\ \A n \in 1..k : n \in 1..N
      /\ \A n \in 1..(N - k) : k + n \in 1..N
  BY LenProperties
<1> HIDE DEF r
<1>3. ASSUME NEW x
      PROVE  x \in ToSet(s) <=> x \in ToSet(r) \/ \E j \in 1..k : s[j] = x
  <2>1. x \in ToSet(r) <=> \E n \in 1..(N - k) : r[n] = x
    BY <1>1, ToSetElements
  <2>2. x \in ToSet(s) <=> \E n \in 1..N : s[n] = x
    BY ToSetElements
  <2> HIDE DEF N
  <2>3. ASSUME NEW n \in 1..N, s[n] = x
        PROVE  (\E p \in 1..(N - k) : r[p] = x) \/ \E j \in 1..k : s[j] = x
    <3>1. CASE n \in 1..k
      BY <2>3, <3>1
    <3>2. CASE n - k \in 1..(N - k) /\ k + (n - k) = n
      <4>1. r[n - k] = x
        BY <1>1, <2>3, <3>2
      <4> QED
        BY <3>2, <4>1
    <3> QED
      BY <1>2, <3>1, <3>2
  <2>4. ASSUME NEW p \in 1..(N - k), r[p] = x
        PROVE  \E n \in 1..N : s[n] = x
    BY <1>1, <1>2, <2>4
  <2> QED
    BY <1>2, <2>1, <2>2, <2>3, <2>4
<1> QED
  BY <1>1, <1>3 DEF r

-----------------------------------------------------------------------------
(***************************************************************************)
(* What is owed.  An expected method is owed by an element of the queue    *)
(* until it answers a call or a call is refused.                           *)
(***************************************************************************)
\* The m-th method is owed by an element of the queue.
IsOwed(q, m) == \E item \in ToSet(q) : m \in Owed(item)

\* What the elements of a queue are: a method stands alone when it is in no group, and
\* no UnorderedGroup has both a Remember and the Value.
Sound(item) == (item.kind = "method" => Len(item.methods) = 1) /\ Unmixed(item)

IsQueue(q) == q \in Seq(Item(DOMAIN expected)) /\ \A item \in ToSet(q) : Sound(item)

\* A method that is called leaves an element that is as sound, and owes the others.
LEMMA RemainingSound ==
  ASSUME expected \in Seq(Careful), NEW item \in Item(DOMAIN expected), Sound(item),
         NEW i \in DOMAIN item.methods
  PROVE  /\ Remaining(item, i) \in Seq(Item(DOMAIN expected))
         /\ \A x \in ToSet(Remaining(item, i)) : Sound(x)
         /\ \A m \in Owed(item) \ {item.methods[i]} : IsOwed(Remaining(item, i), m)
<1> DEFINE rem == Remaining(item, i)
           M == DOMAIN expected
<1>1. rem \in Seq(Item(M))
  BY RemainingType
<1>2. ASSUME NEW x \in ToSet(rem)
      PROVE  Sound(x)
  <2>1. CASE item.kind = "multiple"
    <3> DEFINE y == [item EXCEPT !.left = @ \ {item.methods[i]}]
    <3>1. y.kind = "multiple"
      BY <2>1 DEF Item
    <3>2. rem = <<y>>
      BY <2>1 DEF Remaining
    <3> HIDE DEF y, rem
    <3>3. x = y
      BY <1>2, <3>2 DEF ToSet
    <3> QED
      BY <3>1, <3>3 DEF Sound, Unmixed
  <2>2. CASE item.kind # "multiple"
    <3> DEFINE y == [item EXCEPT !.methods = RemoveAt(@, i)]
    <3>1. y.kind = item.kind /\ y.methods = RemoveAt(item.methods, i)
      BY DEF Item
    <3>2. IF Len(item.methods) = 1 THEN rem = <<>> ELSE rem = <<y>>
      BY <2>2 DEF Remaining
    <3> HIDE DEF y, rem
    <3>3. x = y /\ Len(item.methods) # 1
      BY <1>2, <3>2 DEF ToSet
    <3>4. y.kind # "method"
      BY <3>1, <3>3 DEF Sound
    <3>5. ToSet(y.methods) \subseteq ToSet(item.methods)
      <4> DEFINE s == item.methods
      <4>1. s \in Seq(M) /\ i \in 1..Len(s) /\ Len(s) \in Nat
        BY LenProperties DEF Item
      <4> HIDE DEF s
      <4>2. /\ RemoveAt(s, i) \in Seq(M) /\ Len(RemoveAt(s, i)) = Len(s) - 1
            /\ \A n \in 1..(Len(s) - 1) :
                 RemoveAt(s, i)[n] = IF n < i THEN s[n] ELSE s[n + 1]
        BY <4>1, RemoveAtProperties
      <4>3. ASSUME NEW m \in ToSet(RemoveAt(s, i))
            PROVE  m \in ToSet(s)
        <5>1. PICK n \in 1..(Len(s) - 1) : RemoveAt(s, i)[n] = m
          BY <4>2, <4>3, ToSetElements
        <5>2. n \in 1..Len(s) /\ n + 1 \in 1..Len(s)
          BY <4>1
        <5>3. m = s[n] \/ m = s[n + 1]
          BY <4>2, <5>1
        <5> QED
          BY <4>1, <5>2, <5>3, ToSetElements
      <4> QED
        BY <3>1, <4>3 DEF s
    <3>6. Unmixed(y)
      BY <3>1, <3>5 DEF Sound, Unmixed
    <3> QED
      BY <3>3, <3>4, <3>6 DEF Sound
  <2> QED
    BY <2>1, <2>2
<1>3. ASSUME NEW m \in Owed(item) \ {item.methods[i]}
      PROVE  IsOwed(rem, m)
  <2>1. Len(rem) = 1 /\ m \in Owed(rem[1])
    BY RemainingOwed
  <2> HIDE DEF rem
  <2>2. rem[1] \in ToSet(rem)
    BY <1>1, <2>1, ToSetElements
  <2> QED
    BY <2>1, <2>2 DEF IsOwed
<1> QED
  BY <1>1, <1>2, <1>3

\* Elements that owe nothing.
LEMMA ReachedOwed ==
  ASSUME NEW q, NEW k, Reached(q, k), NEW j \in 1..k, NEW m \in Owed(q[j])
  PROVE  j = k
<1>1. k \in 1..Len(q) /\ (j \in 1..(k - 1) \/ j = k)
  BY DEF Reached
<1>2. ASSUME j \in 1..(k - 1) PROVE FALSE
  <2>1. OwesNothing(q[j])
    BY <1>2 DEF Reached
  <2> QED
    BY <2>1 DEF Owed, OwesNothing
<1> QED
  BY <1>1, <1>2

\* The i-th method of the k-th element answers, and leaves the queue new.
Leaves(new, q, k, i) ==
  /\ k \in 1..Len(q) /\ Reached(q, k) /\ i \in DOMAIN q[k].methods
  /\ new = Remaining(q[k], i) \o Rest(q, k)

\* The queue new is sound, and owes what q owes but the m-th method.
OwesTheOthers(new, q, m) ==
  /\ IsQueue(new) /\ m \in DOMAIN expected
  /\ \A n : IsOwed(q, n) => n = m \/ IsOwed(new, n)

\* A call that a method answers keeps the queue sound and what it owes, but the method.
LEMMA AnsweredQueue ==
  ASSUME expected \in Seq(Careful), NEW q, IsQueue(q), NEW k, NEW i, NEW new,
         Leaves(new, q, k, i)
  PROVE  OwesTheOthers(new, q, q[k].methods[i])
<1>0. /\ k \in 1..Len(q) /\ Reached(q, k) /\ i \in DOMAIN q[k].methods
      /\ new = Remaining(q[k], i) \o Rest(q, k)
  BY DEF Leaves
<1> DEFINE M == DOMAIN expected
           S == Item(M)
           rem == Remaining(q[k], i)
           rest == Rest(q, k)
<1>1. q \in Seq(S) /\ q[k] \in S /\ q[k] \in ToSet(q)
  BY <1>0, ElementOfSeq, ToSetElements DEF IsQueue
<1>2. Sound(q[k])
  BY <1>1 DEF IsQueue
<1>3. /\ rem \in Seq(S) /\ \A x \in ToSet(rem) : Sound(x)
      /\ \A m \in Owed(q[k]) \ {q[k].methods[i]} : IsOwed(rem, m)
  BY <1>0, <1>1, <1>2, RemainingSound
<1>4. /\ rest \in Seq(S)
      /\ \A x : x \in ToSet(q) <=> x \in ToSet(rest) \/ \E j \in 1..k : q[j] = x
  BY <1>0, <1>1, ToSetRest
<1>5. q[k].methods[i] \in M
  BY <1>0, <1>1, LenProperties, ElementOfSeq DEF Item
<1> HIDE DEF rem, rest
<1>6. new \in Seq(S) /\ ToSet(new) = ToSet(rem) \cup ToSet(rest)
  <2>1. rem \o rest \in Seq(S) /\ ToSet(rem \o rest) = ToSet(rem) \cup ToSet(rest)
    BY <1>3, <1>4, ToSetConcat
  <2> QED
    BY <1>0, <2>1 DEF rem, rest
<1>7. IsQueue(new)
  BY <1>3, <1>4, <1>6 DEF IsQueue
<1>8. ASSUME NEW m, IsOwed(q, m), m # q[k].methods[i]
      PROVE  IsOwed(new, m)
  <2>1. PICK x \in ToSet(q) : m \in Owed(x)
    BY <1>8 DEF IsOwed
  <2>2. CASE x \in ToSet(rest)
    BY <1>6, <2>1, <2>2 DEF IsOwed
  <2>3. CASE \E j \in 1..k : q[j] = x
    <3>1. x = q[k]
      BY <1>0, <2>1, <2>3, ReachedOwed
    <3>2. IsOwed(rem, m)
      BY <1>3, <1>8, <2>1, <3>1
    <3> QED
      BY <1>6, <3>2 DEF IsOwed
  <2> QED
    BY <1>4, <2>2, <2>3
<1> QED
  BY <1>5, <1>7, <1>8 DEF OwesTheOthers

\* What a refused call leaves is sound.
LEMMA RestOfQueue ==
  ASSUME NEW q, IsQueue(q), NEW k \in 1..Len(q)
  PROVE  IsQueue(Rest(q, k))
<1>1. q \in Seq(Item(DOMAIN expected))
  BY DEF IsQueue
<1>2. /\ Rest(q, k) \in Seq(Item(DOMAIN expected))
      /\ ToSet(Rest(q, k)) \subseteq ToSet(q)
  BY <1>1, ToSetRest
<1> QED
  BY <1>2 DEF IsQueue

LEMMA EmptyQueue == IsQueue(<<>>) /\ \A m : ~IsOwed(<<>>, m)
<1>1. <<>> \in Seq(Item(DOMAIN expected)) /\ ToSet(<<>>) = {}
  BY EmptySeq DEF ToSet
<1> QED
  BY <1>1 DEF IsQueue, IsOwed

-----------------------------------------------------------------------------
(***************************************************************************)
(* The inductive invariant.  VerifiedMeansAnswered speaks of a moment when *)
(* nothing is expected, and StoredByAnsweredCalls of what calls leave      *)
(* behind: both need that every element of the queue is sound and that     *)
(* what is not answered is owed.                                           *)
(***************************************************************************)
AreOwed == thrown \/ \A m \in DOMAIN expected : m \in answered \/ IsOwed(queue, m)

ValuesInv ==
  /\ expected \in Seq(Careful)
  /\ IsQueue(queue)
  /\ stored \in Storable
  /\ answered \subseteq DOMAIN expected
  /\ AreOwed
  /\ VerifiedMeansAnswered
  /\ StoredByAnsweredCalls

\* The client takes no liberties, and its comparators keep to what is asked of them.
CarefulClient == Liberties = {} /\ ComparatorsAreCareful

LEMMA InitValues ==
  ASSUME Init
  PROVE  ValuesInv
<1>1. expected \in Seq(Careful) /\ DOMAIN expected = {}
  BY EmptySeq DEF Init
<1>2. IsQueue(queue)
  BY EmptyQueue DEF Init
<1>3. stored \in Storable /\ stored = remembered
  BY ComparisonAssumption DEF Init
<1> QED
  BY <1>1, <1>2, <1>3 DEF Init, ValuesInv, AreOwed, VerifiedMeansAnswered, StoredByAnsweredCalls

\* One more expected call.
LEMMA RecordKeeps ==
  ASSUME CarefulClient, ValuesInv, NEW params \in Expected, Record(params)
  PROVE  ValuesInv'
<1> DEFINE M == DOMAIN expected
<1>0. PICK n : n = Len(expected) + 1
  OBVIOUS
<1>1. params \in Careful /\ expected' = Append(expected, params)
  BY DEF Record, May, CarefulClient
<1>2. /\ expected \in Seq(Careful) /\ IsQueue(queue) /\ stored \in Storable
      /\ answered \subseteq M /\ AreOwed /\ StoredByAnsweredCalls
  BY DEF ValuesInv
<1>3. /\ expected' \in Seq(Careful) /\ DOMAIN expected' = M \cup {n}
      /\ \A m \in M : expected'[m] = expected[m]
  <2>1. /\ expected' \in Seq(Careful) /\ Len(expected') = Len(expected) + 1
        /\ \A m \in 1..Len(expected) : expected'[m] = expected[m]
    BY <1>1, <1>2, AppendProperties
  <2>2. /\ M = 1..Len(expected) /\ DOMAIN expected' = 1..Len(expected')
        /\ Len(expected) \in Nat
    BY <1>2, <2>1, LenProperties
  <2> QED
    BY <1>0, <2>1, <2>2
<1>4. /\ queue' = Append(queue, Single(n)) /\ outcome' = "recorded"
      /\ UNCHANGED <<thrown, answered, remembered>>
  BY <1>0 DEF Record
<1>5. stored' = stored
  <2>1. CASE Optional > 0 /\ Len(params) > 0
    <3>1. params # <<>>
      BY <2>1
    <3>2. Equal(Head(params), Class, stored).stored = stored
      BY <1>1, <1>2, <2>1, <3>1 DEF CarefulClient, ComparatorsAreCareful
    <3> QED
      BY <2>1, <3>2 DEF Record, LookedAt
  <2>2. CASE ~(Optional > 0 /\ Len(params) > 0)
    BY <2>2 DEF Record, LookedAt
  <2> QED
    BY <2>1, <2>2
<1> DEFINE S == Item(M \cup {n})
<1>single. PICK single : single = Single(n)
  OBVIOUS
<1>6. queue \in Seq(S) /\ single \in S
  <2>1. queue \in Seq(Item(M))
    BY <1>2 DEF IsQueue
  <2>2. Item(M) \subseteq S
    BY ItemMonotonic
  <2>3. single \in S
    BY <1>single, SingleType
  <2> HIDE DEF S
  <2> QED
    BY <2>1, <2>2, <2>3, SeqMonotonic
<1>7. queue' \in Seq(S) /\ ToSet(queue') = ToSet(queue) \cup {single}
  <2> HIDE DEF S
  <2> QED
    BY <1>4, <1>6, <1>single, ToSetAppend
<1>8. ASSUME NEW item \in ToSet(queue)
      PROVE  Sound(item)'
  <2>1. Sound(item) /\ item \in Item(M)
    BY <1>2, <1>8, ToSetType DEF IsQueue
  <2>2. ToSet(item.methods) \subseteq M
    BY <2>1, ToSetType DEF Item
  <2>3. \A m \in ToSet(item.methods) : (Stores(m)' <=> Stores(m)) /\ (Reads(m)' <=> Reads(m))
    BY <1>3, <2>2 DEF Stores, Reads
  <2> QED
    BY <2>1, <2>3 DEF Sound, Unmixed
<1>9. Sound(single)'
  <2>1. single.kind = "method" /\ Len(single.methods) = 1
    BY <1>single DEF Single
  <2> QED
    BY <2>1 DEF Sound, Unmixed
<1>10. IsQueue(queue)'
  BY <1>3, <1>7, <1>8, <1>9 DEF IsQueue
<1>11. \A m : IsOwed(queue, m) => IsOwed(queue, m)'
  BY <1>7 DEF IsOwed
<1>12. IsOwed(queue', n)
  <2>1. n \in Owed(single)
    BY <1>single DEF Owed, Single, ToSet
  <2> QED
    BY <1>7, <2>1 DEF IsOwed
<1>13. AreOwed'
  BY <1>2, <1>3, <1>4, <1>11, <1>12 DEF AreOwed
<1> QED
  BY <1>2, <1>3, <1>4, <1>5, <1>10, <1>13
     DEF ValuesInv, VerifiedMeansAnswered, StoredByAnsweredCalls

\* A group takes the call recorded last from the queue: the queue ends with the group
\* then, and the group owes what it and the call owed.
LEMMA GroupedQueue ==
  ASSUME NEW M, IsFiniteSet(M), queue \in Seq(Item(M)), queue # <<>>,
         NEW h \in M, Owed(Last(queue)) = {h}, NEW kind \in GroupKind, NEW g \in Group,
         NEW new \in Grouped(h, kind, g)
  PROVE  \E group \in Item(M), base \in Seq(Item(M)) :
           /\ new = Append(base, group) /\ group.kind = kind
           /\ ToSet(base) \subseteq ToSet(queue)
           /\ \A item \in ToSet(queue) \ ToSet(base) : Owed(item) \subseteq Owed(group)
<1> DEFINE S == Item(M)
           rest == Front(queue)
<1>1. rest \in Seq(S) /\ Last(queue) \in S /\ ToSet(queue) = ToSet(rest) \cup {Last(queue)}
  BY ToSetFront
<1> HIDE DEF rest
<1>2. CASE rest # <<>> /\ IsGroup(Last(rest), kind, g)
  <2>1. PICK group \in WithMethod(Last(rest), h) : new = Append(Front(rest), group)
    BY <1>2 DEF Grouped, rest
  <2> DEFINE base == Front(rest)
  <2>2. base \in Seq(S) /\ Last(rest) \in S /\ ToSet(rest) = ToSet(base) \cup {Last(rest)}
    BY <1>1, <1>2, ToSetFront
  <2>3. Last(rest).kind = kind
    BY <1>2 DEF IsGroup
  <2>4. group \in S /\ group.kind = kind /\ Owed(Last(rest)) \cup {h} \subseteq Owed(group)
    BY <2>2, <2>3, WithMethodType, WithMethodOwed
  <2> HIDE DEF base
  <2>5. ASSUME NEW item \in ToSet(queue) \ ToSet(base)
        PROVE  Owed(item) \subseteq Owed(group)
    <3>1. item = Last(rest) \/ item = Last(queue)
      BY <1>1, <2>2
    <3> QED
      BY <2>4, <3>1
  <2>6. new = Append(base, group)
    BY <2>1 DEF base
  <2>7. ToSet(base) \subseteq ToSet(queue)
    BY <1>1, <2>2
  <2> QED
    BY <2>2, <2>4, <2>5, <2>6, <2>7
<1>3. CASE ~(rest # <<>> /\ IsGroup(Last(rest), kind, g))
  <2>1. PICK group \in WithMethod(EmptyGroup(kind, g), h) : new = Append(rest, group)
    BY <1>3 DEF Grouped, rest
  <2>2. EmptyGroup(kind, g) \in S /\ EmptyGroup(kind, g).kind = kind
    BY EmptyGroupType DEF EmptyGroup
  <2>3. group \in S /\ group.kind = kind /\ h \in Owed(group)
    BY <2>1, <2>2, WithMethodType, WithMethodOwed
  <2>4. ASSUME NEW item \in ToSet(queue) \ ToSet(rest)
        PROVE  Owed(item) \subseteq Owed(group)
    <3>1. item = Last(queue)
      BY <1>1
    <3> QED
      BY <2>3, <3>1
  <2> QED
    BY <1>1, <2>1, <2>3, <2>4
<1> QED
  BY <1>2, <1>3

\* A modifier chained to the call recorded last.
LEMMA ChainKeeps ==
  ASSUME CarefulClient, ValuesInv, NEW kind \in GroupKind, NEW g \in Group,
         ChainModifier(kind, g)
  PROVE  ValuesInv'
<1> DEFINE M == DOMAIN expected
           h == Last(queue).methods[1]
<1>1. /\ expected \in Seq(Careful) /\ IsQueue(queue) /\ stored \in Storable
      /\ answered \subseteq M /\ AreOwed /\ StoredByAnsweredCalls
  BY DEF ValuesInv
<1>2. /\ queue # <<>> /\ Last(queue).kind = "method" /\ queue' \in Grouped(h, kind, g)
      /\ Unmixed(Last(queue')) /\ outcome' = "recorded"
      /\ UNCHANGED <<expected, thrown, stored, answered, remembered>>
  BY DEF ChainModifier, CarefulClient, May
<1>3. queue \in Seq(Item(M)) /\ Last(queue) \in Item(M) /\ Last(queue) \in ToSet(queue)
  <2>1. queue \in Seq(Item(M)) /\ queue # <<>>
    BY <1>1, <1>2 DEF IsQueue
  <2> DEFINE T == Item(M)
             last == Last(queue)
  <2>2. /\ last \in T
        /\ ToSet(queue) = ToSet(Front(queue)) \cup {last}
    <3> HIDE DEF T
    <3> QED
      BY <2>1, ToSetFront DEF T
  <2>3. last \in ToSet(queue)
    <3> HIDE DEF T, last
    <3> QED
      BY <2>2
  <2> QED
    BY <2>1, <2>2, <2>3
<1>4. h \in M /\ Owed(Last(queue)) = {h}
  <2>1. Last(queue).methods \in Seq(M) /\ Len(Last(queue).methods) = 1
    BY <1>1, <1>2, <1>3 DEF IsQueue, Sound, Item
  <2>2. ToSet(Last(queue).methods) = {h} /\ h \in M
    <3>1. \A i : i \in 1..1 <=> i = 1
      OBVIOUS
    <3>2. \A m : m \in ToSet(Last(queue).methods) <=> m = h
      BY <2>1, <3>1, ToSetElements
    <3>3. h \in M
      BY <2>1, <3>1, ElementOfSeq
    <3> QED
      BY <3>2, <3>3
  <2> QED
    BY <1>2, <2>2 DEF Owed
<1>5. IsFiniteSet(M)
  <2>1. M = 1..Len(expected) /\ Len(expected) \in Nat
    BY <1>1, LenProperties
  <2> QED
    BY <2>1, FS_Interval
<1> HIDE DEF h, M
<1>6. PICK group \in Item(M), base \in Seq(Item(M)) :
        /\ queue' = Append(base, group) /\ group.kind = kind
        /\ ToSet(base) \subseteq ToSet(queue)
        /\ \A item \in ToSet(queue) \ ToSet(base) : Owed(item) \subseteq Owed(group)
  BY <1>2, <1>3, <1>4, <1>5, GroupedQueue
<1>7. /\ queue' \in Seq(Item(M)) /\ ToSet(queue') = ToSet(base) \cup {group}
      /\ Last(queue') = group
  BY <1>6, ToSetAppend
<1>8. \A item : Sound(item)' <=> Sound(item)
  BY <1>2 DEF Sound, Unmixed, Stores, Reads
<1>9. Sound(group)
  BY <1>2, <1>6, <1>7 DEF Sound, GroupKind
<1>10. IsQueue(queue)'
  <2>1. \A item \in ToSet(queue') : Sound(item)
    BY <1>1, <1>6, <1>7, <1>9 DEF IsQueue
  <2> QED
    BY <1>2, <1>7, <1>8, <2>1 DEF IsQueue, M
<1>11. \A m : IsOwed(queue, m) => IsOwed(queue, m)'
  BY <1>6, <1>7 DEF IsOwed
<1>12. AreOwed'
  BY <1>1, <1>2, <1>11 DEF AreOwed
<1> QED
  BY <1>1, <1>2, <1>10, <1>12
     DEF ValuesInv, VerifiedMeansAnswered, StoredByAnsweredCalls, M

\* What stands still keeps what is said of it.
LEMMA QuietSteps ==
  ASSUME ValuesInv, UNCHANGED <<expected, queue, thrown, stored, answered, remembered>>,
         VerifiedMeansAnswered'
  PROVE  ValuesInv'
BY DEF ValuesInv, AreOwed, IsQueue, Sound, Unmixed, Stores, Reads, IsOwed,
       StoredByAnsweredCalls

\* A call.
LEMMA CallKeeps ==
  ASSUME CarefulClient, ValuesInv, NEW args \in Passed, Call(args)
  PROVE  ValuesInv'
<1> DEFINE M == DOMAIN expected
           end == Served(queue, args, stored)
<1>1. /\ expected \in Seq(Careful) /\ IsQueue(queue) /\ stored \in Storable
      /\ answered \subseteq M /\ AreOwed /\ StoredByAnsweredCalls
  BY DEF ValuesInv
<1>2. /\ queue' = end.queue /\ stored' = end.stored /\ outcome' = end.outcome
      /\ thrown' = (thrown \/ end.outcome = "UnexpectedMethodCallError")
      /\ answered' = answered \cup ({end.method} \ {0})
      /\ remembered' = IF end.method # 0 /\ Stores(end.method) THEN Last(args) ELSE remembered
      /\ UNCHANGED expected
  BY DEF Call
<1>3. ServedCarefully(end, queue, args, stored)
  <2>1. queue \in Seq(Item(M))
    BY <1>1 DEF IsQueue
  <2>2. \A k \in DOMAIN queue : Unmixed(queue[k])
    <3>1. \A k \in DOMAIN queue : queue[k] \in ToSet(queue)
      BY DEF ToSet
    <3> QED
      BY <1>1, <3>1 DEF IsQueue, Sound
  <2> QED
    BY <1>1, <2>1, <2>2, CarefulServed DEF CarefulClient
<1>4. \A item : Sound(item)' <=> Sound(item)
  BY <1>2 DEF Sound, Unmixed, Stores, Reads
<1> HIDE DEF end, M
<1>5. CASE \E k \in 1..Len(queue) : \E i \in DOMAIN queue[k].methods :
             Reached(queue, k) /\ AnsweredBy(end, queue[k], i, Rest(queue, k), args, stored)
  <2>0. PICK k \in 1..Len(queue) : \E i \in DOMAIN queue[k].methods :
             Reached(queue, k) /\ AnsweredBy(end, queue[k], i, Rest(queue, k), args, stored)
    BY <1>5
  <2>1. PICK i \in DOMAIN queue[k].methods :
             Reached(queue, k) /\ AnsweredBy(end, queue[k], i, Rest(queue, k), args, stored)
    BY <2>0
  <2>m. PICK m : m = queue[k].methods[i]
    OBVIOUS
  <2>2. /\ end.outcome = "returned" /\ end.method = m
        /\ end.queue = Remaining(queue[k], i) \o Rest(queue, k)
        /\ end.stored = LeftBy(expected[m], args, stored) /\ end.stored \in Storable
    BY <2>1, <2>m, AnsweredByEnd
  <2>3. /\ IsQueue(end.queue) /\ m \in M
        /\ \A n : IsOwed(queue, n) => n = m \/ IsOwed(end.queue, n)
    <3>1. Leaves(end.queue, queue, k, i)
      BY <2>1, <2>2 DEF Leaves
    <3>2. OwesTheOthers(end.queue, queue, m)
      BY <1>1, <2>m, <3>1, AnsweredQueue
    <3> QED
      BY <3>2 DEF OwesTheOthers, M
  <2>4. m # 0
    <3>1. M = 1..Len(expected) /\ Len(expected) \in Nat
      BY <1>1, LenProperties DEF M
    <3> QED
      BY <2>3, <3>1
  <2>5. (thrown' <=> thrown) /\ answered' = answered \cup {m} /\ outcome' # "verified"
    BY <1>2, <2>2, <2>4
  <2>6. IsQueue(queue)'
    BY <1>2, <1>4, <2>3 DEF IsQueue
  <2>7. AreOwed'
    <3>1. \A n : IsOwed(queue, n)' <=> IsOwed(end.queue, n)
      BY <1>2 DEF IsOwed
    <3> QED
      BY <1>1, <1>2, <2>3, <2>5, <3>1 DEF AreOwed
  <2>8. StoredByAnsweredCalls'
    <3>1. stored' = IF Stores(m) THEN Last(args) ELSE stored
      BY <1>2, <2>2 DEF LeftBy, Stores
    <3>2. remembered' = IF Stores(m) THEN Last(args) ELSE remembered
      BY <1>2, <2>2, <2>4
    <3> QED
      BY <1>1, <2>5, <3>1, <3>2 DEF StoredByAnsweredCalls
  <2> QED
    BY <1>1, <1>2, <2>2, <2>3, <2>5, <2>6, <2>7, <2>8 DEF ValuesInv, VerifiedMeansAnswered, M
<1>6. CASE /\ end.outcome = "UnexpectedMethodCallError" /\ end.method = 0
           /\ end.stored = stored
           /\ end.queue = <<>> \/ \E k \in 1..Len(queue) : end.queue = Rest(queue, k)
  <2>1. thrown' /\ answered' = answered /\ outcome' # "verified" /\ stored' = stored
    BY <1>2, <1>6
  <2>2. IsQueue(end.queue)
    BY <1>1, <1>6, EmptyQueue, RestOfQueue
  <2>3. IsQueue(queue)'
    BY <1>2, <1>4, <2>2 DEF IsQueue
  <2> QED
    BY <1>1, <1>2, <2>1, <2>3
       DEF ValuesInv, AreOwed, VerifiedMeansAnswered, StoredByAnsweredCalls, M
<1> QED
  BY <1>3, <1>5, <1>6 DEF ServedCarefully

\* verify passes when nothing is expected: then nothing is owed.
LEMMA VerifyKeeps ==
  ASSUME ValuesInv, Verify
  PROVE  ValuesInv'
<1>1. /\ outcome' = IF thrown THEN "SwallowedExceptionError"
                    ELSE IF NothingExpected THEN "verified" ELSE "ExpectedMethodCallsError"
      /\ UNCHANGED <<expected, queue, thrown, stored, answered, remembered>>
  BY DEF Verify
<1>2. AreOwed /\ IsQueue(queue) /\ answered \subseteq DOMAIN expected
  BY DEF ValuesInv
<1>3. ASSUME NothingExpected
      PROVE  \A m : ~IsOwed(queue, m)
  <2>1. CASE queue = <<>>
    BY <2>1, EmptyQueue
  <2>2. CASE Len(queue) = 1 /\ queue[1].kind = "multiple" /\ queue[1].left = {}
    <3>1. \A item \in ToSet(queue) : item = queue[1]
      BY <1>2, <2>2, ToSetElements DEF IsQueue
    <3>2. Owed(queue[1]) = {}
      BY <2>2 DEF Owed
    <3> QED
      BY <3>1, <3>2 DEF IsOwed
  <2> QED
    BY <1>3, <2>1, <2>2 DEF NothingExpected
<1>4. outcome' = "verified" => ~thrown /\ NothingExpected
  BY <1>1
<1>5. VerifiedMeansAnswered'
  BY <1>1, <1>2, <1>3, <1>4 DEF VerifiedMeansAnswered, AreOwed
<1> QED
  BY <1>1, <1>5, QuietSteps

\* Every step of a careful client keeps the invariant.
LEMMA ValuesStep ==
  ASSUME CarefulClient, ValuesInv, [Next]_vars
  PROVE  ValuesInv'
<1>1. ASSUME NEW params \in Expected, Record(params) PROVE ValuesInv'
  BY <1>1, RecordKeeps
<1>2. ASSUME NEW kind \in GroupKind, NEW g \in Group, ChainModifier(kind, g)
      PROVE  ValuesInv'
  BY <1>2, ChainKeeps
<1>3. CASE Replay
  <2>1. VerifiedMeansAnswered' /\ UNCHANGED <<expected, queue, thrown, stored, answered, remembered>>
    BY <1>3 DEF Replay, VerifiedMeansAnswered
  <2> QED
    BY <2>1, QuietSteps
<1>4. ASSUME NEW args \in Passed, Call(args) PROVE ValuesInv'
  BY <1>4, CallKeeps
<1>5. CASE Verify
  BY <1>5, VerifyKeeps
<1>6. CASE UNCHANGED vars
  <2>1. VerifiedMeansAnswered' /\ UNCHANGED <<expected, queue, thrown, stored, answered, remembered>>
    BY <1>6 DEF vars, ValuesInv, VerifiedMeansAnswered
  <2> QED
    BY <2>1, QuietSteps
<1> QED
  BY <1>1, <1>2, <1>3, <1>4, <1>5, <1>6 DEF Next

LEMMA ValuesInvariant ==
  ASSUME CarefulClient
  PROVE  Spec => []ValuesInv
<1>1. Init => ValuesInv
  BY InitValues
<1>2. ValuesInv /\ [Next]_vars => ValuesInv'
  BY ValuesStep
<1> QED
  BY <1>1, <1>2, PTL DEF Spec

-----------------------------------------------------------------------------
\* _verify of a mock whose expected parameters have comparators with a memory: for any
\* number of methods, groups, parameters and calls, and any comparators that store as
\* Remember, And, Or and Not do when a Remember comes last in what is evaluated, verify
\* passes only when each expected method has answered a call, whatever the Value had when
\* it was compared, and though list.remove compares once more.
THEOREM VerifyMeansAllAnswered ==
  ASSUME CarefulClient
  PROVE  Spec => []VerifiedMeansAnswered
<1>1. ValuesInv => VerifiedMeansAnswered
  BY DEF ValuesInv
<1> QED
  BY <1>1, ValuesInvariant, PTL

\* Remember.equals stores while a call is still being matched, and nothing takes back what
\* it stored when the match fails further on.  Still, for any number of methods, groups,
\* parameters and calls of the same client, the Value has what the last call answered by
\* a Remember was given, until a call is refused.
THEOREM ValuesComeFromAnswers ==
  ASSUME CarefulClient
  PROVE  Spec => []StoredByAnsweredCalls
<1>1. ValuesInv => StoredByAnsweredCalls
  BY DEF ValuesInv
<1> QED
  BY <1>1, ValuesInvariant, PTL

=============================================================================
