-------------------------- MODULE MethodGroupsProofs --------------------------
(***************************************************************************)
(* What the operators on the elements of a queue return, for any set M of  *)
(* methods: they keep the methods they are given, and what an element owes *)
(* is owed until it is called.                                             *)
(***************************************************************************)
EXTENDS MethodGroups, SequenceTheorems, FiniteSetTheorems, TLAPS

-----------------------------------------------------------------------------
(***************************************************************************)
(* Sequences.                                                              *)
(***************************************************************************)
\* The elements of a sequence over S are elements of S.
LEMMA ToSetType ==
  ASSUME NEW S, NEW s \in Seq(S)
  PROVE  /\ ToSet(s) \subseteq S
         /\ \A i \in 1..Len(s) : s[i] \in ToSet(s)
BY LenProperties DEF ToSet

\* ToSet is the set of the elements.
LEMMA ToSetElements ==
  ASSUME NEW S, NEW s \in Seq(S)
  PROVE  \A x : x \in ToSet(s) <=> \E i \in 1..Len(s) : s[i] = x
BY LenProperties DEF ToSet

\* A part of a queue is a queue.
LEMMA SubQueueType ==
  ASSUME NEW S, NEW queue \in Seq(S), NEW i \in Nat \ {0}, NEW j \in Nat, j <= Len(queue)
  PROVE  SubSeq(queue, i, j) \in Seq(S)
<1>1. \A n \in i..j : queue[n] \in S
  BY LenProperties, ElementOfSeq
<1> QED
  BY <1>1, SubSeqProperties

\* What stands after the i-th element of a sequence.
LEMMA AfterProperties ==
  ASSUME NEW M, NEW s \in Seq(M), NEW i \in 1..Len(s)
  PROVE  /\ SubSeq(s, i + 1, Len(s)) \in Seq(M)
         /\ Len(SubSeq(s, i + 1, Len(s))) = Len(s) - i
         /\ \A n \in 1..(Len(s) - i) : SubSeq(s, i + 1, Len(s))[n] = s[i + n]
<1> DEFINE first == i + 1
           after == SubSeq(s, first, Len(s))
<1>1. Len(s) \in Nat /\ first \in Int /\ \A n \in first..Len(s) : s[n] \in M
  BY LenProperties, ElementOfSeq
<1> HIDE DEF first
<1>2. /\ after \in Seq(M)
      /\ Len(after) = IF first <= Len(s) THEN Len(s) - first + 1 ELSE 0
      /\ \A n \in 1..(Len(s) - first + 1) : after[n] = s[first + n - 1]
  BY <1>1, SubSeqProperties
<1> HIDE DEF after
<1>3. Len(after) = Len(s) - i /\ \A n \in 1..(Len(s) - i) : after[n] = s[i + n]
  <2>1. /\ Len(s) - first + 1 = Len(s) - i /\ Len(s) - i \in Nat
        /\ ~(first <= Len(s)) => Len(s) - i = 0
    BY <1>1 DEF first
  <2>2. \A n \in Nat : first + n - 1 = i + n
    BY DEF first
  <2>3. Len(after) = Len(s) - i
    BY <1>2, <2>1
  <2>4. ASSUME NEW n \in 1..(Len(s) - i)
        PROVE  after[n] = s[i + n]
    <3>1. n \in 1..(Len(s) - first + 1)
      BY <2>1
    <3>2. after[n] = s[first + n - 1]
      BY <1>2, <3>1
    <3>3. first + n - 1 = i + n
      BY <2>1, <2>2
    <3> QED
      BY <3>2, <3>3
  <2> QED
    BY <2>3, <2>4
<1> QED
  BY <1>2, <1>3 DEF after, first

\* A queue without its last item is a queue over the same methods.
LEMMA FrontType ==
  ASSUME NEW S, NEW queue \in Seq(S), queue # <<>>
  PROVE  /\ Front(queue) \in Seq(S)
         /\ Last(queue) \in S
<1>1. Len(queue) \in Nat \ {0}
  BY EmptySeq
<1>2. Front(queue) \in Seq(S)
  BY <1>1, SubQueueType DEF Front
<1>3. Last(queue) \in S
  BY <1>1, ElementOfSeq DEF Last
<1> QED
  BY <1>2, <1>3

\* All but the last element of a sequence.
LEMMA FrontProperties ==
  ASSUME NEW S, NEW s \in Seq(S), s # <<>>
  PROVE  /\ Front(s) \in Seq(S) /\ Len(Front(s)) = Len(s) - 1
         /\ \A n \in 1..(Len(s) - 1) : Front(s)[n] = s[n]
<1>1. PICK last \in Nat : Len(s) = last + 1
  <2>1. Len(s) \in Nat \ {0}
    BY EmptySeq
  <2>2. Len(s) - 1 \in Nat /\ Len(s) = (Len(s) - 1) + 1
    BY <2>1
  <2> QED
    BY <2>2
<1>2. \A n \in 1..last : s[n] \in S
  BY <1>1, ElementOfSeq
<1>3. /\ SubSeq(s, 1, last) \in Seq(S)
      /\ Len(SubSeq(s, 1, last)) = IF 1 <= last THEN last - 1 + 1 ELSE 0
      /\ \A n \in 1..(last - 1 + 1) : SubSeq(s, 1, last)[n] = s[1 + n - 1]
  BY <1>2, SubSeqProperties
<1>4. Len(s) - 1 = last /\ Front(s) = SubSeq(s, 1, last)
  BY <1>1 DEF Front
<1>5. Len(SubSeq(s, 1, last)) = last
  BY <1>3
<1>6. \A n \in 1..last : SubSeq(s, 1, last)[n] = s[n]
  BY <1>3
<1> QED
  BY <1>3, <1>4, <1>5, <1>6

\* What RemoveAt leaves.
LEMMA RemoveAtProperties ==
  ASSUME NEW M, NEW s \in Seq(M), NEW i \in 1..Len(s)
  PROVE  /\ RemoveAt(s, i) \in Seq(M)
         /\ Len(RemoveAt(s, i)) = Len(s) - 1
         /\ \A n \in 1..(Len(s) - 1) :
              RemoveAt(s, i)[n] = IF n < i THEN s[n] ELSE s[n + 1]
<1> DEFINE before == SubSeq(s, 1, i - 1)
           after  == SubSeq(s, i + 1, Len(s))
<1>1. Len(s) \in Nat /\ i \in Nat /\ 1 <= i /\ i <= Len(s)
  BY LenProperties
<1>2. /\ before \in Seq(M) /\ Len(before) = i - 1
      /\ \A n \in 1..(i - 1) : before[n] = s[n]
  <2>1. \A n \in 1..(i - 1) : s[n] \in M
    BY <1>1, ElementOfSeq
  <2> QED
    BY <1>1, <2>1, SubSeqProperties
<1>3. /\ after \in Seq(M) /\ Len(after) = Len(s) - i
      /\ \A n \in 1..(Len(s) - i) : after[n] = s[i + n]
  BY AfterProperties
<1> HIDE DEF before, after
<1>4. /\ before \o after \in Seq(M)
      /\ Len(before \o after) = Len(before) + Len(after)
      /\ \A n \in 1..(Len(before) + Len(after)) :
           (before \o after)[n] = IF n <= Len(before) THEN before[n]
                                  ELSE after[n - Len(before)]
  BY <1>2, <1>3, ConcatProperties
<1>5. Len(before) + Len(after) = Len(s) - 1
  BY <1>1, <1>2, <1>3
<1>6. ASSUME NEW n \in 1..(Len(s) - 1)
      PROVE  (before \o after)[n] = IF n < i THEN s[n] ELSE s[n + 1]
  <2>1. CASE n < i
    BY <1>1, <1>2, <1>4, <1>5, <2>1
  <2>2. CASE ~(n < i)
    <3>1. ~(n <= i - 1) /\ n - (i - 1) \in 1..(Len(s) - i) /\ i + (n - (i - 1)) = n + 1
      BY <1>1, <2>2
    <3>2. (before \o after)[n] = after[n - (i - 1)]
      BY <1>2, <1>4, <1>5, <3>1
    <3> QED
      BY <1>3, <2>2, <3>1, <3>2
  <2> QED
    BY <2>1, <2>2
<1>7. RemoveAt(s, i) = before \o after
  BY DEF RemoveAt, before, after
<1> QED
  BY <1>4, <1>5, <1>6, <1>7

-----------------------------------------------------------------------------
(***************************************************************************)
(* Elements of a queue.                                                    *)
(***************************************************************************)
\* A bigger set of methods has more items.
LEMMA ItemMonotonic ==
  ASSUME NEW M, NEW N, M \subseteq N
  PROVE  Item(M) \subseteq Item(N)
<1> SUFFICES ASSUME NEW x \in Item(M) PROVE x \in Item(N)
  OBVIOUS
<1>1. x.methods \in Seq(N)
  BY SeqMonotonic DEF Item
<1> QED
  BY <1>1 DEF Item

\* A single expected method is an item over any set that has it.
LEMMA SingleType ==
  ASSUME NEW M, NEW m \in M
  PROVE  Single(m) \in Item(M)
BY DEF Single, Item

\* A new group is an item over any set of methods.
LEMMA EmptyGroupType ==
  ASSUME NEW M, NEW kind \in GroupKind, NEW g \in Group
  PROVE  EmptyGroup(kind, g) \in Item(M)
BY EmptySeq DEF EmptyGroup, Item

\* The order in which a set is scanned has all of its elements.
LEMMA ScanOrder ==
  ASSUME NEW S, IsFiniteSet(S), NEW order \in SetToSeqs(S)
  PROVE  ToSet(order) = S
<1> DEFINE n == Cardinality(S)
<1>1. n \in Nat
  BY FS_CardinalityType
<1>2. order \in [1..n -> S] /\ \A i, j \in 1..n : i # j => order[i] # order[j]
  BY DEF SetToSeqs
<1>3. order \in Injection(1..n, S)
  BY <1>2 DEF Injection, IsInjective
<1>4. Cardinality(1..n) = n
  BY <1>1, FS_Interval
<1>5. order \in Surjection(1..n, S)
  BY <1>3, <1>4, FS_Injection
<1>6. \A x \in S : \E i \in 1..n : order[i] = x
  BY <1>5 DEF Surjection
<1> QED
  BY <1>2, <1>6 DEF ToSet

\* add_method makes an item over the methods of the group and the new one.
LEMMA WithMethodType ==
  ASSUME NEW M, IsFiniteSet(M), NEW item \in Item(M), NEW m \in M,
         NEW x \in WithMethod(item, m)
  PROVE  /\ x \in Item(M)
         /\ x.kind = item.kind
<1>1. CASE item.kind = "unordered"
  <2>1. x = [item EXCEPT !.methods = Append(@, m)]
    BY <1>1 DEF WithMethod
  <2>2. Append(item.methods, m) \in Seq(M)
    BY AppendProperties DEF Item
  <2> QED
    BY <2>1, <2>2 DEF Item
<1>2. CASE item.kind # "unordered"
  <2> DEFINE S == ToSet(item.methods) \cup {m}
  <2>1. PICK order \in SetToSeqs(S) :
               x = [item EXCEPT !.methods = order, !.left = @ \cup {m}]
    BY <1>2 DEF WithMethod
  <2>2. S \subseteq M
    BY ToSetType DEF Item
  <2>3. Cardinality(S) \in Nat
    BY <2>2, FS_Subset, FS_CardinalityType
  <2>4. order \in [1..Cardinality(S) -> M]
    BY <2>2 DEF SetToSeqs
  <2>5. order \in Seq(M)
    <3>1. \E n \in Nat : order \in [1..n -> M]
      BY <2>3, <2>4
    <3>2. order \in UNION {[1..n -> M] : n \in Nat}
      BY <3>1
    <3> QED
      BY <3>2, SeqDef
  <2> QED
    BY <2>1, <2>5 DEF Item
<1> QED
  BY <1>1, <1>2

\* add_method: the group owes what it owed, and the new method.
LEMMA WithMethodOwed ==
  ASSUME NEW M, NEW item \in Item(M), item.kind \in GroupKind, NEW m \in M,
         NEW x \in WithMethod(item, m)
  PROVE  Owed(item) \cup {m} \subseteq Owed(x)
<1>1. CASE item.kind = "unordered"
  <2>1. x = [item EXCEPT !.methods = Append(@, m)]
    BY <1>1 DEF WithMethod
  <2>2. x.kind = "unordered" /\ x.methods = Append(item.methods, m)
    BY <1>1, <2>1 DEF Item
  <2>3. /\ item.methods \in Seq(M) /\ Append(item.methods, m) \in Seq(M)
        /\ Len(Append(item.methods, m)) = Len(item.methods) + 1
        /\ \A i \in 1..Len(item.methods) : Append(item.methods, m)[i] = item.methods[i]
        /\ Append(item.methods, m)[Len(item.methods) + 1] = m
    BY AppendProperties DEF Item
  <2>4. /\ DOMAIN item.methods = 1..Len(item.methods) /\ Len(item.methods) \in Nat
        /\ DOMAIN Append(item.methods, m) = 1..(Len(item.methods) + 1)
    BY <2>3, LenProperties
  <2>5. ToSet(item.methods) \cup {m} \subseteq ToSet(Append(item.methods, m))
    BY <2>3, <2>4 DEF ToSet
  <2> QED
    BY <1>1, <2>2, <2>5 DEF Owed
<1>2. CASE item.kind = "multiple"
  <2>1. PICK order : x = [item EXCEPT !.methods = order, !.left = @ \cup {m}]
    BY <1>2 DEF WithMethod
  <2>2. x.kind = "multiple" /\ x.left = item.left \cup {m}
    BY <1>2, <2>1 DEF Item
  <2> QED
    BY <1>2, <2>2 DEF Owed
<1> QED
  BY <1>1, <1>2 DEF GroupKind

\* What an item owes is among its methods.
LEMMA OwedType ==
  ASSUME NEW M, NEW item \in Item(M)
  PROVE  Owed(item) \subseteq M
BY ToSetType DEF Owed, Item

\* What stays of an item when one of its methods is called is a queue over the
\* same methods.
LEMMA RemainingType ==
  ASSUME NEW M, NEW item \in Item(M), NEW i \in DOMAIN item.methods
  PROVE  Remaining(item, i) \in Seq(Item(M))
<1>1. item.methods \in Seq(M) /\ Len(item.methods) \in Nat /\ i \in 1..Len(item.methods)
  BY LenProperties DEF Item
<1>2. [item EXCEPT !.left = @ \ {item.methods[i]}] \in Item(M)
  BY DEF Item
<1>3. RemoveAt(item.methods, i) \in Seq(M)
  <2>1. SubSeq(item.methods, 1, i - 1) \in Seq(M)
    BY <1>1, SubQueueType
  <2>2. SubSeq(item.methods, i + 1, Len(item.methods)) \in Seq(M)
    BY <1>1, SubQueueType
  <2> QED
    BY <2>1, <2>2, ConcatProperties DEF RemoveAt
<1>4. [item EXCEPT !.methods = RemoveAt(@, i)] \in Item(M)
  BY <1>3 DEF Item
<1> QED
  BY <1>2, <1>4 DEF Remaining

\* What an item owes besides the method that was called is owed by what remains.
LEMMA RemainingOwed ==
  ASSUME NEW M, NEW item \in Item(M), NEW i \in DOMAIN item.methods,
         NEW m \in Owed(item), m # item.methods[i]
  PROVE  Len(Remaining(item, i)) = 1 /\ m \in Owed(Remaining(item, i)[1])
<1>1. /\ item.methods \in Seq(M) /\ Len(item.methods) \in Nat
      /\ DOMAIN item.methods = 1..Len(item.methods) /\ i \in 1..Len(item.methods)
  BY LenProperties DEF Item
<1>2. CASE item.kind = "multiple"
  <2> DEFINE rest == [item EXCEPT !.left = @ \ {item.methods[i]}]
  <2>1. rest.kind = "multiple" /\ rest.left = item.left \ {item.methods[i]}
    BY <1>2 DEF Item
  <2>2. m \in Owed(rest)
    BY <1>2, <2>1 DEF Owed
  <2>3. Remaining(item, i) = <<rest>>
    BY <1>2 DEF Remaining
  <2> HIDE DEF rest
  <2> QED
    BY <2>2, <2>3
<1>3. CASE item.kind # "multiple"
  <2>1. PICK p \in 1..Len(item.methods) : m = item.methods[p]
    BY <1>1, <1>3 DEF Owed, ToSet
  <2>2. p # i /\ Len(item.methods) # 1
    BY <1>1, <2>1
  <2>3. /\ RemoveAt(item.methods, i) \in Seq(M)
        /\ Len(RemoveAt(item.methods, i)) = Len(item.methods) - 1
        /\ \A n \in 1..(Len(item.methods) - 1) :
             RemoveAt(item.methods, i)[n] = IF n < i THEN item.methods[n] ELSE item.methods[n + 1]
    BY <1>1, RemoveAtProperties
  <2>4. DOMAIN RemoveAt(item.methods, i) = 1..(Len(item.methods) - 1)
    BY <2>3, LenProperties
  <2>5. \E q \in 1..(Len(item.methods) - 1) : RemoveAt(item.methods, i)[q] = m
    <3>1. CASE p < i
      <4>1. p \in 1..(Len(item.methods) - 1)
        BY <1>1, <2>1, <3>1
      <4> QED
        BY <2>1, <2>3, <3>1, <4>1
    <3>2. CASE p > i
      <4> DEFINE q == p - 1
      <4>1. q \in 1..(Len(item.methods) - 1) /\ ~(q < i) /\ q + 1 = p
        BY <1>1, <2>1, <3>2
      <4> HIDE DEF q
      <4> QED
        BY <2>1, <2>3, <4>1
    <3> QED
      BY <1>1, <2>1, <2>2, <3>1, <3>2
  <2>6. m \in ToSet(RemoveAt(item.methods, i))
    BY <2>4, <2>5 DEF ToSet
  <2> DEFINE rest == [item EXCEPT !.methods = RemoveAt(@, i)]
  <2>7. rest.kind # "multiple" /\ rest.methods = RemoveAt(item.methods, i)
    BY <1>3 DEF Item
  <2>8. m \in Owed(rest)
    BY <2>6, <2>7 DEF Owed
  <2>9. Remaining(item, i) = <<rest>>
    BY <1>3, <2>2 DEF Remaining
  <2> HIDE DEF rest
  <2> QED
    BY <2>8, <2>9
<1> QED
  BY <1>2, <1>3

===============================================================================
