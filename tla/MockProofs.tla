----------------------------- MODULE MockProofs -----------------------------
(***************************************************************************)
(* Proofs about MockAnything.  The invariant says of each queue that it is *)
(* a sequence of items over the methods that were created for it; it holds *)
(* because every operator on queues keeps the methods it is given.         *)
(***************************************************************************)
EXTENDS MockHistory, MethodGroupsProofs

-----------------------------------------------------------------------------
\* What comes after the k-th item of a queue is a queue over the same methods.
LEMMA BeyondType ==
  ASSUME NEW S, NEW queue \in Seq(S), NEW k \in 1..(Len(queue) + 1)
  PROVE  Beyond(queue, k) \in Seq(S)
BY LenProperties, SubQueueType DEF Beyond

\* any_order and multiple_times put h in a group of the queue they work on.
LEMMA GroupedType ==
  ASSUME NEW M, IsFiniteSet(M), NEW queue \in Seq(Item(M)), queue # <<>>,
         NEW h \in M, NEW kind \in GroupKind, NEW g \in Group,
         NEW new \in Grouped(queue, h, kind, g)
  PROVE  new \in Seq(Item(M))
<1> DEFINE rest == Front(queue)
<1>1. rest \in Seq(Item(M))
  BY FrontType
<1>2. CASE JoinsGroup(rest, kind, g)
  <2>1. PICK group \in WithMethod(Last(rest), h) : new = Append(Front(rest), group)
    BY <1>2 DEF Grouped
  <2>2. Front(rest) \in Seq(Item(M)) /\ Last(rest) \in Item(M)
    BY <1>1, <1>2, FrontType DEF JoinsGroup
  <2> QED
    BY <2>1, <2>2, WithMethodType, AppendProperties
<1>3. CASE ~JoinsGroup(rest, kind, g)
  <2>1. PICK group \in WithMethod(EmptyGroup(kind, g), h) : new = Append(rest, group)
    BY <1>3 DEF Grouped
  <2> QED
    BY <1>1, <2>1, EmptyGroupType, WithMethodType, AppendProperties
<1> QED
  BY <1>2, <1>3

-----------------------------------------------------------------------------
\* The MockMethods that were created for queue g.
Own(g) == {m \in DOMAIN methods : methods[m].queue = g}

\* Every queue is a sequence of items over its own methods.
QueuesOwnTheirItems ==
  \A g \in DOMAIN queues : queues[g] \in Seq(Item(Own(g)))

QueueInv ==
  /\ methods \in Seq(MockMethod) /\ Len(methods) <= MaxMethods
  /\ queues \in Seq(Seq(Item(MethodIds))) /\ Len(queues) \in 1..MaxQueues
  /\ replaying \in BOOLEAN
  /\ thrown \in BOOLEAN
  /\ outcome \in Outcome
  /\ QueuesOwnTheirItems

\* A queue has finitely many methods of its own, so a group has a scan order.
LEMMA OwnFinite ==
  ASSUME QueueInv, NEW g
  PROVE  /\ IsFiniteSet(Own(g))
         /\ Own(g) \subseteq MethodIds
         /\ Own(g) \subseteq 1..Len(methods)
<1>1. Len(methods) \in Nat /\ DOMAIN methods = 1..Len(methods)
  BY LenProperties DEF QueueInv
<1>2. Own(g) \subseteq 1..Len(methods)
  BY <1>1 DEF Own
<1>3. IsFiniteSet(1..Len(methods))
  BY <1>1, FS_Interval
<1>4. 1..Len(methods) \subseteq MethodIds
  BY <1>1, BoundsAssumption DEF QueueInv, MethodIds
<1> QED
  BY <1>2, <1>3, <1>4, FS_Subset

\* A step that changes one queue, to items over its own methods, and creates no
\* method for another queue keeps the part of the invariant about queues.
LEMMA OneQueueChanges ==
  ASSUME QueueInv,
         NEW g \in DOMAIN queues, NEW queue, queue \in Seq(Item(Own(g)')),
         queues' = [queues EXCEPT ![g] = queue],
         methods' \in Seq(MockMethod), Len(methods') <= MaxMethods,
         \A q \in DOMAIN queues : Own(q) \subseteq Own(q)'
  PROVE  /\ queues' \in Seq(Seq(Item(MethodIds))) /\ Len(queues') \in 1..MaxQueues
         /\ QueuesOwnTheirItems'
<1>1. g \in 1..Len(queues) /\ DOMAIN queues = 1..Len(queues) /\ Len(queues) \in Nat
  BY LenProperties DEF QueueInv
<1>2. DOMAIN methods' = 1..Len(methods') /\ Len(methods') \in Nat
  BY LenProperties
<1>3. Own(g)' \subseteq MethodIds
  BY <1>2, BoundsAssumption DEF Own, MethodIds
<1>4. queue \in Seq(Item(MethodIds))
  BY <1>3, ItemMonotonic, SeqMonotonic
<1>5. /\ queues' \in Seq(Seq(Item(MethodIds)))
      /\ Len(queues') = Len(queues)
      /\ \A j \in 1..Len(queues) : queues'[j] = IF j = g THEN queue ELSE queues[j]
  BY <1>1, <1>4, ExceptSeq DEF QueueInv
<1>6. QueuesOwnTheirItems'
  <2> SUFFICES ASSUME NEW q \in DOMAIN queues' PROVE queues'[q] \in Seq(Item(Own(q)'))
    BY DEF QueuesOwnTheirItems
  <2>1. q \in 1..Len(queues) /\ q \in DOMAIN queues
    BY <1>1, <1>5, LenProperties
  <2>2. CASE q = g
    BY <1>5, <2>1, <2>2
  <2>3. CASE q # g
    <3>1. queues'[q] = queues[q] /\ queues[q] \in Seq(Item(Own(q)))
      BY <1>5, <2>1, <2>3 DEF QueueInv, QueuesOwnTheirItems
    <3> QED
      BY <2>1, <3>1, ItemMonotonic, SeqMonotonic
  <2> QED
    BY <2>2, <2>3
<1> QED
  BY <1>1, <1>5, <1>6 DEF QueueInv

\* A call in replay mode leaves a part of the queue behind.
LEMMA ServeType ==
  ASSUME QueueInv, NEW g \in DOMAIN queues, NEW hits, NEW m, Serve(g, hits, m)
  PROVE  /\ \E queue \in Seq(Item(Own(g))) : queues' = [queues EXCEPT ![g] = queue]
         /\ outcome' \in Outcome /\ thrown' \in BOOLEAN
<1>1. PICK k \in DOMAIN queues[g] :
        \E i \in DOMAIN queues[g][k].methods :
          queues' = [queues EXCEPT
                       ![g] = Remaining(queues[g][k], i) \o Beyond(queues[g], k)]
  BY DEF Serve
<1>2. PICK i \in DOMAIN queues[g][k].methods :
        queues' = [queues EXCEPT
                     ![g] = Remaining(queues[g][k], i) \o Beyond(queues[g], k)]
  BY <1>1
<1>3. queues[g] \in Seq(Item(Own(g)))
  BY DEF QueueInv, QueuesOwnTheirItems
<1>4. k \in 1..Len(queues[g]) /\ Len(queues[g]) \in Nat
  BY <1>3, LenProperties
<1>5. queues[g][k] \in Item(Own(g))
  BY <1>3, <1>4, ElementOfSeq
<1>6. Remaining(queues[g][k], i) \in Seq(Item(Own(g)))
  BY <1>5, RemainingType
<1>7. Beyond(queues[g], k) \in Seq(Item(Own(g)))
  BY <1>3, <1>4, BeyondType
<1>8. Remaining(queues[g][k], i) \o Beyond(queues[g], k) \in Seq(Item(Own(g)))
  BY <1>6, <1>7, ConcatProperties
<1>9. outcome' \in Outcome /\ thrown' \in BOOLEAN
  BY DEF Serve, Outcome, QueueInv
<1> QED
  BY <1>2, <1>8, <1>9

\* A refused call leaves a part of the queue behind, too.
LEMMA RefuseType ==
  ASSUME QueueInv, NEW g \in DOMAIN queues, NEW hits, Refuse(g, hits)
  PROVE  /\ \E queue \in Seq(Item(Own(g))) : queues' = [queues EXCEPT ![g] = queue]
         /\ outcome' \in Outcome /\ thrown' \in BOOLEAN
<1>1. PICK k \in 1..(Len(queues[g]) + 1) :
        queues' = [queues EXCEPT ![g] = Beyond(queues[g], k)]
  BY DEF Refuse
<1>2. Beyond(queues[g], k) \in Seq(Item(Own(g)))
  BY BeyondType DEF QueueInv, QueuesOwnTheirItems
<1>3. outcome' \in Outcome /\ thrown' \in BOOLEAN
  BY DEF Refuse, Outcome
<1> QED
  BY <1>1, <1>2, <1>3

\* A method recorded on queue g is appended to it.
LEMMA EnqueueType ==
  ASSUME QueueInv, NEW g \in DOMAIN queues, NEW m, Enqueue(g, m),
         NEW M, Own(g) \subseteq M, m \in M
  PROVE  /\ \E queue \in Seq(Item(M)) : queues' = [queues EXCEPT ![g] = queue]
         /\ outcome' \in Outcome
<1>1. queues[g] \in Seq(Item(M))
  BY ItemMonotonic, SeqMonotonic DEF QueueInv, QueuesOwnTheirItems
<1>2. Append(queues[g], Single(m)) \in Seq(Item(M))
  BY <1>1, SingleType, AppendProperties
<1>3. outcome' \in Outcome
  BY DEF Enqueue, Outcome
<1> QED
  BY <1>2, <1>3 DEF Enqueue

\* Creating a method, and storing the arguments of a call, takes no method away
\* from its queue.
LEMMA AppendedMethod ==
  ASSUME QueueInv, NEW name \in Name, NEW args \in Args \cup {NoArgs},
         Len(methods) < MaxMethods, methods' = Append(methods, NewMethod(name, args))
  PROVE  /\ methods' \in Seq(MockMethod) /\ Len(methods') <= MaxMethods
         /\ \A q \in DOMAIN queues : Own(q) \subseteq Own(q)'
         /\ \A q : q = Current => Len(methods) + 1 \in Own(q)'
         /\ \A m \in DOMAIN methods' :
              \/ m \in DOMAIN methods /\ methods'[m].queue = methods[m].queue
              \/ methods'[m].queue = Current
<1>1. NewMethod(name, args) \in MockMethod
  BY DEF QueueInv, NewMethod, MockMethod, Current
<1>2. /\ methods' \in Seq(MockMethod)
      /\ Len(methods') = Len(methods) + 1
      /\ \A i \in 1..Len(methods) : methods'[i] = methods[i]
      /\ methods'[Len(methods) + 1] = NewMethod(name, args)
  BY <1>1, AppendProperties DEF QueueInv
<1>3. /\ Len(methods) \in Nat /\ DOMAIN methods = 1..Len(methods)
      /\ DOMAIN methods' = 1..(Len(methods) + 1)
  BY <1>2, LenProperties DEF QueueInv
<1>4. \A q \in DOMAIN queues : Own(q) \subseteq Own(q)'
  BY <1>2, <1>3 DEF Own
<1>5. NewMethod(name, args).queue = Current
  BY DEF NewMethod
<1>6. \A q : q = Current => Len(methods) + 1 \in Own(q)'
  BY <1>2, <1>3, <1>5 DEF Own
<1>7. \A m \in DOMAIN methods' :
        \/ m \in DOMAIN methods /\ methods'[m].queue = methods[m].queue
        \/ methods'[m].queue = Current
  BY <1>2, <1>3, <1>5
<1> QED
  BY <1>2, <1>3, <1>4, <1>6, <1>7, BoundsAssumption

\* Storing the arguments of a call in a kept MockMethod moves no method to another
\* queue.
LEMMA StoredParams ==
  ASSUME QueueInv, NEW h \in DOMAIN methods, NEW args \in Args,
         methods' = WithParams(h, args)
  PROVE  /\ methods' \in Seq(MockMethod) /\ Len(methods') <= MaxMethods
         /\ \A q : Own(q) = Own(q)'
         /\ \A m \in DOMAIN methods' :
              m \in DOMAIN methods /\ methods'[m].queue = methods[m].queue
<1>1. h \in 1..Len(methods) /\ DOMAIN methods = 1..Len(methods) /\ methods[h] \in MockMethod
  BY LenProperties, ElementOfSeq DEF QueueInv
<1>2. [methods[h] EXCEPT !.args = args] \in MockMethod
  BY <1>1 DEF MockMethod
<1>3. methods' = [methods EXCEPT ![h] = [methods[h] EXCEPT !.args = args]]
  BY DEF WithParams
<1>4. /\ methods' \in Seq(MockMethod) /\ Len(methods') = Len(methods)
      /\ DOMAIN methods' = DOMAIN methods
      /\ \A j \in DOMAIN methods :
           methods'[j] = IF j = h THEN [methods[h] EXCEPT !.args = args] ELSE methods[j]
  BY <1>1, <1>2, <1>3, ExceptSeq, LenProperties DEF QueueInv
<1>5. [methods[h] EXCEPT !.args = args].queue = methods[h].queue
  BY <1>1 DEF MockMethod
<1>6. \A q : Own(q) = Own(q)'
  BY <1>4, <1>5 DEF Own
<1>7. \A m \in DOMAIN methods' :
        m \in DOMAIN methods /\ methods'[m].queue = methods[m].queue
  BY <1>4, <1>5
<1> QED
  BY <1>4, <1>6, <1>7 DEF QueueInv

-----------------------------------------------------------------------------
\* No method names a queue that does not exist yet.
QueuesExist == \A h \in DOMAIN methods : methods[h].queue \in DOMAIN queues

\* The invariant holds of a new mock.
LEMMA InitInv == Init => QueueInv /\ QueuesExist
<1> SUFFICES ASSUME Init PROVE QueueInv /\ QueuesExist
  OBVIOUS
<1> USE DEF Init
<1>1. methods \in Seq(MockMethod) /\ Len(methods) = 0 /\ DOMAIN methods = {}
  BY EmptySeq
<1>2. \A S : <<>> \in Seq(S)
  BY EmptySeq
<1>3. queues \in Seq(Seq(Item(MethodIds))) /\ Len(queues) = 1 /\ DOMAIN queues = {1}
  BY <1>2
<1>4. queues[1] = <<>>
  OBVIOUS
<1>5. QueuesOwnTheirItems
  BY <1>2, <1>3, <1>4 DEF QueuesOwnTheirItems
<1>6. replaying \in BOOLEAN /\ thrown \in BOOLEAN /\ outcome \in Outcome
  BY DEF Outcome
<1>7. Len(methods) <= MaxMethods /\ Len(queues) \in 1..MaxQueues
  BY <1>1, <1>3, BoundsAssumption
<1>8. QueuesExist
  BY <1>1 DEF QueuesExist
<1> HIDE DEF Init
<1> QED
  BY <1>1, <1>3, <1>5, <1>6, <1>7, <1>8 DEF QueueInv

\* Every step keeps the invariant.
LEMMA StepInv ==
  ASSUME QueueInv, QueuesExist, [Next]_vars
  PROVE  QueueInv' /\ QueuesExist'
<1> USE DEF QueueInv
<1>0. /\ Current \in DOMAIN queues
      /\ DOMAIN queues = 1..Len(queues) /\ Len(queues) \in Nat
      /\ DOMAIN methods = 1..Len(methods) /\ Len(methods) \in Nat
  BY LenProperties DEF Current
\* Steps that leave methods and queues alone.
<1>1. ASSUME UNCHANGED <<methods, queues>>, replaying' \in BOOLEAN, thrown' \in BOOLEAN,
             outcome' \in Outcome
      PROVE  QueueInv' /\ QueuesExist'
  BY <1>1 DEF QueuesOwnTheirItems, Own, QueuesExist
\* Steps that change one queue.
<1>2. ASSUME NEW g \in DOMAIN queues,
             \E queue \in Seq(Item(Own(g)')) : queues' = [queues EXCEPT ![g] = queue],
             methods' \in Seq(MockMethod), Len(methods') <= MaxMethods,
             \A q \in DOMAIN queues : Own(q) \subseteq Own(q)',
             \A h \in DOMAIN methods' : methods'[h].queue \in DOMAIN queues,
             replaying' \in BOOLEAN, thrown' \in BOOLEAN, outcome' \in Outcome
      PROVE  QueueInv' /\ QueuesExist'
  <2>1. PICK queue \in Seq(Item(Own(g)')) : queues' = [queues EXCEPT ![g] = queue]
    BY <1>2
  <2>2. queues' \in Seq(Seq(Item(MethodIds))) /\ Len(queues') \in 1..MaxQueues
        /\ QueuesOwnTheirItems'
    BY <1>2, <2>1, OneQueueChanges
  <2>3. DOMAIN queues' = DOMAIN queues
    BY <2>1
  <2> QED
    BY <1>2, <2>2, <2>3 DEF QueuesExist
<1>3. ASSUME NEW name \in Name, NEW args \in Args, RecordCall(name, args)
      PROVE  QueueInv' /\ QueuesExist'
  <2>1. PICK g \in DOMAIN queues : g = Current
    BY <1>0
  <2>2. /\ Len(methods) < MaxMethods
        /\ methods' = Append(methods, NewMethod(name, args))
        /\ Enqueue(g, Len(methods) + 1)
        /\ UNCHANGED <<replaying, thrown>>
    BY <1>3, <2>1 DEF RecordCall
  <2>3. /\ methods' \in Seq(MockMethod) /\ Len(methods') <= MaxMethods
        /\ \A q \in DOMAIN queues : Own(q) \subseteq Own(q)'
        /\ Len(methods) + 1 \in Own(g)'
        /\ \A h \in DOMAIN methods' : methods'[h].queue \in DOMAIN queues
    BY <1>0, <2>1, <2>2, AppendedMethod DEF QueuesExist
  <2>4. /\ \E queue \in Seq(Item(Own(g)')) : queues' = [queues EXCEPT ![g] = queue]
        /\ outcome' \in Outcome
    BY <2>2, <2>3, EnqueueType
  <2> QED
    BY <1>2, <2>2, <2>3, <2>4
<1>4. ASSUME NEW name \in Name, NEW args \in Args, RejectCall(name, args)
      PROVE  QueueInv' /\ QueuesExist'
  BY <1>1, <1>4 DEF RejectCall, Outcome
<1>5. ASSUME NEW name \in Name, NEW args \in Args, NEW m, AnswerCall(name, args, m)
      PROVE  QueueInv' /\ QueuesExist'
  <2>1. PICK g \in DOMAIN queues : g = Current
    BY <1>0
  <2>2. Serve(g, Hits(name, args), m) /\ UNCHANGED <<methods, replaying>>
    BY <1>5, <2>1 DEF AnswerCall
  <2>3. /\ \E queue \in Seq(Item(Own(g))) : queues' = [queues EXCEPT ![g] = queue]
        /\ outcome' \in Outcome /\ thrown' \in BOOLEAN
    BY <2>2, ServeType
  <2>4. \A q : Own(q) = Own(q)'
    BY <2>2 DEF Own
  <2>5. \E queue \in Seq(Item(Own(g)')) : queues' = [queues EXCEPT ![g] = queue]
    BY <2>3, <2>4
  <2> QED
    BY <1>2, <2>2, <2>3, <2>4, <2>5 DEF QueuesExist
<1>6. ASSUME NEW name \in Name, NEW args \in Args, RefuseCall(name, args)
      PROVE  QueueInv' /\ QueuesExist'
  <2>1. PICK g \in DOMAIN queues : g = Current
    BY <1>0
  <2>2. Refuse(g, Hits(name, args)) /\ UNCHANGED <<methods, replaying>>
    BY <1>6, <2>1 DEF RefuseCall
  <2>3. /\ \E queue \in Seq(Item(Own(g))) : queues' = [queues EXCEPT ![g] = queue]
        /\ outcome' \in Outcome /\ thrown' \in BOOLEAN
    BY <2>2, RefuseType
  <2>4. \A q : Own(q) = Own(q)'
    BY <2>2 DEF Own
  <2>5. \E queue \in Seq(Item(Own(g)')) : queues' = [queues EXCEPT ![g] = queue]
    BY <2>3, <2>4
  <2> QED
    BY <1>2, <2>2, <2>3, <2>4, <2>5 DEF QueuesExist
<1>7. ASSUME NEW name \in Name, Hold(name)
      PROVE  QueueInv' /\ QueuesExist'
  <2>1. /\ Len(methods) < MaxMethods
        /\ methods' = Append(methods, NewMethod(name, NoArgs))
        /\ UNCHANGED <<queues, replaying, thrown>> /\ outcome' \in Outcome
    BY <1>7 DEF Hold, Outcome
  <2>2. /\ methods' \in Seq(MockMethod) /\ Len(methods') <= MaxMethods
        /\ \A q \in DOMAIN queues : Own(q) \subseteq Own(q)'
        /\ \A h \in DOMAIN methods' : methods'[h].queue \in DOMAIN queues
    BY <1>0, <2>1, AppendedMethod DEF QueuesExist
  <2>3. QueuesOwnTheirItems'
    <3> SUFFICES ASSUME NEW q \in DOMAIN queues PROVE queues[q] \in Seq(Item(Own(q)'))
      BY <2>1 DEF QueuesOwnTheirItems
    <3>1. queues[q] \in Seq(Item(Own(q))) /\ Own(q) \subseteq Own(q)'
      BY <2>2 DEF QueuesOwnTheirItems
    <3>2. Item(Own(q)) \subseteq Item(Own(q)')
      BY <3>1, ItemMonotonic
    <3> QED
      BY <3>1, <3>2, SeqMonotonic
  <2> QED
    BY <2>1, <2>2, <2>3 DEF QueuesExist
<1>8. ASSUME NEW h \in DOMAIN methods, NEW args \in Args, RecordHeld(h, args)
      PROVE  QueueInv' /\ QueuesExist'
  <2>1. PICK g \in DOMAIN queues : g = methods[h].queue
    BY DEF QueuesExist
  <2>2. Enqueue(g, h) /\ methods' = WithParams(h, args) /\ UNCHANGED <<replaying, thrown>>
    BY <1>8, <2>1 DEF RecordHeld
  <2>3. h \in Own(g)
    BY <2>1 DEF Own
  <2>4. /\ \E queue \in Seq(Item(Own(g))) : queues' = [queues EXCEPT ![g] = queue]
        /\ outcome' \in Outcome
    BY <2>2, <2>3, EnqueueType
  <2>5. /\ methods' \in Seq(MockMethod) /\ Len(methods') <= MaxMethods
        /\ \A q : Own(q) = Own(q)'
        /\ \A m \in DOMAIN methods' : methods'[m].queue \in DOMAIN queues
    BY <2>2, StoredParams DEF QueuesExist
  <2>6. \E queue \in Seq(Item(Own(g)')) : queues' = [queues EXCEPT ![g] = queue]
    BY <2>4, <2>5
  <2> QED
    BY <1>2, <2>2, <2>4, <2>5, <2>6
<1>9. ASSUME NEW h \in DOMAIN methods, NEW args \in Args, RejectHeld(h, args)
      PROVE  QueueInv' /\ QueuesExist'
  <2>1. methods' = WithParams(h, args) /\ UNCHANGED <<queues, replaying, thrown>>
        /\ outcome' \in Outcome
    BY <1>9 DEF RejectHeld, Outcome
  <2>2. /\ methods' \in Seq(MockMethod) /\ Len(methods') <= MaxMethods
        /\ \A q : Own(q) = Own(q)'
        /\ \A m \in DOMAIN methods' : methods'[m].queue \in DOMAIN queues
    BY <2>1, StoredParams DEF QueuesExist
  <2>3. QueuesOwnTheirItems'
    BY <2>1, <2>2 DEF QueuesOwnTheirItems
  <2> QED
    BY <2>1, <2>2, <2>3 DEF QueuesExist
<1>10. ASSUME NEW h \in DOMAIN methods, NEW args \in Args, NEW m, AnswerHeld(h, args, m)
      PROVE  QueueInv' /\ QueuesExist'
  <2>1. PICK g \in DOMAIN queues : g = methods[h].queue
    BY DEF QueuesExist
  <2>2. Serve(g, HeldHits(h, args), m) /\ methods' = WithParams(h, args) /\ UNCHANGED replaying
    BY <1>10, <2>1 DEF AnswerHeld
  <2>3. /\ \E queue \in Seq(Item(Own(g))) : queues' = [queues EXCEPT ![g] = queue]
        /\ outcome' \in Outcome /\ thrown' \in BOOLEAN
    BY <2>2, ServeType
  <2>4. /\ methods' \in Seq(MockMethod) /\ Len(methods') <= MaxMethods
        /\ \A q : Own(q) = Own(q)'
        /\ \A n \in DOMAIN methods' : methods'[n].queue \in DOMAIN queues
    BY <2>2, StoredParams DEF QueuesExist
  <2>5. \E queue \in Seq(Item(Own(g)')) : queues' = [queues EXCEPT ![g] = queue]
    BY <2>3, <2>4
  <2> QED
    BY <1>2, <2>2, <2>3, <2>4, <2>5
<1>11. ASSUME NEW h \in DOMAIN methods, NEW args \in Args, RefuseHeld(h, args)
      PROVE  QueueInv' /\ QueuesExist'
  <2>1. PICK g \in DOMAIN queues : g = methods[h].queue
    BY DEF QueuesExist
  <2>2. Refuse(g, HeldHits(h, args)) /\ methods' = WithParams(h, args) /\ UNCHANGED replaying
    BY <1>11, <2>1 DEF RefuseHeld
  <2>3. /\ \E queue \in Seq(Item(Own(g))) : queues' = [queues EXCEPT ![g] = queue]
        /\ outcome' \in Outcome /\ thrown' \in BOOLEAN
    BY <2>2, RefuseType
  <2>4. /\ methods' \in Seq(MockMethod) /\ Len(methods') <= MaxMethods
        /\ \A q : Own(q) = Own(q)'
        /\ \A m \in DOMAIN methods' : methods'[m].queue \in DOMAIN queues
    BY <2>2, StoredParams DEF QueuesExist
  <2>5. \E queue \in Seq(Item(Own(g)')) : queues' = [queues EXCEPT ![g] = queue]
    BY <2>3, <2>4
  <2> QED
    BY <1>2, <2>2, <2>3, <2>4, <2>5
<1>12. ASSUME NEW h \in DOMAIN methods, NEW kind \in GroupKind, NEW g0 \in Group,
              Regroup(h, kind, g0)
       PROVE  QueueInv' /\ QueuesExist'
  <2>1. PICK g \in DOMAIN queues : g = methods[h].queue
    BY DEF QueuesExist
  <2>2. PICK queue \in Grouped(queues[g], h, kind, g0) :
               queues' = [queues EXCEPT ![g] = queue]
    BY <1>12, <2>1 DEF Regroup
  <2>3. h \in Own(g) /\ IsFiniteSet(Own(g)) /\ queues[g] # <<>>
    BY <1>12, <2>1, OwnFinite DEF Own, Regroup
  <2>4. queues[g] \in Seq(Item(Own(g)))
    BY DEF QueuesOwnTheirItems
  <2>5. queue \in Seq(Item(Own(g)))
    BY <2>2, <2>3, <2>4, GroupedType
  <2>6. UNCHANGED <<methods, replaying, thrown>> /\ outcome' \in Outcome
    BY <1>12 DEF Regroup, Outcome
  <2>7. \A q : Own(q) = Own(q)'
    BY <2>6 DEF Own
  <2>8. \E q \in Seq(Item(Own(g)')) : queues' = [queues EXCEPT ![g] = q]
    BY <2>2, <2>5, <2>7
  <2> QED
    BY <1>2, <2>6, <2>7, <2>8 DEF QueuesExist
<1>13. ASSUME NEW h \in DOMAIN methods, RegroupNotAtTail(h)
       PROVE  QueueInv' /\ QueuesExist'
  <2>1. PICK g \in DOMAIN queues : g = methods[h].queue
    BY DEF QueuesExist
  <2>2. /\ queues[g] # <<>> /\ queues' = [queues EXCEPT ![g] = Front(queues[g])]
        /\ UNCHANGED <<methods, replaying, thrown>> /\ outcome' \in Outcome
    BY <1>13, <2>1 DEF RegroupNotAtTail, Outcome
  <2>3. Front(queues[g]) \in Seq(Item(Own(g)))
    BY <2>2, FrontType DEF QueuesOwnTheirItems
  <2>4. \A q : Own(q) = Own(q)'
    BY <2>2 DEF Own
  <2>5. \E q \in Seq(Item(Own(g)')) : queues' = [queues EXCEPT ![g] = q]
    BY <2>2, <2>3, <2>4
  <2> QED
    BY <1>2, <2>2, <2>4, <2>5 DEF QueuesExist
<1>14. ASSUME NEW h \in DOMAIN methods, RegroupOnEmpty(h)
       PROVE  QueueInv' /\ QueuesExist'
  BY <1>1, <1>14 DEF RegroupOnEmpty, Outcome
<1>15. ASSUME Replay PROVE QueueInv' /\ QueuesExist'
  BY <1>1, <1>15 DEF Replay, Outcome
<1>16. ASSUME Reset PROVE QueueInv' /\ QueuesExist'
  <2>1. /\ Len(queues) < MaxQueues /\ queues' = Append(queues, <<>>)
        /\ UNCHANGED <<methods, thrown>> /\ replaying' \in BOOLEAN /\ outcome' \in Outcome
    BY <1>16 DEF Reset, Outcome
  <2>2. \A S : <<>> \in Seq(S)
    BY EmptySeq
  <2>3. /\ queues' \in Seq(Seq(Item(MethodIds))) /\ Len(queues') = Len(queues) + 1
        /\ DOMAIN queues' = 1..(Len(queues) + 1)
        /\ \A q \in 1..Len(queues) : queues'[q] = queues[q]
        /\ queues'[Len(queues) + 1] = <<>>
    BY <2>1, <2>2, AppendProperties, LenProperties
  <2>4. \A q : Own(q) = Own(q)'
    BY <2>1 DEF Own
  <2>5. QueuesOwnTheirItems'
    <3> SUFFICES ASSUME NEW q \in DOMAIN queues' PROVE queues'[q] \in Seq(Item(Own(q)'))
      BY DEF QueuesOwnTheirItems
    <3>1. CASE q = Len(queues) + 1
      BY <2>2, <2>3, <3>1
    <3>2. CASE q # Len(queues) + 1
      <4>1. q \in 1..Len(queues) /\ DOMAIN queues = 1..Len(queues)
        BY <1>0, <2>3, <3>2, LenProperties DEF QueueInv
      <4>2. queues'[q] = queues[q]
        BY <2>3, <4>1
      <4> QED
        BY <2>4, <4>1, <4>2 DEF QueuesOwnTheirItems
    <3> QED
      BY <3>1, <3>2
  <2>6. QueuesExist'
    BY <1>0, <2>1, <2>3 DEF QueuesExist
  <2>7. Len(queues') \in 1..MaxQueues
    BY <1>0, <2>1, <2>3, BoundsAssumption
  <2> QED
    BY <2>1, <2>3, <2>5, <2>6, <2>7
<1>17. ASSUME Verify PROVE QueueInv' /\ QueuesExist'
  BY <1>1, <1>17 DEF Verify, Outcome
<1>18. ASSUME UNCHANGED vars PROVE QueueInv' /\ QueuesExist'
  BY <1>1, <1>18 DEF vars
<1>19. ASSUME AccessUnknown PROVE QueueInv' /\ QueuesExist'
  BY <1>1, <1>19 DEF AccessUnknown, Outcome
<1> QED
  BY <1>3, <1>4, <1>5, <1>6, <1>7, <1>8, <1>9, <1>10, <1>11, <1>12, <1>13, <1>14, <1>15,
     <1>16, <1>17, <1>18, <1>19 DEF Next, FreshCall, HeldCall, Modifier

-----------------------------------------------------------------------------
\* The invariant makes every run type correct and keeps the queues apart.
LEMMA InvImplies == QueueInv => TypeOK /\ QueuesStayApart
<1> SUFFICES ASSUME QueueInv PROVE TypeOK /\ QueuesStayApart
  OBVIOUS
<1>1. TypeOK
  BY DEF QueueInv, TypeOK
<1>2. ASSUME NEW g \in DOMAIN queues, NEW k \in DOMAIN queues[g],
             NEW m \in ToSet(queues[g][k].methods)
      PROVE  m \in DOMAIN methods /\ methods[m].queue = g
  <2>1. queues[g] \in Seq(Item(Own(g)))
    BY DEF QueueInv, QueuesOwnTheirItems
  <2>2. queues[g][k] \in Item(Own(g))
    BY <2>1, LenProperties, ElementOfSeq
  <2>3. m \in Own(g)
    BY <2>2, ToSetType DEF Item
  <2> QED
    BY <2>3 DEF Own
<1> QED
  BY <1>1, <1>2 DEF QueuesStayApart

\* TypeOK and QueuesStayApart hold of MockAnything for all values of the
\* constants: whatever clients do with MockMethods they kept (_create_mock_method
\* gives each the queue of its time), a reset separates old from new expectations.
THEOREM QueuesStayApartAlways == Spec => [](TypeOK /\ QueuesStayApart)
<1>1. QueueInv /\ QueuesExist /\ [Next]_vars => QueueInv' /\ QueuesExist'
  BY StepInv
<1> QED
  BY InitInv, <1>1, InvImplies, PTL DEF Spec

\* The same theorem in parts: type correctness of the mock.
THEOREM MockTypesHold == Spec => []TypeOK
<1>1. TypeOK /\ QueuesStayApart => TypeOK
  OBVIOUS
<1> QED
  BY <1>1, QueuesStayApartAlways, PTL

\* What a step may do with a refusal: it is never forgotten, and verify sees it.
LEMMA RefusalsAreKept ==
  ASSUME [Next]_vars,
         outcome \in {"UnexpectedMethodCallError", "UnknownMethodCallError"} => thrown,
         thrown => outcome # "verified"
  PROVE  /\ thrown => thrown'
         /\ outcome' \in {"UnexpectedMethodCallError", "UnknownMethodCallError"} => thrown'
         /\ thrown' => outcome' # "verified"
<1>1. CASE FreshCall
  BY <1>1 DEF FreshCall, RecordCall, Enqueue, RejectCall, AnswerCall, RefuseCall, Serve, Refuse
<1>2. CASE AccessUnknown
  BY <1>2 DEF AccessUnknown
<1>3. CASE \E name \in Name : Hold(name)
  BY <1>3 DEF Hold
<1>4. CASE HeldCall
  <2>1. PICK h \in DOMAIN methods, args \in Args :
          \/ RecordHeld(h, args)
          \/ RejectHeld(h, args)
          \/ \E m \in DOMAIN methods : AnswerHeld(h, args, m)
          \/ RefuseHeld(h, args)
    BY <1>4 DEF HeldCall
  <2>2. CASE RecordHeld(h, args)
    BY <2>2 DEF RecordHeld, Enqueue
  <2>3. CASE RejectHeld(h, args)
    BY <2>3 DEF RejectHeld
  <2>4. CASE \E m \in DOMAIN methods : AnswerHeld(h, args, m)
    BY <2>4 DEF AnswerHeld, Serve
  <2>5. CASE RefuseHeld(h, args)
    BY <2>5 DEF RefuseHeld, Refuse
  <2> QED
    BY <2>1, <2>2, <2>3, <2>4, <2>5
<1>5. CASE Modifier
  BY <1>5 DEF Modifier, Regroup, RegroupNotAtTail, RegroupOnEmpty
<1>6. CASE Replay \/ Reset
  BY <1>6 DEF Replay, Reset
<1>7. CASE Verify
  BY <1>7 DEF Verify
<1>8. CASE UNCHANGED vars
  BY <1>8 DEF vars
<1> QED
  BY <1>1, <1>2, <1>3, <1>4, <1>5, <1>6, <1>7, <1>8 DEF Next

\* After a refused call, or after a use of an attribute that the class does not have, no
\* verify ever passes, whatever the code under test swallows and whatever is recorded,
\* replayed and reset afterwards (_exceptions_thrown).
THEOREM RefusalsAlwaysResurface == Spec => RefusalResurfaces
<1> DEFINE Refused == outcome \in {"UnexpectedMethodCallError", "UnknownMethodCallError"}
           Kept == (Refused => thrown) /\ (thrown => outcome # "verified")
<1>1. Init => Kept
  BY DEF Init
<1>2. Kept /\ [Next]_vars => Kept' /\ (thrown => thrown')
  BY RefusalsAreKept
<1> QED
  BY <1>1, <1>2, PTL DEF Spec, RefusalResurfaces

-----------------------------------------------------------------------------
(***************************************************************************)
(* Proofs about the shape of the queues of MockAnything: no group in them  *)
(* is empty or waits for what it does not have, and neighbours that are    *)
(* one group are merged.  Both are kept by every operator on queues, so    *)
(* the invariant says them of each queue by itself.                        *)
(***************************************************************************)
\* An item that can be satisfied.  That of an UnorderedGroup nothing is left besides
\* its methods makes it stay one when a method is removed.
Satisfiable(item) ==
  /\ item.methods # <<>>
  /\ item.left \subseteq ToSet(item.methods)
  /\ item.kind # "multiple" => item.left = {}

Sound(M) == {item \in Item(M) : Satisfiable(item)}

\* Two neighbours of a queue that should have been one group.
SameGroup(first, second) ==
  second.kind \in GroupKind /\ IsGroup(first, second.kind, second.name)

Merged(queue) == \A k \in 2..Len(queue) : ~SameGroup(queue[k - 1], queue[k])

\* A single method is sound.
LEMMA SingleSound ==
  ASSUME NEW M, NEW m \in M
  PROVE  Single(m) \in Sound(M)
<1>1. Single(m) \in Item(M)
  BY SingleType
<1>2. Single(m).methods # <<>> /\ Single(m).left = {}
  BY DEF Single
<1> QED
  BY <1>1, <1>2 DEF Sound, Satisfiable

\* add_method makes a sound group, also of one that is new and empty.
LEMMA WithMethodSound ==
  ASSUME NEW M, IsFiniteSet(M), NEW item \in Item(M), NEW m \in M,
         item.kind \in GroupKind,
         item.left \subseteq ToSet(item.methods),
         item.kind # "multiple" => item.left = {},
         NEW x \in WithMethod(item, m)
  PROVE  x \in Sound(M) /\ x.kind = item.kind /\ x.name = item.name
<1>1. x \in Item(M) /\ x.kind = item.kind
  BY WithMethodType
<1>2. CASE item.kind = "unordered"
  <2>1. x = [item EXCEPT !.methods = Append(@, m)]
    BY <1>2 DEF WithMethod
  <2>2. x.methods = Append(item.methods, m) /\ x.left = {} /\ x.name = item.name
    BY <1>2, <2>1 DEF Item
  <2>3. Len(x.methods) = Len(item.methods) + 1 /\ Len(item.methods) \in Nat
    BY <2>2, AppendProperties, LenProperties DEF Item
  <2>4. x.methods # <<>>
    BY <2>3
  <2> QED
    BY <1>1, <2>2, <2>4 DEF Sound, Satisfiable
<1>3. CASE item.kind # "unordered"
  <2> DEFINE S == ToSet(item.methods) \cup {m}
  <2>1. PICK order \in SetToSeqs(S) :
               x = [item EXCEPT !.methods = order, !.left = @ \cup {m}]
    BY <1>3 DEF WithMethod
  <2>2. /\ x.methods = order /\ x.left = item.left \cup {m} /\ x.name = item.name
        /\ x.kind = "multiple"
    BY <1>1, <1>3, <2>1 DEF Item, GroupKind
  <2>3. ToSet(order) = S
    BY <1>1, <2>2, ScanOrder, ToSetType, FS_Subset DEF Item
  <2>4. order \in Seq(M)
    BY <1>1, <2>2 DEF Item
  <2>5. order # <<>>
    BY <2>3, <2>4, ToSetElements, EmptySeq
  <2> QED
    BY <1>1, <2>2, <2>3, <2>5 DEF Sound, Satisfiable
<1> QED
  BY <1>1, <1>2, <1>3

\* What stays of a sound item when one of its methods is called is sound, and is
\* the same group.
LEMMA RemainingSound ==
  ASSUME NEW M, NEW item \in Sound(M), NEW i \in DOMAIN item.methods
  PROVE  \/ Remaining(item, i) = <<>>
         \/ \E x \in Sound(M) : /\ Remaining(item, i) = <<x>>
                                 /\ x.kind = item.kind /\ x.name = item.name
<1>1. /\ item \in Item(M) /\ Satisfiable(item) /\ item.methods \in Seq(M)
      /\ Len(item.methods) \in Nat /\ i \in 1..Len(item.methods)
  BY LenProperties DEF Sound, Item
<1>2. CASE item.kind = "multiple"
  <2> DEFINE x == [item EXCEPT !.left = @ \ {item.methods[i]}]
  <2>1. /\ x \in Item(M) /\ x.methods = item.methods /\ x.left \subseteq item.left
        /\ x.kind = item.kind /\ x.name = item.name
    BY <1>1 DEF Item
  <2>2. x \in Sound(M)
    BY <1>1, <1>2, <2>1 DEF Sound, Satisfiable
  <2>3. Remaining(item, i) = <<x>>
    BY <1>2 DEF Remaining
  <2> HIDE DEF x
  <2> QED
    BY <2>1, <2>2, <2>3
<1>3. CASE item.kind # "multiple" /\ Len(item.methods) # 1
  <2> DEFINE x == [item EXCEPT !.methods = RemoveAt(@, i)]
  <2>1. RemoveAt(item.methods, i) \in Seq(M) /\ Len(RemoveAt(item.methods, i)) = Len(item.methods) - 1
    <3> DEFINE n == Len(item.methods)
               before == SubSeq(item.methods, 1, i - 1)
               after == SubSeq(item.methods, i + 1, n)
    <3>1. before \in Seq(M) /\ Len(before) = i - 1
      <4>1. \A p \in 1..(i - 1) : item.methods[p] \in M
        BY <1>1, ElementOfSeq
      <4> QED
        BY <1>1, <4>1, SubSeqProperties
    <3>2. after \in Seq(M) /\ Len(after) = n - i
      <4>1. \A p \in (i + 1)..n : item.methods[p] \in M
        BY <1>1, ElementOfSeq
      <4> QED
        BY <1>1, <4>1, SubSeqProperties
    <3>3. RemoveAt(item.methods, i) = before \o after
      BY DEF RemoveAt
    <3> HIDE DEF before, after
    <3>4. before \o after \in Seq(M) /\ Len(before \o after) = Len(before) + Len(after)
      BY <3>1, <3>2, ConcatProperties
    <3> QED
      BY <1>1, <3>1, <3>2, <3>3, <3>4
  <2>2. /\ x \in Item(M) /\ x.methods = RemoveAt(item.methods, i) /\ x.left = item.left
        /\ x.kind = item.kind /\ x.name = item.name
    BY <1>1, <2>1 DEF Item
  <2>3. x.methods # <<>>
    <3>1. Len(item.methods) - 1 # 0
      BY <1>1, <1>3
    <3>2. Len(RemoveAt(item.methods, i)) # 0
      BY <2>1, <3>1
    <3>3. RemoveAt(item.methods, i) # <<>>
      BY <3>2, EmptySeq
    <3> QED
      BY <2>2, <3>3
  <2>4. item.left = {}
    BY <1>1, <1>3 DEF Satisfiable
  <2>5. x \in Sound(M)
    BY <2>2, <2>3, <2>4 DEF Sound, Satisfiable
  <2>6. Remaining(item, i) = <<x>>
    BY <1>3 DEF Remaining
  <2> HIDE DEF x
  <2> QED
    BY <2>2, <2>5, <2>6
<1>4. CASE item.kind # "multiple" /\ Len(item.methods) = 1
  BY <1>4 DEF Remaining
<1> QED
  BY <1>2, <1>3, <1>4

-----------------------------------------------------------------------------
\* A queue in order.
Ordered(M) == {queue \in Seq(Sound(M)) : Merged(queue)}

\* A new queue is in order.
LEMMA EmptyOrdered ==
  ASSUME NEW M
  PROVE  <<>> \in Ordered(M)
<1>1. <<>> \in Seq(Sound(M)) /\ Len(<<>>) = 0
  BY EmptySeq
<1> QED
  BY <1>1 DEF Ordered, Merged

\* What is left of a queue when elements are taken off its head is in order.
LEMMA BeyondOrdered ==
  ASSUME NEW M, NEW queue \in Ordered(M), NEW k \in 1..(Len(queue) + 1)
  PROVE  /\ Beyond(queue, k) \in Ordered(M)
         /\ Len(queue) \in Nat
         /\ Len(Beyond(queue, k)) = IF k + 1 <= Len(queue) THEN Len(queue) - k ELSE 0
         /\ \A n \in 1..(Len(queue) - k) : Beyond(queue, k)[n] = queue[k + n]
<1> DEFINE first == k + 1
           last  == Len(queue)
           rest  == SubSeq(queue, first, last)
<1>1. queue \in Seq(Sound(M)) /\ last \in Nat /\ Merged(queue)
  BY LenProperties DEF Ordered
<1>2. first \in Nat /\ \A n \in first..last : queue[n] \in Sound(M)
  BY <1>1, ElementOfSeq
<1>3. Beyond(queue, k) = rest
  BY DEF Beyond
<1> HIDE DEF first, last
<1>4. /\ rest \in Seq(Sound(M))
      /\ Len(rest) = IF first <= last THEN last - first + 1 ELSE 0
      /\ \A n \in 1..(last - first + 1) : rest[n] = queue[first + n - 1]
  BY <1>1, <1>2, SubSeqProperties
<1> HIDE DEF rest
<1>5. /\ Len(rest) = IF k + 1 <= last THEN last - k ELSE 0
      /\ \A n \in 1..(last - k) : rest[n] = queue[k + n]
  <2>1. last - first + 1 = last - k /\ \A n \in Nat : first + n - 1 = k + n
    BY <1>1 DEF first
  <2> QED
    BY <1>1, <1>4, <2>1 DEF first
<1>6. Merged(rest)
  <2> SUFFICES ASSUME NEW n \in 2..Len(rest) PROVE ~SameGroup(rest[n - 1], rest[n])
    BY DEF Merged
  <2>1. n \in Nat /\ n - 1 \in 1..(last - k) /\ n \in 1..(last - k) /\ k + n \in 2..last
    <3>1. k \in Nat /\ 1 <= k /\ last \in Nat
      BY <1>1 DEF last
    <3>2. Len(rest) = last - k
      BY <1>5, <3>1
    <3> QED
      BY <3>1, <3>2
  <2>2. rest[n] = queue[k + n] /\ rest[n - 1] = queue[k + (n - 1)]
    BY <1>5, <2>1
  <2>3. k + (n - 1) = (k + n) - 1
    BY <2>1
  <2> QED
    BY <1>1, <2>1, <2>2, <2>3 DEF Merged, last
<1> QED
  BY <1>1, <1>3, <1>4, <1>5, <1>6 DEF Ordered, last

\* A queue without its last element is in order.
LEMMA FrontOrdered ==
  ASSUME NEW M, NEW queue \in Ordered(M), queue # <<>>
  PROVE  Front(queue) \in Ordered(M) /\ Last(queue) \in Sound(M)
<1>1. queue \in Seq(Sound(M)) /\ Len(queue) \in Nat /\ Merged(queue)
  BY LenProperties DEF Ordered
<1>2. /\ Front(queue) \in Seq(Sound(M)) /\ Len(Front(queue)) = Len(queue) - 1
      /\ \A n \in 1..(Len(queue) - 1) : Front(queue)[n] = queue[n]
  BY <1>1, FrontProperties
<1>3. Merged(Front(queue))
  BY <1>1, <1>2 DEF Merged
<1> QED
  BY <1>1, <1>2, <1>3, FrontType DEF Ordered

\* An item appended to a queue keeps it in order when it is no group, or another one
\* than the last.
LEMMA AppendOrdered ==
  ASSUME NEW M, NEW queue \in Ordered(M), NEW x \in Sound(M),
         queue # <<>> => ~SameGroup(Last(queue), x)
  PROVE  Append(queue, x) \in Ordered(M)
<1>1. queue \in Seq(Sound(M)) /\ Len(queue) \in Nat /\ Merged(queue)
  BY LenProperties DEF Ordered
<1>2. /\ Append(queue, x) \in Seq(Sound(M)) /\ Len(Append(queue, x)) = Len(queue) + 1
      /\ \A n \in 1..Len(queue) : Append(queue, x)[n] = queue[n]
      /\ Append(queue, x)[Len(queue) + 1] = x
  BY <1>1, AppendProperties
<1>3. ASSUME NEW n \in 2..(Len(queue) + 1)
      PROVE  ~SameGroup(Append(queue, x)[n - 1], Append(queue, x)[n])
  <2>1. CASE n = Len(queue) + 1
    <3>1. n - 1 = Len(queue) /\ n - 1 \in 1..Len(queue) /\ queue # <<>>
      BY <1>1, <2>1, EmptySeq
    <3>2. Append(queue, x)[n - 1] = Last(queue) /\ Append(queue, x)[n] = x
      BY <1>2, <2>1, <3>1 DEF Last
    <3> QED
      BY <3>1, <3>2
  <2>2. CASE n # Len(queue) + 1
    <3>1. n \in 2..Len(queue) /\ n \in 1..Len(queue) /\ n - 1 \in 1..Len(queue)
      BY <1>1, <2>2
    <3> QED
      BY <1>1, <1>2, <3>1 DEF Merged
  <2> QED
    BY <2>1, <2>2
<1> QED
  BY <1>2, <1>3 DEF Ordered, Merged

\* A call that is answered leaves a queue in order behind.
LEMMA ServedOrdered ==
  ASSUME NEW M, NEW queue \in Ordered(M), NEW k \in DOMAIN queue,
         NEW i \in DOMAIN queue[k].methods
  PROVE  Remaining(queue[k], i) \o Beyond(queue, k) \in Ordered(M)
<1> DEFINE rest == Beyond(queue, k)
<1>1. queue \in Seq(Sound(M)) /\ Len(queue) \in Nat /\ k \in 1..Len(queue) /\ Merged(queue)
  BY LenProperties DEF Ordered
<1>2. queue[k] \in Sound(M)
  BY <1>1, ElementOfSeq
<1>3. /\ rest \in Ordered(M)
      /\ Len(rest) = IF k + 1 <= Len(queue) THEN Len(queue) - k ELSE 0
      /\ \A n \in 1..(Len(queue) - k) : rest[n] = queue[k + n]
  <2>1. k \in 1..(Len(queue) + 1)
    BY <1>1
  <2> QED
    BY <2>1, BeyondOrdered
<1> HIDE DEF rest
<1>4. rest \in Seq(Sound(M)) /\ Len(rest) \in Nat /\ Merged(rest)
  BY <1>3, LenProperties DEF Ordered
<1>5. CASE Remaining(queue[k], i) = <<>>
  <2>1. <<>> \o rest = rest
    BY <1>4, ConcatEmptySeq
  <2> QED
    BY <1>3, <1>5, <2>1 DEF rest
<1>6. ASSUME NEW x \in Sound(M), Remaining(queue[k], i) = <<x>>,
             x.kind = queue[k].kind, x.name = queue[k].name
      PROVE  Remaining(queue[k], i) \o rest \in Ordered(M)
  <2>1. <<x>> \in Seq(Sound(M)) /\ Len(<<x>>) = 1 /\ <<x>>[1] = x
    OBVIOUS
  <2> DEFINE new == <<x>> \o rest
  <2>2. /\ new \in Seq(Sound(M)) /\ Len(new) = 1 + Len(rest)
        /\ \A n \in 1..(1 + Len(rest)) : new[n] = IF n <= 1 THEN x ELSE rest[n - 1]
    <3>1. /\ new \in Seq(Sound(M)) /\ Len(new) = Len(<<x>>) + Len(rest)
          /\ \A n \in 1..(Len(<<x>>) + Len(rest)) :
               new[n] = IF n <= Len(<<x>>) THEN <<x>>[n] ELSE rest[n - Len(<<x>>)]
      BY <1>4, <2>1, ConcatProperties
    <3> HIDE DEF new
    <3>2. ASSUME NEW n \in 1..(1 + Len(rest))
          PROVE  new[n] = IF n <= 1 THEN x ELSE rest[n - 1]
      <4>1. n <= 1 => n = 1
        OBVIOUS
      <4> QED
        BY <2>1, <3>1, <4>1
    <3> QED
      BY <2>1, <3>1, <3>2
  <2> HIDE DEF new
  <2>3. ASSUME NEW n \in 2..Len(new)
        PROVE  ~SameGroup(new[n - 1], new[n])
    <3>1. n \in 1..(1 + Len(rest)) /\ n - 1 \in 1..(1 + Len(rest)) /\ n > 1 /\ n \in Nat
      BY <1>4, <2>2
    <3>2. new[n] = rest[n - 1]
      BY <2>2, <3>1
    <3>3. CASE n = 2
      <4>1. new[n - 1] = x /\ new[n] = rest[1]
        BY <2>2, <3>1, <3>2, <3>3
      <4>2. Len(rest) # 0 /\ k + 1 <= Len(queue) /\ 1 \in 1..(Len(queue) - k)
        BY <1>1, <1>3, <1>4, <3>1, <3>3
      <4>3. rest[1] = queue[k + 1] /\ k + 1 \in 2..Len(queue) /\ (k + 1) - 1 = k
        BY <1>1, <1>3, <4>2
      <4>4. ~SameGroup(queue[k], queue[k + 1])
        BY <1>1, <4>3 DEF Merged
      <4> QED
        BY <1>6, <4>1, <4>3, <4>4 DEF SameGroup, IsGroup
    <3>4. CASE n # 2
      <4>1. n - 1 \in 2..Len(rest) /\ ~(n - 1 <= 1)
        BY <1>4, <3>1, <3>4
      <4>2. new[n - 1] = rest[(n - 1) - 1]
        BY <2>2, <3>1, <4>1
      <4> QED
        BY <1>4, <3>2, <4>1, <4>2 DEF Merged
    <3> QED
      BY <3>3, <3>4
  <2>4. new \in Ordered(M)
    BY <2>2, <2>3 DEF Ordered, Merged
  <2> QED
    BY <1>6, <2>4 DEF new
<1> QED
  BY <1>2, <1>5, <1>6, RemainingSound DEF rest

\* any_order and multiple_times leave a queue in order behind.
LEMMA GroupedOrdered ==
  ASSUME NEW M, IsFiniteSet(M), NEW queue \in Ordered(M), queue # <<>>,
         NEW h \in M, NEW kind \in GroupKind, NEW g \in Group,
         NEW new \in Grouped(queue, h, kind, g)
  PROVE  new \in Ordered(M)
<1> DEFINE rest == Front(queue)
<1>1. rest \in Ordered(M)
  BY FrontOrdered
<1>2. CASE JoinsGroup(rest, kind, g)
  <2>1. PICK group \in WithMethod(Last(rest), h) : new = Append(Front(rest), group)
    BY <1>2 DEF Grouped
  <2>2. rest # <<>> /\ Last(rest).kind = kind /\ Last(rest).name = g
    BY <1>2 DEF JoinsGroup, IsGroup
  <2>3. Front(rest) \in Ordered(M) /\ Last(rest) \in Sound(M)
    BY <1>1, <2>2, FrontOrdered
  <2>4. group \in Sound(M) /\ group.kind = kind /\ group.name = g
    BY <2>2, <2>3, WithMethodSound DEF Sound, Satisfiable
  <2>5. Front(rest) # <<>> => ~SameGroup(Last(Front(rest)), group)
    <3> SUFFICES ASSUME Front(rest) # <<>> PROVE ~SameGroup(Last(Front(rest)), group)
      OBVIOUS
    <3>1. rest \in Seq(Sound(M)) /\ Len(rest) \in Nat /\ Merged(rest)
      BY <1>1, LenProperties DEF Ordered
    <3>2. /\ Front(rest) \in Seq(Sound(M)) /\ Len(Front(rest)) = Len(rest) - 1
          /\ \A n \in 1..(Len(rest) - 1) : Front(rest)[n] = rest[n]
      BY <2>2, <3>1, FrontProperties
    <3>3. Len(rest) \in 2..Len(rest) /\ Len(rest) - 1 \in 1..(Len(rest) - 1)
      BY <3>1, <3>2, EmptySeq
    <3>4. Last(Front(rest)) = rest[Len(rest) - 1] /\ Last(rest) = rest[Len(rest)]
      BY <3>2, <3>3 DEF Last
    <3>5. ~SameGroup(rest[Len(rest) - 1], rest[Len(rest)])
      BY <3>1, <3>3 DEF Merged
    <3> QED
      BY <2>2, <2>4, <3>4, <3>5 DEF SameGroup, IsGroup
  <2> QED
    BY <2>1, <2>3, <2>4, <2>5, AppendOrdered
<1>3. CASE ~JoinsGroup(rest, kind, g)
  <2>1. PICK group \in WithMethod(EmptyGroup(kind, g), h) : new = Append(rest, group)
    BY <1>3 DEF Grouped
  <2>2. /\ EmptyGroup(kind, g) \in Item(M)
        /\ EmptyGroup(kind, g).kind = kind /\ EmptyGroup(kind, g).name = g
        /\ EmptyGroup(kind, g).left = {}
    BY EmptyGroupType DEF EmptyGroup
  <2>3. group \in Sound(M) /\ group.kind = kind /\ group.name = g
    BY <2>1, <2>2, WithMethodSound
  <2>4. rest # <<>> => ~SameGroup(Last(rest), group)
    BY <1>3, <2>3 DEF JoinsGroup, SameGroup
  <2> QED
    BY <1>1, <2>1, <2>3, <2>4, AppendOrdered
<1> QED
  BY <1>2, <1>3

-----------------------------------------------------------------------------
\* Every queue is in order.
QueuesInOrder ==
  \A g \in DOMAIN queues : queues[g] \in Ordered(MethodIds)

\* A step that changes one queue, to one in order, keeps them all in order.
LEMMA OneQueueInOrder ==
  ASSUME QueuesInOrder, NEW g \in DOMAIN queues, NEW queue \in Ordered(MethodIds),
         queues' = [queues EXCEPT ![g] = queue]
  PROVE  QueuesInOrder'
<1>1. DOMAIN queues' = DOMAIN queues
      /\ \A q \in DOMAIN queues : queues'[q] = IF q = g THEN queue ELSE queues[q]
  OBVIOUS
<1> QED
  BY <1>1 DEF QueuesInOrder

\* A call in replay mode keeps all queues in order, answered or refused.
LEMMA ReplayedInOrder ==
  ASSUME QueuesInOrder, NEW g \in DOMAIN queues, NEW hits,
         (\E m : Serve(g, hits, m)) \/ Refuse(g, hits)
  PROVE  QueuesInOrder'
<1>0. queues[g] \in Ordered(MethodIds)
  BY DEF QueuesInOrder
<1>1. ASSUME NEW m, Serve(g, hits, m) PROVE QueuesInOrder'
  <2>1. PICK k \in DOMAIN queues[g] : \E i \in DOMAIN queues[g][k].methods :
          queues' = [queues EXCEPT
                       ![g] = Remaining(queues[g][k], i) \o Beyond(queues[g], k)]
    BY <1>1 DEF Serve
  <2>2. PICK i \in DOMAIN queues[g][k].methods :
          queues' = [queues EXCEPT
                       ![g] = Remaining(queues[g][k], i) \o Beyond(queues[g], k)]
    BY <2>1
  <2>3. Remaining(queues[g][k], i) \o Beyond(queues[g], k) \in Ordered(MethodIds)
    BY <1>0, ServedOrdered
  <2> QED
    BY <2>2, <2>3, OneQueueInOrder
<1>2. CASE Refuse(g, hits)
  <2>1. PICK k \in 1..(Len(queues[g]) + 1) :
          queues' = [queues EXCEPT ![g] = Beyond(queues[g], k)]
    BY <1>2 DEF Refuse
  <2>2. Beyond(queues[g], k) \in Ordered(MethodIds)
    BY <1>0, BeyondOrdered
  <2> QED
    BY <2>1, <2>2, OneQueueInOrder
<1> QED
  BY <1>1, <1>2

\* A recorded call keeps all queues in order.
LEMMA RecordedInOrder ==
  ASSUME QueuesInOrder, NEW g \in DOMAIN queues, NEW m \in MethodIds, Enqueue(g, m)
  PROVE  QueuesInOrder'
<1>1. queues[g] \in Ordered(MethodIds)
  BY DEF QueuesInOrder
<1>2. Single(m) \in Sound(MethodIds)
  BY SingleSound
<1>3. ~SameGroup(Last(queues[g]), Single(m))
  BY DEF SameGroup, Single, GroupKind
<1>4. Append(queues[g], Single(m)) \in Ordered(MethodIds)
  BY <1>1, <1>2, <1>3, AppendOrdered
<1> QED
  BY <1>4, OneQueueInOrder DEF Enqueue

\* A modifier keeps all queues in order, chained late or not.
LEMMA RegroupedInOrder ==
  ASSUME QueuesInOrder, QueueInv, QueuesExist, NEW h \in DOMAIN methods,
         \/ \E kind \in GroupKind, name \in Group : Regroup(h, kind, name)
         \/ RegroupNotAtTail(h)
  PROVE  QueuesInOrder'
<1>1. PICK g \in DOMAIN queues : g = methods[h].queue
  BY DEF QueuesExist
<1>2. queues[g] \in Ordered(MethodIds)
  BY DEF QueuesInOrder
<1>3. ASSUME NEW kind \in GroupKind, NEW name \in Group, Regroup(h, kind, name)
      PROVE  QueuesInOrder'
  <2>1. queues[g] # <<>>
    BY <1>1, <1>3 DEF Regroup
  <2>2. PICK queue \in Grouped(queues[g], h, kind, name) :
               queues' = [queues EXCEPT ![g] = queue]
    BY <1>1, <1>3 DEF Regroup
  <2>3. IsFiniteSet(MethodIds)
    BY BoundsAssumption, FS_Interval DEF MethodIds
  <2>4. h \in MethodIds
    BY LenProperties, BoundsAssumption DEF QueueInv, MethodIds
  <2>5. queue \in Ordered(MethodIds)
    BY <1>2, <2>1, <2>2, <2>3, <2>4, GroupedOrdered
  <2> QED
    BY <2>2, <2>5, OneQueueInOrder
<1>4. CASE RegroupNotAtTail(h)
  <2>1. queues[g] # <<>> /\ queues' = [queues EXCEPT ![g] = Front(queues[g])]
    BY <1>1, <1>4 DEF RegroupNotAtTail
  <2>2. Front(queues[g]) \in Ordered(MethodIds)
    BY <1>2, <2>1, FrontOrdered
  <2> QED
    BY <2>1, <2>2, OneQueueInOrder
<1> QED
  BY <1>3, <1>4

\* Every step keeps all queues in order.
LEMMA StepInOrder ==
  ASSUME QueuesInOrder, QueueInv, QueuesExist, [Next]_vars
  PROVE  QueuesInOrder'
<1>0. /\ Current \in DOMAIN queues /\ DOMAIN methods \subseteq MethodIds
      /\ Len(methods) \in Nat /\ Len(queues) \in Nat /\ DOMAIN queues = 1..Len(queues)
  BY LenProperties, BoundsAssumption DEF QueueInv, Current, MethodIds
<1>1. ASSUME UNCHANGED queues PROVE QueuesInOrder'
  BY <1>1 DEF QueuesInOrder
<1>2. ASSUME FreshCall PROVE QueuesInOrder'
  <2> PICK name \in Name, args \in Args :
             \/ RecordCall(name, args) \/ RejectCall(name, args)
             \/ \E m \in DOMAIN methods : AnswerCall(name, args, m)
             \/ RefuseCall(name, args)
    BY <1>2 DEF FreshCall
  <2>1. CASE RecordCall(name, args)
    <3>1. Enqueue(Current, Len(methods) + 1) /\ Len(methods) + 1 \in MethodIds
      BY <1>0, <2>1, BoundsAssumption DEF RecordCall, MethodIds
    <3> QED
      BY <1>0, <3>1, RecordedInOrder
  <2>2. CASE RejectCall(name, args)
    BY <1>1, <2>2 DEF RejectCall
  <2>3. CASE (\E m \in DOMAIN methods : AnswerCall(name, args, m)) \/ RefuseCall(name, args)
    <3>1. (\E m : Serve(Current, Hits(name, args), m)) \/ Refuse(Current, Hits(name, args))
      BY <2>3 DEF AnswerCall, RefuseCall
    <3> QED
      BY <1>0, <3>1, ReplayedInOrder
  <2> QED
    BY <2>1, <2>2, <2>3
<1>3. ASSUME HeldCall PROVE QueuesInOrder'
  <2> PICK h \in DOMAIN methods, args \in Args :
             \/ RecordHeld(h, args) \/ RejectHeld(h, args)
             \/ \E m \in DOMAIN methods : AnswerHeld(h, args, m)
             \/ RefuseHeld(h, args)
    BY <1>3 DEF HeldCall
  <2> DEFINE g == methods[h].queue
  <2>0. g \in DOMAIN queues /\ h \in MethodIds
    BY <1>0 DEF QueuesExist
  <2>1. CASE RecordHeld(h, args)
    <3>1. Enqueue(g, h)
      BY <2>1 DEF RecordHeld
    <3> QED
      BY <2>0, <3>1, RecordedInOrder
  <2>2. CASE RejectHeld(h, args)
    BY <1>1, <2>2 DEF RejectHeld
  <2>3. CASE (\E m \in DOMAIN methods : AnswerHeld(h, args, m)) \/ RefuseHeld(h, args)
    <3>1. (\E m : Serve(g, HeldHits(h, args), m)) \/ Refuse(g, HeldHits(h, args))
      BY <2>3 DEF AnswerHeld, RefuseHeld
    <3> HIDE DEF g
    <3> QED
      BY <2>0, <3>1, ReplayedInOrder
  <2> QED
    BY <2>1, <2>2, <2>3
<1>4. ASSUME Modifier PROVE QueuesInOrder'
  <2> PICK h \in DOMAIN methods :
             \/ \E kind \in GroupKind, g \in Group : Regroup(h, kind, g)
             \/ RegroupNotAtTail(h) \/ RegroupOnEmpty(h)
    BY <1>4 DEF Modifier
  <2>1. CASE RegroupOnEmpty(h)
    BY <1>1, <2>1 DEF RegroupOnEmpty
  <2> QED
    BY <2>1, RegroupedInOrder
<1>5. ASSUME Reset PROVE QueuesInOrder'
  <2>1. queues' = Append(queues, <<>>) /\ queues \in Seq(Seq(Item(MethodIds)))
    BY <1>5 DEF Reset, QueueInv
  <2>2. /\ DOMAIN queues' = 1..(Len(queues) + 1)
        /\ \A g \in 1..Len(queues) : queues'[g] = queues[g]
        /\ queues'[Len(queues) + 1] = <<>>
    <3>1. <<>> \in Seq(Item(MethodIds))
      BY EmptySeq
    <3> QED
      BY <1>0, <2>1, <3>1, AppendProperties, LenProperties
  <2>3. ASSUME NEW g \in DOMAIN queues' PROVE queues'[g] \in Ordered(MethodIds)
    <3>1. CASE g = Len(queues) + 1
      BY <2>2, <3>1, EmptyOrdered
    <3>2. CASE g # Len(queues) + 1
      BY <1>0, <2>2, <3>2 DEF QueuesInOrder
    <3> QED
      BY <3>1, <3>2
  <2> QED
    BY <2>3 DEF QueuesInOrder
<1> QED
  BY <1>1, <1>2, <1>3, <1>4, <1>5
     DEF Next, vars, AccessUnknown, Hold, Replay, Verify

\* Queues in order have no unsatisfiable group and no group in two parts.
LEMMA InOrderImplies ==
  ASSUME QueuesInOrder
  PROVE  GroupsCanBeSatisfied /\ GroupsAreMerged
<1>1. GroupsCanBeSatisfied
  <2> SUFFICES ASSUME NEW g \in DOMAIN queues, NEW k \in DOMAIN queues[g]
               PROVE  Satisfiable(queues[g][k])
    BY DEF GroupsCanBeSatisfied, Satisfiable
  <2>1. queues[g] \in Seq(Sound(MethodIds))
    BY DEF QueuesInOrder, Ordered
  <2>2. queues[g][k] \in Sound(MethodIds)
    BY <2>1, LenProperties, ElementOfSeq
  <2> QED
    BY <2>2 DEF Sound
<1>2. GroupsAreMerged
  BY DEF GroupsAreMerged, QueuesInOrder, Ordered, Merged, SameGroup
<1> QED
  BY <1>1, <1>2

\* All invariants of a mock together, from its first state on.
LEMMA AlwaysInOrder == Spec => [](QueuesInOrder /\ QueueInv /\ QueuesExist)
<1>1. Init => QueuesInOrder /\ QueueInv /\ QueuesExist
  <2>1. Init => QueuesInOrder
    BY EmptyOrdered DEF Init, QueuesInOrder
  <2> QED
    BY <2>1, InitInv
<1>2. QueuesInOrder /\ QueueInv /\ QueuesExist /\ [Next]_vars
        => (QueuesInOrder /\ QueueInv /\ QueuesExist)'
  BY StepInv, StepInOrder
<1> QED
  BY <1>1, <1>2, PTL DEF Spec

\* Whatever is done with a mock, modifiers chained late and methods called again
\* included, no group in its queue is empty, and a MultipleTimesGroup waits only for
\* methods that it has (add_method and method_called of both groups).
THEOREM GroupsCanAlwaysBeSatisfied == Spec => []GroupsCanBeSatisfied
<1>1. QueuesInOrder => GroupsCanBeSatisfied
  BY InOrderImplies
<1> QED
  BY <1>1, AlwaysInOrder, PTL

\* A group name is used again only when something is spliced in between
\* (_check_and_create_new_group): neighbours of a queue are never one group.
THEOREM GroupsAreAlwaysMerged == Spec => []GroupsAreMerged
<1>1. QueuesInOrder => GroupsAreMerged
  BY InOrderImplies
<1> QED
  BY <1>1, AlwaysInOrder, PTL

-----------------------------------------------------------------------------
(***************************************************************************)
(* Proof that verify of a mock in fluent use passes only after every       *)
(* recorded call was made.  "Nothing is expected any more" says nothing of *)
(* the past, so the invariant follows each recorded call: until it is      *)
(* answered or a call is refused, some item of the queue owes it.          *)
(***************************************************************************)
\* An answered call leaves every other expectation in the queue.
LEMMA ServedOwed ==
  ASSUME NEW M, NEW queue \in Seq(Item(M)), NEW hits, NEW k \in DOMAIN queue,
         Reaches(queue, hits, k), NEW i \in DOMAIN queue[k].methods,
         NEW j \in DOMAIN queue, NEW m \in Owed(queue[j]), m # queue[k].methods[i]
  PROVE  LET new == Remaining(queue[k], i) \o Beyond(queue, k)
         IN  \E n \in DOMAIN new : m \in Owed(new[n])
<1>1. /\ Len(queue) \in Nat /\ DOMAIN queue = 1..Len(queue)
      /\ k \in 1..Len(queue) /\ j \in 1..Len(queue)
  BY LenProperties
<1> DEFINE rem == Remaining(queue[k], i)
           rest == Beyond(queue, k)
<1>2. queue[k] \in Item(M)
  BY <1>1, ElementOfSeq
<1>3. rem \in Seq(Item(M)) /\ Len(rem) \in Nat
  BY <1>2, RemainingType, LenProperties
<1>4. /\ rest \in Seq(Item(M)) /\ Len(rest) = Len(queue) - k
      /\ \A n \in 1..(Len(queue) - k) : rest[n] = queue[k + n]
  <2>1. \A n \in (k + 1)..Len(queue) : queue[n] \in Item(M)
    BY <1>1, ElementOfSeq
  <2> QED
    BY <1>1, <2>1, SubSeqProperties DEF Beyond
<1> HIDE DEF rem, rest
<1>5. /\ Len(rem \o rest) = Len(rem) + Len(rest) /\ rem \o rest \in Seq(Item(M))
      /\ \A n \in 1..(Len(rem) + Len(rest)) :
           (rem \o rest)[n] = IF n <= Len(rem) THEN rem[n] ELSE rest[n - Len(rem)]
  BY <1>3, <1>4, ConcatProperties
<1>6. DOMAIN (rem \o rest) = 1..(Len(rem) + Len(rest))
  BY <1>5, LenProperties
<1>7. CASE j < k
  BY <1>1, <1>7 DEF Reaches, PassedOver, Owed
<1>8. CASE j = k
  <2>1. Len(rem) = 1 /\ m \in Owed(rem[1])
    BY <1>2, <1>8, RemainingOwed DEF rem
  <2>2. 1 \in DOMAIN (rem \o rest) /\ (rem \o rest)[1] = rem[1]
    BY <1>1, <1>4, <1>5, <1>6, <2>1
  <2> QED
    BY <2>1, <2>2 DEF rem, rest
<1>9. CASE j > k
  <2>1. Len(rem) + (j - k) \in DOMAIN (rem \o rest)
    BY <1>1, <1>3, <1>4, <1>6, <1>9
  <2>2. (rem \o rest)[Len(rem) + (j - k)] = queue[j]
    <3>1. /\ Len(rem) + (j - k) \in 1..(Len(rem) + Len(rest))
          /\ ~(Len(rem) + (j - k) <= Len(rem))
          /\ Len(rem) + (j - k) - Len(rem) = j - k
          /\ j - k \in 1..(Len(queue) - k) /\ k + (j - k) = j
      BY <1>1, <1>3, <1>4, <1>9
    <3>2. (rem \o rest)[Len(rem) + (j - k)] = rest[Len(rem) + (j - k) - Len(rem)]
      <4> DEFINE n == Len(rem) + (j - k)
      <4>1. n \in 1..(Len(rem) + Len(rest)) /\ ~(n <= Len(rem))
        BY <3>1
      <4> HIDE DEF n
      <4>2. (rem \o rest)[n] = rest[n - Len(rem)]
        BY <1>5, <4>1
      <4> QED
        BY <4>2 DEF n
    <3> QED
      BY <1>4, <3>1, <3>2
  <2> QED
    BY <2>1, <2>2 DEF rem, rest
<1> QED
  BY <1>1, <1>7, <1>8, <1>9

\* A modifier chained to the call recorded last keeps every expectation.
LEMMA GroupedOwed ==
  ASSUME NEW M, IsFiniteSet(M), NEW queue \in Seq(Item(M)), queue # <<>>,
         NEW h \in M, Last(queue) = Single(h), NEW kind \in GroupKind, NEW g \in Group,
         NEW new \in Grouped(queue, h, kind, g),
         NEW j \in DOMAIN queue, NEW m \in Owed(queue[j])
  PROVE  \E n \in DOMAIN new : m \in Owed(new[n])
<1>1. Len(queue) \in Nat \ {0} /\ DOMAIN queue = 1..Len(queue)
  BY LenProperties, EmptySeq
<1> DEFINE rest == Front(queue)
<1>2. /\ rest \in Seq(Item(M)) /\ Len(rest) = Len(queue) - 1
      /\ \A n \in 1..(Len(queue) - 1) : rest[n] = queue[n]
  BY FrontProperties
<1> HIDE DEF rest
<1>3. j = Len(queue) => m = h
  BY DEF Last, Single, Owed, ToSet
<1>4. CASE JoinsGroup(rest, kind, g)
  <2>1. PICK group \in WithMethod(Last(rest), h) : new = Append(Front(rest), group)
    BY <1>4 DEF Grouped, rest
  <2>2. Len(rest) \in Nat \ {0}
    BY <1>2, <1>4, EmptySeq DEF JoinsGroup
  <2>3. Last(rest) \in Item(M) /\ Last(rest).kind \in GroupKind /\ Last(rest) = rest[Len(rest)]
    BY <1>2, <1>4, FrontType DEF JoinsGroup, IsGroup, Last
  <2>4. group \in Item(M) /\ Owed(Last(rest)) \cup {h} \subseteq Owed(group)
    BY <2>1, <2>3, WithMethodType, WithMethodOwed
  <2>5. /\ Front(rest) \in Seq(Item(M)) /\ Len(Front(rest)) = Len(rest) - 1
        /\ \A n \in 1..(Len(rest) - 1) : Front(rest)[n] = rest[n]
    BY <1>2, <1>4, FrontProperties DEF JoinsGroup
  <2>6. /\ Len(new) = Len(rest) /\ new \in Seq(Item(M))
        /\ \A n \in 1..(Len(rest) - 1) : new[n] = rest[n]
        /\ new[Len(rest)] = group
    BY <2>1, <2>2, <2>4, <2>5, AppendProperties
  <2>7. DOMAIN new = 1..Len(rest)
    BY <2>6, LenProperties
  <2>8. CASE j < Len(rest)
    <3>1. j \in 1..(Len(rest) - 1) /\ j \in 1..(Len(queue) - 1) /\ j \in DOMAIN new
      BY <1>1, <1>2, <2>2, <2>7, <2>8
    <3>2. new[j] = rest[j] /\ rest[j] = queue[j]
      BY <1>2, <2>6, <3>1
    <3> QED
      BY <3>1, <3>2
  <2>9. CASE j >= Len(rest)
    <3>1. m \in Owed(group)
      BY <1>1, <1>2, <1>3, <2>2, <2>3, <2>4, <2>9
    <3> QED
      BY <2>2, <2>6, <2>7, <3>1
  <2> QED
    BY <1>1, <2>2, <2>8, <2>9
<1>5. CASE ~JoinsGroup(rest, kind, g)
  <2>1. PICK group \in WithMethod(EmptyGroup(kind, g), h) : new = Append(rest, group)
    BY <1>5 DEF Grouped, rest
  <2>2. EmptyGroup(kind, g) \in Item(M) /\ EmptyGroup(kind, g).kind \in GroupKind
    BY EmptyGroupType DEF EmptyGroup
  <2>3. group \in Item(M) /\ h \in Owed(group)
    BY <2>1, <2>2, WithMethodType, WithMethodOwed
  <2>4. /\ Len(new) = Len(queue) /\ new \in Seq(Item(M))
        /\ \A n \in 1..(Len(queue) - 1) : new[n] = queue[n]
        /\ new[Len(queue)] = group
    <3>1. /\ new \in Seq(Item(M)) /\ Len(new) = Len(rest) + 1
          /\ \A n \in 1..Len(rest) : new[n] = rest[n]
          /\ new[Len(rest) + 1] = group
      BY <1>2, <2>1, <2>3, AppendProperties
    <3>2. Len(rest) = Len(queue) - 1 /\ Len(rest) + 1 = Len(queue)
      BY <1>1, <1>2
    <3> QED
      BY <1>2, <3>1, <3>2
  <2>5. DOMAIN new = 1..Len(queue)
    BY <2>4, LenProperties
  <2> QED
    BY <1>1, <1>3, <2>3, <2>4, <2>5
<1> QED
  BY <1>4, <1>5

-----------------------------------------------------------------------------
HistoryInv ==
  /\ QueueInv
  /\ QueuesExist
  /\ HistoryTypeOK
  /\ NoExpectationIsLost
  /\ EveryExpectedCallWasMade

\* The queue of the mock and what it owes.
LEMMA CurrentQueueType ==
  ASSUME QueueInv
  PROVE  /\ Current \in DOMAIN queues
         /\ CurrentQueue \in Seq(Item(Own(Current)))
         /\ \A k \in DOMAIN CurrentQueue : CurrentQueue[k] \in Item(Own(Current))
         /\ \A k \in DOMAIN CurrentQueue : Owed(CurrentQueue[k]) \subseteq DOMAIN methods
<1>1. Current \in DOMAIN queues
  BY LenProperties DEF QueueInv, Current
<1>2. CurrentQueue \in Seq(Item(Own(Current)))
  BY <1>1 DEF QueueInv, QueuesOwnTheirItems, CurrentQueue
<1>3. \A k \in DOMAIN CurrentQueue : CurrentQueue[k] \in Item(Own(Current))
  BY <1>2, LenProperties, ElementOfSeq
<1> QED
  BY <1>1, <1>2, <1>3, OwedType DEF Own

\* The mock works on its last queue.
LEMMA CurrentQueueReplaced ==
  ASSUME QueueInv, QueueInv', NEW queue, queues' = [queues EXCEPT ![Current] = queue]
  PROVE  CurrentQueue' = queue
<1>1. Len(queues) \in Nat \ {0} /\ DOMAIN queues = 1..Len(queues)
  BY LenProperties DEF QueueInv
<1>2. Len(queues') \in Nat \ {0} /\ DOMAIN queues' = 1..Len(queues')
  BY LenProperties DEF QueueInv
<1>3. DOMAIN queues' = DOMAIN queues
  OBVIOUS
<1>4. Len(queues') = Len(queues)
  BY <1>1, <1>2, <1>3
<1>5. queues'[Len(queues)] = queue
  BY <1>1 DEF Current
<1> QED
  BY <1>4, <1>5 DEF CurrentQueue, Current

\* Every step of a client in fluent use is a step of the mock.
LEMMA FluentIsNext == [FluentNext]_historyVars => [Next]_vars
<1>1. ASSUME NEW name \in Name, NEW args \in Args,
             FluentRecord(name, args) \/ FluentReject(name, args) \/ FluentRefuse(name, args)
      PROVE  Next
  BY <1>1 DEF FluentRecord, FluentReject, FluentRefuse, Next, FreshCall
<1>2. ASSUME NEW name \in Name, NEW args \in Args, FluentAnswer(name, args)
      PROVE  Next
  BY <1>2 DEF FluentAnswer, Next, FreshCall
<1>3. ASSUME NEW kind \in GroupKind, NEW g \in Group, FluentRegroup(kind, g)
      PROVE  Next
  BY <1>3 DEF FluentRegroup, Next, Modifier
<1>4. ASSUME FluentUnknown \/ FluentReplay \/ FluentReset \/ FluentVerify
      PROVE  Next
  BY <1>4 DEF FluentUnknown, FluentReplay, FluentReset, FluentVerify, Next
<1> QED
  BY <1>1, <1>2, <1>3, <1>4 DEF FluentNext, historyVars, vars

\* A step that leaves the methods, the queues and the histories alone.
LEMMA ExpectationsUntouched ==
  ASSUME HistoryInv, UNCHANGED <<methods, queues, recorded, answered>>,
         thrown => thrown'
  PROVE  HistoryTypeOK' /\ NoExpectationIsLost'
<1>1. HistoryTypeOK'
  BY DEF HistoryInv, HistoryTypeOK
<1>2. \A r : (WasMade(r) => WasMade(r)') /\ (IsOwed(r) => IsOwed(r)')
  BY DEF WasMade, IsOwed, CurrentQueue, Current
<1> QED
  BY <1>1, <1>2 DEF HistoryInv, NoExpectationIsLost

\* A recorded call is owed from then on.
LEMMA RecordKeeps ==
  ASSUME HistoryInv, QueueInv', NEW name \in Name, NEW args \in Args,
         FluentRecord(name, args)
  PROVE  HistoryTypeOK' /\ NoExpectationIsLost'
<1> DEFINE m == Len(methods) + 1
<1>1. /\ methods' = Append(methods, NewMethod(name, args))
      /\ queues' = [queues EXCEPT ![Current] = Append(CurrentQueue, Single(m))]
      /\ recorded' = recorded \cup {CallOf(name, args)}
      /\ UNCHANGED <<answered, thrown>>
  BY DEF FluentRecord, RecordCall, Enqueue, CurrentQueue
<1>2. CurrentQueue' = Append(CurrentQueue, Single(m))
  BY <1>1, CurrentQueueReplaced DEF HistoryInv
<1>3. /\ methods \in Seq(MockMethod) /\ Len(methods) \in Nat
      /\ DOMAIN methods = 1..Len(methods)
      /\ NewMethod(name, args) \in MockMethod
  <2>1. Current \in 1..MaxQueues /\ replaying \in BOOLEAN
    BY BoundsAssumption DEF HistoryInv, QueueInv, Current
  <2> QED
    BY <2>1, LenProperties DEF HistoryInv, QueueInv, NewMethod, MockMethod
<1>4. /\ \A n \in DOMAIN methods : methods'[n] = methods[n]
      /\ methods'[m].name = name /\ methods'[m].args = args
  BY <1>1, <1>3, AppendProperties DEF NewMethod
<1>5. /\ Single(m) \in Item({m}) /\ Owed(Single(m)) = {m}
  <2>1. ToSet(<<m>>) = {m}
    BY DEF ToSet
  <2> QED
    BY <2>1, SingleType DEF Single, Owed
<1>6. /\ CurrentQueue \in Seq(Item(Own(Current)))
      /\ \A k \in DOMAIN CurrentQueue : Owed(CurrentQueue[k]) \subseteq DOMAIN methods
      /\ Len(CurrentQueue) \in Nat /\ DOMAIN CurrentQueue = 1..Len(CurrentQueue)
  BY CurrentQueueType, LenProperties DEF HistoryInv
<1>7. /\ \A k \in DOMAIN CurrentQueue : k \in DOMAIN CurrentQueue' /\ CurrentQueue'[k] = CurrentQueue[k]
      /\ Len(CurrentQueue) + 1 \in DOMAIN CurrentQueue'
      /\ CurrentQueue'[Len(CurrentQueue) + 1] = Single(m)
  <2>1. CurrentQueue \in Seq(Item(Own(Current)) \cup Item({m}))
    BY <1>6, SeqMonotonic
  <2>2. /\ CurrentQueue' \in Seq(Item(Own(Current)) \cup Item({m}))
        /\ Len(CurrentQueue') = Len(CurrentQueue) + 1
        /\ \A k \in 1..Len(CurrentQueue) : CurrentQueue'[k] = CurrentQueue[k]
        /\ CurrentQueue'[Len(CurrentQueue) + 1] = Single(m)
    BY <1>2, <1>5, <2>1, AppendProperties
  <2>3. DOMAIN CurrentQueue' = 1..(Len(CurrentQueue) + 1)
    BY <2>2, LenProperties
  <2> QED
    BY <1>6, <2>2, <2>3
<1>8. HistoryTypeOK'
  BY <1>1 DEF HistoryInv, HistoryTypeOK, Call, CallOf
<1>9. ASSUME NEW r, IsOwed(r) PROVE IsOwed(r)'
  <2>1. PICK k \in DOMAIN CurrentQueue : \E n \in Owed(CurrentQueue[k]) :
          methods[n].name = r.name /\ methods[n].args = r.args
    BY <1>9 DEF IsOwed
  <2>2. PICK n \in Owed(CurrentQueue[k]) :
          methods[n].name = r.name /\ methods[n].args = r.args
    BY <2>1
  <2>3. k \in DOMAIN CurrentQueue' /\ CurrentQueue'[k] = CurrentQueue[k]
    BY <1>7
  <2>4. methods'[n] = methods[n]
    BY <1>4, <1>6
  <2> QED
    BY <2>2, <2>3, <2>4 DEF IsOwed, Owed
<1>10. IsOwed(CallOf(name, args))'
  <2>1. CallOf(name, args).name = name /\ CallOf(name, args).args = args
    BY DEF CallOf
  <2>2. m \in Owed(CurrentQueue'[Len(CurrentQueue) + 1])
    BY <1>5, <1>7
  <2> HIDE DEF m
  <2> QED
    BY <1>4, <1>7, <2>1, <2>2 DEF IsOwed, Owed, CallOf
<1>11. ASSUME NEW r, WasMade(r) PROVE WasMade(r)'
  BY <1>1, <1>11 DEF WasMade
<1> QED
  BY <1>1, <1>8, <1>9, <1>10, <1>11 DEF HistoryInv, NoExpectationIsLost

\* An answered call is the one its MockMethod was recorded for, or equal to it.
LEMMA HitFits ==
  ASSUME NEW name \in Name, NEW args \in Args, NEW m \in Hits(name, args),
         NEW r \in Call, methods[m].name = r.name, methods[m].args = r.args
  PROVE  Fits(r, CallOf(name, args))
<1>1. /\ methods[m].name = name
      /\ methods[m].args = args \/ args \in Matches[methods[m].args]
  BY DEF Hits, Equal
<1>2. r.name = name /\ r.args \in Args /\ (r.args = args \/ args \in Matches[r.args])
  BY <1>1 DEF Call
<1>3. args \in Matches[r.args]
  BY <1>2, ArgsAssumption
<1>4. CallOf(name, args).name = name /\ CallOf(name, args).args = args
  BY DEF CallOf
<1> QED
  BY <1>2, <1>3, <1>4 DEF Fits

\* An answered call is made, and the others stay owed.
LEMMA AnswerKeeps ==
  ASSUME HistoryInv, QueueInv', NEW name \in Name, NEW args \in Args,
         FluentAnswer(name, args)
  PROVE  HistoryTypeOK' /\ NoExpectationIsLost'
<1>1. PICK m \in DOMAIN methods : AnswerCall(name, args, m)
  BY DEF FluentAnswer
<1> DEFINE hits == Hits(name, args)
<1>2. PICK k \in DOMAIN CurrentQueue :
        /\ Reaches(CurrentQueue, hits, k)
        /\ \E i \in DOMAIN CurrentQueue[k].methods :
             /\ FirstHit(CurrentQueue[k], hits, i)
             /\ m = CurrentQueue[k].methods[i]
             /\ queues' = [queues EXCEPT
                 ![Current] = Remaining(CurrentQueue[k], i) \o Beyond(CurrentQueue, k)]
  BY <1>1 DEF AnswerCall, Serve, CurrentQueue
<1>3. PICK i \in DOMAIN CurrentQueue[k].methods :
        /\ FirstHit(CurrentQueue[k], hits, i)
        /\ m = CurrentQueue[k].methods[i]
        /\ queues' = [queues EXCEPT
             ![Current] = Remaining(CurrentQueue[k], i) \o Beyond(CurrentQueue, k)]
  BY <1>2
<1>4. CurrentQueue' = Remaining(CurrentQueue[k], i) \o Beyond(CurrentQueue, k)
  BY <1>3, CurrentQueueReplaced DEF HistoryInv
<1>5. /\ UNCHANGED <<methods, recorded, thrown>>
      /\ answered' = Append(answered, CallOf(name, args)) /\ Len(answered) < MaxCalls
      /\ m \in hits
  BY <1>1, <1>3 DEF FluentAnswer, AnswerCall, Serve, FirstHit
<1>6. /\ answered \in Seq(Call) /\ CallOf(name, args) \in Call
      /\ Len(answered) \in Nat /\ DOMAIN answered = 1..Len(answered)
  BY LenProperties DEF HistoryInv, HistoryTypeOK, Call, CallOf
<1>7. /\ answered' \in Seq(Call) /\ Len(answered') = Len(answered) + 1
      /\ DOMAIN answered' = 1..(Len(answered) + 1)
      /\ \A n \in DOMAIN answered : n \in DOMAIN answered' /\ answered'[n] = answered[n]
      /\ answered'[Len(answered) + 1] = CallOf(name, args)
  <2>1. /\ answered' \in Seq(Call) /\ Len(answered') = Len(answered) + 1
        /\ \A n \in 1..Len(answered) : answered'[n] = answered[n]
        /\ answered'[Len(answered) + 1] = CallOf(name, args)
    BY <1>5, <1>6, AppendProperties
  <2> QED
    BY <1>6, <2>1, LenProperties
<1>8. HistoryTypeOK'
  <2>1. Len(answered') <= MaxCalls
    BY <1>5, <1>6, <1>7, HistoryAssumption
  <2> QED
    BY <1>5, <1>7, <2>1 DEF HistoryInv, HistoryTypeOK
<1>9. ASSUME NEW r, WasMade(r) PROVE WasMade(r)'
  BY <1>7, <1>9 DEF WasMade, Fits
<1>10. ASSUME NEW r \in recorded, IsOwed(r) PROVE WasMade(r)' \/ IsOwed(r)'
  <2>1. PICK j \in DOMAIN CurrentQueue : \E n \in Owed(CurrentQueue[j]) :
          methods[n].name = r.name /\ methods[n].args = r.args
    BY <1>10 DEF IsOwed
  <2>2. PICK n \in Owed(CurrentQueue[j]) :
          methods[n].name = r.name /\ methods[n].args = r.args
    BY <2>1
  <2>3. CASE n = m
    <3>1. r \in Call
      BY DEF HistoryInv, HistoryTypeOK
    <3>2. Fits(r, CallOf(name, args))
      BY <1>5, <2>2, <2>3, <3>1, HitFits
    <3>3. Len(answered) + 1 \in DOMAIN answered'
      BY <1>6, <1>7
    <3> QED
      BY <1>7, <3>2, <3>3 DEF WasMade, Fits
  <2>4. CASE n # m
    <3>1. \E p \in DOMAIN CurrentQueue' : n \in Owed(CurrentQueue'[p])
      BY <1>2, <1>3, <1>4, <2>2, <2>4, CurrentQueueType, ServedOwed DEF HistoryInv
    <3> QED
      BY <1>5, <2>2, <3>1 DEF IsOwed, Owed
  <2> QED
    BY <2>3, <2>4
<1> QED
  BY <1>5, <1>8, <1>9, <1>10 DEF HistoryInv, NoExpectationIsLost

\* A refused call is remembered by the mock.
LEMMA RefuseKeeps ==
  ASSUME HistoryInv, NEW name \in Name, NEW args \in Args, FluentRefuse(name, args)
  PROVE  HistoryTypeOK' /\ NoExpectationIsLost'
<1>1. UNCHANGED <<recorded, answered>> /\ thrown' = TRUE
  BY DEF FluentRefuse, RefuseCall, Refuse
<1> QED
  BY <1>1 DEF HistoryInv, HistoryTypeOK, NoExpectationIsLost

\* A chained modifier keeps what is owed.
LEMMA RegroupKeeps ==
  ASSUME HistoryInv, QueueInv', NEW kind \in GroupKind, NEW g \in Group,
         FluentRegroup(kind, g)
  PROVE  HistoryTypeOK' /\ NoExpectationIsLost'
<1>1. PICK h \in DOMAIN methods : Last(CurrentQueue) = Single(h) /\ Regroup(h, kind, g)
  BY DEF FluentRegroup
<1>2. CurrentQueue # <<>> /\ UNCHANGED <<recorded, answered, methods, thrown>>
  BY <1>1 DEF FluentRegroup, Regroup
<1>3. h \in Own(Current) /\ IsFiniteSet(Own(Current))
  <2>1. Last(CurrentQueue) \in Item(Own(Current))
    BY <1>2, CurrentQueueType, FrontType DEF HistoryInv
  <2>2. h \in Owed(Single(h))
    BY DEF Single, Owed, ToSet
  <2>3. h \in Own(Current)
    BY <1>1, <2>1, <2>2, OwedType
  <2> QED
    BY <2>3, OwnFinite DEF HistoryInv
<1>4. PICK queue \in Grouped(CurrentQueue, h, kind, g) :
        queues' = [queues EXCEPT ![Current] = queue]
  BY <1>1, <1>3 DEF Regroup, Own, CurrentQueue
<1>5. CurrentQueue' = queue
  BY <1>4, CurrentQueueReplaced DEF HistoryInv
<1>6. ASSUME NEW r, IsOwed(r) PROVE IsOwed(r)'
  <2>1. PICK j \in DOMAIN CurrentQueue : \E n \in Owed(CurrentQueue[j]) :
          methods[n].name = r.name /\ methods[n].args = r.args
    BY <1>6 DEF IsOwed
  <2>2. PICK n \in Owed(CurrentQueue[j]) :
          methods[n].name = r.name /\ methods[n].args = r.args
    BY <2>1
  <2>3. CurrentQueue \in Seq(Item(Own(Current)))
    BY CurrentQueueType DEF HistoryInv
  <2>4. \E p \in DOMAIN queue : n \in Owed(queue[p])
    BY <1>1, <1>2, <1>3, <2>2, <2>3, GroupedOwed
  <2> QED
    BY <1>2, <1>5, <2>2, <2>4 DEF IsOwed, Owed
<1>7. HistoryTypeOK'
  BY <1>2 DEF HistoryInv, HistoryTypeOK
<1>8. ASSUME NEW r, WasMade(r) PROVE WasMade(r)'
  BY <1>2, <1>8 DEF WasMade
<1> QED
  BY <1>2, <1>6, <1>7, <1>8 DEF HistoryInv, NoExpectationIsLost

\* A reset starts new histories.
LEMMA ResetKeeps ==
  ASSUME HistoryInv, FluentReset
  PROVE  HistoryTypeOK' /\ NoExpectationIsLost'
<1>1. recorded' = {} /\ answered' = <<>>
  BY DEF FluentReset
<1>2. answered' \in Seq(Call) /\ Len(answered') = 0
  BY <1>1, EmptySeq
<1> QED
  BY <1>1, <1>2, HistoryAssumption DEF HistoryTypeOK, NoExpectationIsLost

\* A mock that expects nothing owes nothing.
LEMMA NothingExpectedOwesNothing ==
  ASSUME HistoryInv, NothingExpected
  PROVE  \A r : ~IsOwed(r)
<1>1. CASE CurrentQueue = <<>>
  <2>1. DOMAIN CurrentQueue = {}
    BY <1>1
  <2> QED
    BY <2>1 DEF IsOwed
<1>2. CASE CurrentQueue # <<>>
  <2>1. /\ Len(CurrentQueue) = 1 /\ CurrentQueue[1].kind = "multiple"
        /\ CurrentQueue[1].left = {}
    BY <1>2 DEF NothingExpected
  <2>2. DOMAIN CurrentQueue = {1}
    BY <2>1, CurrentQueueType, LenProperties DEF HistoryInv
  <2>3. Owed(CurrentQueue[1]) = {}
    BY <2>1 DEF Owed
  <2> QED
    BY <2>2, <2>3 DEF IsOwed
<1> QED
  BY <1>1, <1>2

\* Verify passes only when every recorded call was made.
LEMMA VerifyMeansMade ==
  ASSUME HistoryInv, FluentVerify
  PROVE  EveryExpectedCallWasMade'
<1>1. outcome' = "verified" => ~thrown /\ NothingExpected
  BY DEF FluentVerify, Verify
<1>2. UNCHANGED <<recorded, answered>>
  BY DEF FluentVerify
<1>3. \A r : WasMade(r) <=> WasMade(r)'
  BY <1>2 DEF WasMade
<1> QED
  BY <1>1, <1>2, <1>3, NothingExpectedOwesNothing
  DEF HistoryInv, NoExpectationIsLost, EveryExpectedCallWasMade

-----------------------------------------------------------------------------
\* The invariant holds at first.
LEMMA HistoryInitInv == HistoryInit => HistoryInv
<1> SUFFICES ASSUME HistoryInit PROVE HistoryInv
  OBVIOUS
<1>1. QueueInv /\ QueuesExist
  BY InitInv DEF HistoryInit
<1>2. answered \in Seq(Call) /\ Len(answered) = 0
  BY EmptySeq DEF HistoryInit
<1> QED
  BY <1>1, <1>2, HistoryAssumption
  DEF HistoryInit, HistoryInv, HistoryTypeOK, NoExpectationIsLost, EveryExpectedCallWasMade

\* Every step of fluent use keeps the invariant.
LEMMA HistoryStepInv == HistoryInv /\ [FluentNext]_historyVars => HistoryInv'
<1> SUFFICES ASSUME HistoryInv, [FluentNext]_historyVars PROVE HistoryInv'
  OBVIOUS
<1>1. QueueInv' /\ QueuesExist'
  BY FluentIsNext, StepInv DEF HistoryInv
<1>2. ASSUME NEW name \in Name, NEW args \in Args, FluentRecord(name, args)
      PROVE  HistoryInv'
  <2>1. outcome' # "verified"
    BY <1>2 DEF FluentRecord, RecordCall, Enqueue
  <2> QED
    BY <1>1, <1>2, <2>1, RecordKeeps DEF HistoryInv, EveryExpectedCallWasMade
<1>3. ASSUME NEW name \in Name, NEW args \in Args, FluentReject(name, args)
      PROVE  HistoryInv'
  <2>1. outcome' # "verified" /\ UNCHANGED <<methods, queues, thrown, recorded, answered>>
    BY <1>3 DEF FluentReject, RejectCall
  <2> QED
    BY <1>1, <2>1, ExpectationsUntouched DEF HistoryInv, EveryExpectedCallWasMade
<1>4. ASSUME NEW name \in Name, NEW args \in Args, FluentAnswer(name, args)
      PROVE  HistoryInv'
  <2>1. outcome' # "verified"
    BY <1>4 DEF FluentAnswer, AnswerCall, Serve
  <2> QED
    BY <1>1, <1>4, <2>1, AnswerKeeps DEF HistoryInv, EveryExpectedCallWasMade
<1>5. ASSUME NEW name \in Name, NEW args \in Args, FluentRefuse(name, args)
      PROVE  HistoryInv'
  <2>1. outcome' # "verified"
    BY <1>5 DEF FluentRefuse, RefuseCall, Refuse
  <2> QED
    BY <1>1, <1>5, <2>1, RefuseKeeps DEF HistoryInv, EveryExpectedCallWasMade
<1>6. ASSUME NEW kind \in GroupKind, NEW g \in Group, FluentRegroup(kind, g)
      PROVE  HistoryInv'
  <2>1. outcome' # "verified"
    BY <1>6 DEF FluentRegroup, Regroup
  <2> QED
    BY <1>1, <1>6, <2>1, RegroupKeeps DEF HistoryInv, EveryExpectedCallWasMade
<1>7. CASE FluentReplay
  <2>1. outcome' # "verified" /\ UNCHANGED <<methods, queues, thrown, recorded, answered>>
    BY <1>7 DEF FluentReplay, Replay
  <2> QED
    BY <1>1, <2>1, ExpectationsUntouched DEF HistoryInv, EveryExpectedCallWasMade
<1>8. CASE FluentReset
  <2>1. outcome' # "verified"
    BY <1>8 DEF FluentReset, Reset
  <2> QED
    BY <1>1, <1>8, <2>1, ResetKeeps DEF HistoryInv, EveryExpectedCallWasMade
<1>9. CASE FluentVerify
  <2>1. UNCHANGED <<methods, queues, thrown, recorded, answered>>
    BY <1>9 DEF FluentVerify, Verify
  <2> QED
    BY <1>1, <1>9, <2>1, ExpectationsUntouched, VerifyMeansMade DEF HistoryInv
<1>10. CASE FluentUnknown
  <2>1. /\ outcome' # "verified" /\ thrown' = TRUE
        /\ UNCHANGED <<recorded, answered>>
    BY <1>10 DEF FluentUnknown, AccessUnknown
  <2> QED
    BY <1>1, <2>1 DEF HistoryInv, HistoryTypeOK, NoExpectationIsLost, EveryExpectedCallWasMade
<1>11. CASE UNCHANGED historyVars
  <2>1. UNCHANGED <<methods, queues, thrown, outcome, recorded, answered>>
    BY <1>11 DEF historyVars
  <2>2. EveryExpectedCallWasMade'
    BY <2>1 DEF HistoryInv, EveryExpectedCallWasMade, WasMade
  <2> QED
    BY <1>1, <2>1, <2>2, ExpectationsUntouched DEF HistoryInv
<1> QED
  BY <1>2, <1>3, <1>4, <1>5, <1>6, <1>7, <1>8, <1>9, <1>10, <1>11 DEF FluentNext

\* In fluent use the mock drops no expectation on the way through its queue and
\* groups (method_called, _pop_next_method, get_possible_group): each recorded
\* call was made or is owed, for any names, arguments, comparators and bounds.
THEOREM NoExpectationIsEverLost == FluentSpec => []NoExpectationIsLost
<1>1. HistoryInv => NoExpectationIsLost
  BY DEF HistoryInv
<1> QED
  BY HistoryInitInv, HistoryStepInv, <1>1, PTL DEF FluentSpec

\* In fluent use verify (MockAnything._verify) passes only when every recorded
\* call was made, as the module documentation of mox.py promises.
THEOREM VerifyIsSound == FluentSpec => []EveryExpectedCallWasMade
<1>1. HistoryInv => EveryExpectedCallWasMade
  BY DEF HistoryInv
<1> QED
  BY HistoryInitInv, HistoryStepInv, <1>1, PTL DEF FluentSpec

=============================================================================
