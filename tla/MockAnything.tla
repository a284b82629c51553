---------------------------- MODULE MockAnything ----------------------------
(***************************************************************************)
(* One mock (MockAnything, and the MockObject built on it) with the        *)
(* MockMethods it hands out: record, replay, verify and reset.             *)
(*                                                                         *)
(* Every attribute access on the mock creates a MockMethod that takes the  *)
(* mock's current queue and its current mode with it (_create_mock_method).*)
(* Most clients call the MockMethod at once; one that keeps it (f = m.foo) *)
(* can call it again, after the mock was put in replay mode or reset, and  *)
(* it still works on the queue and in the mode it was created with.        *)
(***************************************************************************)
EXTENDS MethodGroups

CONSTANTS Name,       \* method names
          Args,       \* argument lists: literal values or comparators
          NoArgs,     \* the arguments of a MockMethod that was not called yet
          Matches,    \* Matches[a]: the argument lists that a is equal to
          Legal,      \* the calls that the method's signature accepts
          OfClass,    \* whether the mock is a MockObject, which knows its methods
          MaxMethods, \* bound on the MockMethods created
          MaxQueues,  \* bound on the queues: MaxQueues - 1 resets
          MaxItems    \* bound on the expected calls in a queue

\* Arguments are compared as tuples: an object is equal to itself, and beyond
\* that a comparator decides.
ASSUME ArgsAssumption ==
  /\ NoArgs \notin Args
  /\ Matches \in [Args -> SUBSET Args]
  /\ \A a \in Args : a \in Matches[a]

ASSUME CallAssumption ==
  Legal \subseteq Name \X Args /\ OfClass \in BOOLEAN

ASSUME BoundsAssumption ==
  MaxMethods \in Nat /\ MaxQueues \in Nat \ {0} /\ MaxItems \in Nat

VARIABLES methods,   \* the MockMethods, by order of creation
          queues,    \* the queues; the last is the mock's _expected_calls_queue
          replaying, \* _replay_mode
          thrown,    \* _exceptions_thrown is not empty
          outcome    \* what the last operation returned or raised

vars == <<methods, queues, replaying, thrown, outcome>>

MethodIds == 1..MaxMethods

MockMethod == [name : Name, args : Args \cup {NoArgs},
               replaying : BOOLEAN, queue : 1..MaxQueues]

Outcome == {"none", "recorded", "returned", "verified",
            "AttributeError", "IndexError", "Error",
            "UnexpectedMethodCallError", "UnknownMethodCallError",
            "ExpectedMethodCallsError", "SwallowedExceptionError"}

Current == Len(queues)
CurrentQueue == queues[Current]

\* MockMethod.__eq__ with the recorded method on the left.
Equal(m, name, args) ==
  /\ methods[m].name = name
  /\ \/ methods[m].args = args
     \/ methods[m].args # NoArgs /\ args # NoArgs /\ args \in Matches[methods[m].args]

-----------------------------------------------------------------------------
Init ==
  /\ methods = <<>>
  /\ queues = << <<>> >>
  /\ replaying = FALSE
  /\ thrown = FALSE
  /\ outcome = "none"

\* The mutated forms of a definition stand before it.
MockMethodBehind(name, args) ==
  [name |-> name, args |-> args, replaying |-> replaying, queue |-> Current - 1]

SharedMockMethod(name, args) ==
  [name |-> name, args |-> args, replaying |-> replaying, queue |-> 1]

\* __getattr__ and _create_mock_method.
NewMethod(name, args) ==
  [name |-> name, args |-> args, replaying |-> replaying, queue |-> Current]

ExpectedCalls(queue) ==
  FoldLeft(LAMBDA n, item : n + Len(item.methods), 0, queue)

Enqueue(g, m) ==
  /\ ExpectedCalls(queues[g]) < MaxItems
  /\ queues' = [queues EXCEPT ![g] = Append(@, Single(m))]
  /\ outcome' = "recorded"

\* A call in replay mode takes elements off the queue until one does not give
\* way to the next: the k-th, or none when k is beyond the end.
Reaches(queue, hits, k) ==
  /\ \A j \in 1..(k - 1) : PassedOver(queue[j], hits)
  /\ k \in DOMAIN queue => ~PassedOver(queue[k], hits)

Beyond(queue, k) == SubSeq(queue, k + 1, Len(queue))

\* The call is answered by method m; groups passed over are gone.
Serve(g, hits, m) ==
  \E k \in DOMAIN queues[g] :
    /\ Reaches(queues[g], hits, k)
    /\ \E i \in DOMAIN queues[g][k].methods :
         /\ FirstHit(queues[g][k], hits, i)
         /\ m = queues[g][k].methods[i]
         /\ queues' = [queues EXCEPT
                         ![g] = Remaining(queues[g][k], i) \o Beyond(queues[g], k)]
    /\ outcome' = "returned"
    /\ UNCHANGED thrown

\* The call is unexpected.  The element it was compared with is gone too, and
\* the exception is kept for verify.
Refuse(g, hits) ==
  \E k \in 1..(Len(queues[g]) + 1) :
    /\ Reaches(queues[g], hits, k)
    /\ k \in DOMAIN queues[g] => NoHit(queues[g][k], hits)
    /\ queues' = [queues EXCEPT ![g] = Beyond(queues[g], k)]
    /\ outcome' = "UnexpectedMethodCallError"
    /\ thrown' = TRUE

-----------------------------------------------------------------------------
(***************************************************************************)
(* m.name(args): a MockMethod is created and called at once.               *)
(***************************************************************************)
Hits(name, args) == {m \in DOMAIN methods : Equal(m, name, args)}

RecordCall(name, args) ==
  /\ ~replaying
  /\ <<name, args>> \in Legal
  /\ Len(methods) < MaxMethods
  /\ methods' = Append(methods, NewMethod(name, args))
  /\ Enqueue(Current, Len(methods) + 1)
  /\ UNCHANGED <<replaying, thrown>>

\* The signature checker turns a recorded call down; replayed calls are not
\* checked.
RejectCall(name, args) ==
  /\ ~replaying
  /\ <<name, args>> \notin Legal
  /\ outcome' = "AttributeError"
  /\ UNCHANGED <<methods, queues, replaying, thrown>>

AnswerCall(name, args, m) ==
  /\ replaying
  /\ Serve(Current, Hits(name, args), m)
  /\ UNCHANGED <<methods, replaying>>

RefuseCall(name, args) ==
  /\ replaying
  /\ Refuse(Current, Hits(name, args))
  /\ UNCHANGED <<methods, replaying>>

\* An attribute that the class of a MockObject does not have; the exception is kept
\* for verify in record mode, too.
AccessUnknown ==
  /\ OfClass
  /\ outcome' = "UnknownMethodCallError"
  /\ thrown' = TRUE
  /\ UNCHANGED <<methods, queues, replaying>>

(***************************************************************************)
(* f = m.name, and later f(args) in the mode and on the queue of f.  The   *)
(* arguments are stored before anything is checked, so every place of f in *)
(* a queue changes with them.                                              *)
(***************************************************************************)
Hold(name) ==
  /\ Len(methods) < MaxMethods
  /\ methods' = Append(methods, NewMethod(name, NoArgs))
  /\ outcome' = "none"
  /\ UNCHANGED <<queues, replaying, thrown>>

WithParams(h, args) == [methods EXCEPT ![h].args = args]

HeldHits(h, args) ==
  {m \in DOMAIN methods : m = h \/ Equal(m, methods[h].name, args)}

RecordHeld(h, args) ==
  /\ ~methods[h].replaying
  /\ <<methods[h].name, args>> \in Legal
  /\ methods' = WithParams(h, args)
  /\ Enqueue(methods[h].queue, h)
  /\ UNCHANGED <<replaying, thrown>>

RejectHeld(h, args) ==
  /\ ~methods[h].replaying
  /\ <<methods[h].name, args>> \notin Legal
  /\ methods' = WithParams(h, args)
  /\ outcome' = "AttributeError"
  /\ UNCHANGED <<queues, replaying, thrown>>

AnswerHeld(h, args, m) ==
  /\ methods[h].replaying
  /\ methods' = WithParams(h, args)
  /\ Serve(methods[h].queue, HeldHits(h, args), m)
  /\ UNCHANGED replaying

RefuseHeld(h, args) ==
  /\ methods[h].replaying
  /\ methods' = WithParams(h, args)
  /\ Refuse(methods[h].queue, HeldHits(h, args))
  /\ UNCHANGED replaying

-----------------------------------------------------------------------------
(***************************************************************************)
(* any_order(g) and multiple_times(g) on a MockMethod h, in record or in   *)
(* replay mode: h is taken off the end of its queue and put into a group.  *)
(***************************************************************************)
IsTail(h, queue) ==
  /\ Last(queue).kind = "method"
  /\ Equal(Last(queue).methods[1], methods[h].name, methods[h].args)

JoinsNoGroup(queue, kind, g) == FALSE

JoinsAnyGroup(queue, kind, g) ==
  queue # <<>> /\ Last(queue).kind = kind

\* The method joins the group at the end of the queue.
JoinsGroup(queue, kind, g) ==
  queue # <<>> /\ IsGroup(Last(queue), kind, g)

\* The queue without its last element, with h in the group that ends it.
Grouped(queue, h, kind, g) ==
  LET rest == Front(queue) IN
    IF JoinsGroup(rest, kind, g)
    THEN {Append(Front(rest), group) : group \in WithMethod(Last(rest), h)}
    ELSE {Append(rest, group) : group \in WithMethod(EmptyGroup(kind, g), h)}

Regroup(h, kind, g) ==
  /\ queues[methods[h].queue] # <<>>
  /\ IsTail(h, queues[methods[h].queue])
  /\ \E queue \in Grouped(queues[methods[h].queue], h, kind, g) :
        queues' = [queues EXCEPT ![methods[h].queue] = queue]
  /\ outcome' = "recorded"
  /\ UNCHANGED <<methods, replaying, thrown>>

\* The tail is something else: it is gone by the time the Error is raised, and
\* the Error is not kept for verify.
RegroupNotAtTail(h) ==
  /\ queues[methods[h].queue] # <<>>
  /\ ~IsTail(h, queues[methods[h].queue])
  /\ queues' = [queues EXCEPT ![methods[h].queue] = Front(@)]
  /\ outcome' = "Error"
  /\ UNCHANGED <<methods, replaying, thrown>>

RegroupOnEmpty(h) ==
  /\ queues[methods[h].queue] = <<>>
  /\ outcome' = "IndexError"
  /\ UNCHANGED <<methods, queues, replaying, thrown>>

-----------------------------------------------------------------------------
Replay ==
  /\ replaying' = TRUE
  /\ outcome' = "none"
  /\ UNCHANGED <<methods, queues, thrown>>

ResetForgetting ==
  /\ Len(queues) < MaxQueues
  /\ queues' = Append(queues, <<>>)
  /\ replaying' = FALSE
  /\ thrown' = FALSE
  /\ outcome' = "none"
  /\ UNCHANGED methods

\* _reset gives the mock a new queue; _exceptions_thrown stays as it is.
Reset ==
  /\ Len(queues) < MaxQueues
  /\ queues' = Append(queues, <<>>)
  /\ replaying' = FALSE
  /\ outcome' = "none"
  /\ UNCHANGED <<methods, thrown>>

NothingExpectedUnsatisfied ==
  \/ CurrentQueue = <<>>
  \/ Len(CurrentQueue) = 1 /\ CurrentQueue[1].kind = "multiple"

\* Nothing is expected any more: a satisfied MultipleTimesGroup is not taken
\* off the queue by the last call and may stay.
NothingExpected ==
  \/ CurrentQueue = <<>>
  \/ /\ Len(CurrentQueue) = 1
     /\ CurrentQueue[1].kind = "multiple"
     /\ CurrentQueue[1].left = {}

Verify ==
  /\ outcome' = IF thrown THEN "SwallowedExceptionError"
                ELSE IF NothingExpected THEN "verified"
                ELSE "ExpectedMethodCallsError"
  /\ UNCHANGED <<methods, queues, replaying, thrown>>

-----------------------------------------------------------------------------
FreshCall ==
  \E name \in Name, args \in Args :
    \/ RecordCall(name, args)
    \/ RejectCall(name, args)
    \/ \E m \in DOMAIN methods : AnswerCall(name, args, m)
    \/ RefuseCall(name, args)

HeldCall ==
  \E h \in DOMAIN methods, args \in Args :
    \/ RecordHeld(h, args)
    \/ RejectHeld(h, args)
    \/ \E m \in DOMAIN methods : AnswerHeld(h, args, m)
    \/ RefuseHeld(h, args)

Modifier ==
  \E h \in DOMAIN methods :
    \/ \E kind \in GroupKind, g \in Group : Regroup(h, kind, g)
    \/ RegroupNotAtTail(h)
    \/ RegroupOnEmpty(h)

Next ==
  \/ FreshCall
  \/ AccessUnknown
  \/ \E name \in Name : Hold(name)
  \/ HeldCall
  \/ Modifier
  \/ Replay
  \/ Reset
  \/ Verify

Spec == Init /\ [][Next]_vars

-----------------------------------------------------------------------------
\* Type correctness.
TypeOK ==
  /\ methods \in Seq(MockMethod) /\ Len(methods) <= MaxMethods
  /\ queues \in Seq(Seq(Item(MethodIds))) /\ Len(queues) \in 1..MaxQueues
  /\ replaying \in BOOLEAN
  /\ thrown \in BOOLEAN
  /\ outcome \in Outcome

\* A reset separates what was recorded before it from what is recorded after
\* it: whatever is done with a MockMethod kept from before, the queue of the
\* mock holds only MockMethods that were created for that very queue.
QueuesStayApart ==
  \A g \in DOMAIN queues : \A k \in DOMAIN queues[g] :
    \A m \in ToSet(queues[g][k].methods) : m \in DOMAIN methods /\ methods[m].queue = g

\* A queue holds no group that lost its last method (every call that reaches it
\* would fail), and a MultipleTimesGroup waits only for methods it can answer
\* with (otherwise it could never be satisfied).
GroupsCanBeSatisfied ==
  \A g \in DOMAIN queues : \A k \in DOMAIN queues[g] :
    /\ queues[g][k].methods # <<>>
    /\ queues[g][k].left \subseteq ToSet(queues[g][k].methods)

\* A group name is used again only when something is spliced in between (the
\* docstring of any_order): no two neighbours of a queue are one group.
GroupsAreMerged ==
  \A g \in DOMAIN queues : \A k \in 2..Len(queues[g]) :
    queues[g][k].kind \in GroupKind =>
      ~IsGroup(queues[g][k - 1], queues[g][k].kind, queues[g][k].name)

\* Once a call was refused, or an attribute the class does not have was asked for, no
\* verify passes any more, even when the code under test swallowed the exception, and
\* even after a reset.
RefusalResurfaces ==
  [](outcome \in {"UnexpectedMethodCallError", "UnknownMethodCallError"} =>
       [](outcome # "verified"))

=============================================================================
