----------------------------- MODULE MoxRegistry -----------------------------
(***************************************************************************)
(* Mox instances, the mocks and stubs they make, and the registry that     *)
(* _MoxManagerMeta keeps of them.                                          *)
(*                                                                         *)
(* A Mox is identified by its address, as in the registry (id(instance)):  *)
(* the address of a Mox that was deleted may be given to a new one.  A     *)
(* stubbed attribute is a slot that its object defines itself; what a slot *)
(* holds is the original or a mock.  Of the calls a mock expects only the  *)
(* number is kept, see MockAnything for the rest.                          *)
(***************************************************************************)
EXTENDS Naturals, SequencesExt

CONSTANTS Address,       \* where Mox instances are
          Slot,          \* the attributes that are stubbed
          ClassSlot,     \* those that hold a class
          Original,      \* what a slot holds when it is not stubbed
          NoMox,         \* what a mock remembers that was made without a Mox
          OverFactories, \* whether clients stub a slot that holds a factory
          MaxMocks,      \* bound on the mocks created
          MaxOwed        \* bound on the calls a mock expects

ASSUME SlotAssumption == ClassSlot \subseteq Slot

ASSUME BoundsAssumption ==
  MaxMocks \in Nat /\ MaxOwed \in Nat /\ Original \notin 1..MaxMocks

ASSUME MoxAssumption == NoMox \notin Address

ASSUME ClientAssumption == OverFactories \in BOOLEAN

VARIABLES moxes,    \* moxes[a]: the _mock_objects and the undo log of the Mox at a
          registry, \* _instances: the addresses in the order of their insertion
          held,     \* the addresses of the Mox instances that clients refer to
          mocks,    \* the mocks, by order of creation
          slots,    \* what the slots hold
          raised    \* the exception of the last operation

vars == <<moxes, registry, held, mocks, slots, raised>>

MockIds == 1..MaxMocks

Mox == [mocks : Seq(MockIds), log : Seq([slot : Slot, old : MockIds \cup {Original}])]

\* _MockObjectFactory is made by stubout_class only, MockAnything and MockObject by
\* clients too.
Mock == {m \in [mox       : Address \cup {NoMox},
                kind      : {"object", "anything", "factory"},
                replaying : BOOLEAN,
                owed      : 0..MaxOwed,
                thrown    : BOOLEAN,
                instances : Seq(MockIds)] :
           m.kind = "factory" => m.mox \in Address}

EmptyMox == [mocks |-> <<>>, log |-> <<>>]

NewMock(a, kind) == [mox |-> a, kind |-> kind, replaying |-> FALSE, owed |-> 0,
                     thrown |-> FALSE, instances |-> <<>>]

Registered == ToSet(registry)

\* The mutated forms of a definition stand before it.
TrackedNever(a) == registry

\* track(a); a Mox that is registered keeps its place.
Tracked(a) == IF a \in Registered THEN registry ELSE Append(registry, a)

Untracked(a) ==
  IF a \in Registered
  THEN RemoveAt(registry, CHOOSE n \in DOMAIN registry : registry[n] = a)
  ELSE registry

-----------------------------------------------------------------------------
\* The positions of a slot in an undo log.
Places(log, s) == {i \in DOMAIN log : log[i].slot = s}

Least(numbers) == CHOOSE n \in numbers : \A k \in numbers : n <= k

Greatest(numbers) == CHOOSE n \in numbers : \A k \in numbers : k <= n

\* Logs are undone one after another, each from its end: a slot holds in the end
\* what the first entry for it in the last log with an entry for it says.
Undone(contents, logs) ==
  [s \in Slot |->
    LET touched == {n \in DOMAIN logs : Places(logs[n], s) # {}}
        log == logs[Greatest(touched)]
    IN IF touched = {} THEN contents[s] ELSE log[Least(Places(log, s))].old]

Logs(addresses) == [n \in DOMAIN addresses |-> moxes[addresses[n]].log]

\* The slots when the stubs of the Mox instances at these addresses are unset.
Unset(addresses) == Undone(slots, Logs(addresses))

LogsNotEmptied(addresses) == moxes

WithoutLogs(addresses) ==
  [a \in Address |-> IF a \in ToSet(addresses) THEN [moxes[a] EXCEPT !.log = <<>>]
                     ELSE moxes[a]]

-----------------------------------------------------------------------------
Init ==
  /\ moxes = [a \in Address |-> EmptyMox]
  /\ registry = <<>>
  /\ held = {}
  /\ mocks = <<>>
  /\ slots = [s \in Slot |-> Original]
  /\ raised = "none"

\* A factory refers to its Mox: while a slot or a log holds it the Mox lives on.
KeepsAlive(a, content) ==
  content \in DOMAIN mocks /\ mocks[content].kind = "factory" /\ mocks[content].mox = a

Referenced(a) ==
  \/ a \in held \cup Registered
  \/ \E s \in Slot : KeepsAlive(a, slots[s])
  \/ \E b \in Address : \E i \in DOMAIN moxes[b].log : KeepsAlive(a, moxes[b].log[i].old)

\* A Mox that nothing refers to is deleted, and StubOutForTesting.__del__ restores
\* what it stubbed.
Collectable(a) == ~Referenced(a) /\ moxes[a] # EmptyMox

Collect(a) ==
  /\ Collectable(a)
  /\ slots' = Unset(<<a>>)
  /\ moxes' = [moxes EXCEPT ![a] = EmptyMox]
  /\ raised' = "none"
  /\ UNCHANGED <<registry, held, mocks>>

\* Mox(), at an address that is free.
NewMox(a) ==
  /\ ~Referenced(a)
  /\ moxes[a] = EmptyMox
  /\ registry' = Append(registry, a)
  /\ held' = held \cup {a}
  /\ raised' = "none"
  /\ UNCHANGED <<moxes, mocks, slots>>

\* The Mox at a makes a mock.
MakeMock(a, kind) ==
  /\ Len(mocks) < MaxMocks
  /\ mocks' = Append(mocks, NewMock(a, kind))
  /\ moxes' = [moxes EXCEPT ![a].mocks = Append(@, Len(mocks) + 1)]
  /\ raised' = "none"
  /\ UNCHANGED slots

CreateMock(a, kind) == MakeMock(a, kind) /\ UNCHANGED <<registry, held>>

-----------------------------------------------------------------------------
HoldsKind(s, kinds) == slots[s] \in DOMAIN mocks /\ mocks[slots[s]].kind \in kinds

StubbableOverMocks(s, kind) == kind = "factory" => s \in ClassSlot

\* What stubout and stubout_class agree to replace.  The check for a mock compares
\* types and does not know a factory; a factory is not a class.
Stubbable(s, kind) ==
  /\ ~HoldsKind(s, {"object", "anything"})
  /\ kind = "factory" => s \in ClassSlot /\ ~HoldsKind(s, {"factory"})

\* An attribute is replaced by a mock, and logged.
Replace(a, s, kind) ==
  /\ Stubbable(s, kind)
  /\ OverFactories \/ ~HoldsKind(s, {"factory"})
  /\ Len(mocks) < MaxMocks
  /\ mocks' = Append(mocks, NewMock(a, kind))
  /\ moxes' = [moxes EXCEPT ![a].mocks = Append(@, Len(mocks) + 1),
                            ![a].log = Append(@, [slot |-> s, old |-> slots[s]])]
  /\ slots' = [slots EXCEPT ![s] = Len(mocks) + 1]
  /\ raised' = "none"

\* stubout (kind "object" or "anything") and stubout_class (kind "factory").
Stubout(a, s, kind) == Replace(a, s, kind) /\ UNCHANGED <<registry, held>>

StuboutTurnedDown(s, kind) ==
  /\ ~Stubbable(s, kind)
  /\ raised' = "TypeError"
  /\ UNCHANGED <<moxes, registry, held, mocks, slots>>

UnsetStubs(a) ==
  /\ slots' = Unset(<<a>>)
  /\ moxes' = WithoutLogs(<<a>>)
  /\ raised' = "none"
  /\ UNCHANGED <<registry, held, mocks>>

-----------------------------------------------------------------------------
\* A mock is called by the client that made it, and by the code under test through
\* the slot it is in.
Usable(k) ==
  \/ \E s \in Slot : slots[s] = k
  \/ mocks[k].mox \in held /\ k \in ToSet(moxes[mocks[k].mox].mocks)

\* unset_stubs_for_id with the address that the mock remembers.
UnsetStubsForId(k) ==
  IF mocks[k].kind = "object" /\ mocks[k].mox \in Registered
  THEN /\ slots' = Unset(<<mocks[k].mox>>)
       /\ moxes' = WithoutLogs(<<mocks[k].mox>>)
  ELSE UNCHANGED <<slots, moxes>>

\* MockObject.__call__ unsets stubs when the call raises; a call of one of the
\* methods of the mock does not pass through it.
CallRaises(k, exception) ==
  /\ raised' = exception
  /\ UnsetStubsForId(k) \/ UNCHANGED <<slots, moxes>>

\* The class has no such attribute; the exception is kept for verify.
AccessUnknown(k) ==
  /\ mocks[k].kind # "anything"
  /\ mocks' = [mocks EXCEPT ![k].thrown = TRUE]
  /\ raised' = "Error"
  /\ UNCHANGED <<moxes, registry, held, slots>>

Record(k) ==
  /\ ~mocks[k].replaying
  /\ mocks[k].kind # "factory"
  /\ mocks[k].owed < MaxOwed
  /\ mocks' = [mocks EXCEPT ![k].owed = @ + 1]
  /\ raised' = "none"
  /\ UNCHANGED <<moxes, registry, held, slots>>

\* A call to a factory is recorded together with the instance it makes.
RecordInstance(k) ==
  /\ ~mocks[k].replaying
  /\ mocks[k].kind = "factory"
  /\ mocks[k].owed < MaxOwed
  /\ Len(mocks) < MaxMocks
  /\ mocks' = Append([mocks EXCEPT ![k].owed = @ + 1,
                                   ![k].instances = Append(@, Len(mocks) + 1)],
                     NewMock(mocks[k].mox, "object"))
  /\ moxes' = [moxes EXCEPT ![mocks[k].mox].mocks = Append(@, Len(mocks) + 1)]
  /\ raised' = "none"
  /\ UNCHANGED <<registry, held, slots>>

\* The signature checker turns a recorded call down.
RecordTurnedDown(k) ==
  /\ ~mocks[k].replaying
  /\ mocks[k].kind # "anything"
  /\ CallRaises(k, "AttributeError")
  /\ UNCHANGED <<registry, held, mocks>>

ExpectedWhateverOwed(k) == mocks[k].kind = "factory" => mocks[k].instances # <<>>

Expected(k) ==
  mocks[k].owed > 0 /\ (mocks[k].kind = "factory" => mocks[k].instances # <<>>)

\* An expected call, which returns or raises what was recorded for it.  Recording a
\* creation returns the instance, so no exception can be recorded for it.
Answer(k, raises) ==
  /\ mocks[k].replaying
  /\ raises => mocks[k].kind # "factory"
  /\ Expected(k)
  /\ mocks' = [mocks EXCEPT ![k].owed = @ - 1,
                            ![k].instances = IF mocks[k].kind = "factory" THEN Tail(@) ELSE @]
  /\ IF raises
     THEN CallRaises(k, "AttributeError")
     ELSE raised' = "none" /\ UNCHANGED <<slots, moxes>>
  /\ UNCHANGED <<registry, held>>

\* Any other call; the expected call it is compared with, if there is one, is gone.
Refuse(k) ==
  /\ mocks[k].replaying
  /\ mocks' = [mocks EXCEPT ![k].thrown = TRUE,
                            ![k].owed = IF Expected(k) THEN @ - 1 ELSE @]
  /\ CallRaises(k, "Error")
  /\ UNCHANGED <<registry, held>>

-----------------------------------------------------------------------------
MocksOf(a) == ToSet(moxes[a].mocks)

\* A factory puts the instances that are still to be handed out in replay mode too.
WithInstances(ids) == ids \cup UNION {ToSet(mocks[k].instances) : k \in ids}

Replayed(ids) ==
  LET all == WithInstances(ids)
  IN [k \in DOMAIN mocks |-> IF k \in all THEN [mocks[k] EXCEPT !.replaying = TRUE]
                             ELSE mocks[k]]

AfterResetOfInstances(ids) ==
  [k \in DOMAIN mocks |-> IF k \in ids
                          THEN [mocks[k] EXCEPT !.replaying = FALSE, !.instances = <<>>]
                          ELSE mocks[k]]

\* A reset empties the queue of expected calls, and neither the instances of a
\* factory nor what a mock has thrown.
AfterReset(ids) ==
  [k \in DOMAIN mocks |-> IF k \in ids
                          THEN [mocks[k] EXCEPT !.replaying = FALSE, !.owed = 0]
                          ELSE mocks[k]]

\* _verify raises.
Unmet(k) == mocks[k].owed > 0 \/ mocks[k].thrown \/ mocks[k].instances # <<>>

ReplayAll(a) ==
  /\ mocks' = Replayed(MocksOf(a))
  /\ raised' = "none"
  /\ UNCHANGED <<moxes, registry, held, slots>>

GlobalReplay ==
  /\ mocks' = Replayed(UNION {MocksOf(a) : a \in Registered})
  /\ raised' = "none"
  /\ UNCHANGED <<moxes, registry, held, slots>>

ResetAll(a) ==
  /\ mocks' = AfterReset(MocksOf(a))
  /\ raised' = "none"
  /\ UNCHANGED <<moxes, registry, held, slots>>

Fulfilled(a) == \A k \in MocksOf(a) : ~Unmet(k)

VerifyAll(a) ==
  /\ IF Fulfilled(a)
     THEN raised' = "none" /\ UNCHANGED <<moxes, slots>>
     ELSE /\ raised' = "Error"
          /\ slots' = Unset(<<a>>)
          /\ moxes' = WithoutLogs(<<a>>)
  /\ UNCHANGED <<registry, held, mocks>>

\* The first verify_all that raises is the last.
GlobalVerify ==
  \/ /\ \A a \in Registered : Fulfilled(a)
     /\ raised' = "none"
     /\ UNCHANGED <<moxes, registry, held, mocks, slots>>
  \/ \E n \in DOMAIN registry :
       /\ \A i \in 1..(n - 1) : Fulfilled(registry[i])
       /\ ~Fulfilled(registry[n])
       /\ VerifyAll(registry[n])

\* mox.replay, mox.reset and mox.verify of single mocks.
Replay(k) ==
  /\ mocks' = Replayed({k})
  /\ raised' = "none"
  /\ UNCHANGED <<moxes, registry, held, slots>>

Reset(k) ==
  /\ mocks' = AfterReset({k})
  /\ raised' = "none"
  /\ UNCHANGED <<moxes, registry, held, slots>>

Verify(k) ==
  /\ raised' = IF Unmet(k) THEN "Error" ELSE "none"
  /\ UNCHANGED <<moxes, registry, held, mocks, slots>>

GlobalUnsetStubs ==
  /\ slots' = Unset(registry)
  /\ moxes' = WithoutLogs(registry)
  /\ raised' = "none"
  /\ UNCHANGED <<registry, held, mocks>>

Forget(a) ==
  /\ registry' = Untracked(a)
  /\ raised' = "none"
  /\ UNCHANGED <<moxes, held, mocks, slots>>

WithoutMocks(addresses) ==
  [a \in Address |-> IF a \in addresses THEN [moxes[a] EXCEPT !.mocks = <<>>]
                     ELSE moxes[a]]

ResetInstances ==
  /\ moxes' = WithoutMocks(Registered)
  /\ registry' = <<>>
  /\ raised' = "none"
  /\ UNCHANGED <<held, mocks, slots>>

\* The client drops its reference.
Release(a) ==
  /\ held' = held \ {a}
  /\ raised' = "none"
  /\ UNCHANGED <<moxes, registry, mocks, slots>>

-----------------------------------------------------------------------------
StuboutKind == {"object", "anything", "factory"}

MoxCall(a) ==
  \/ \E kind \in {"object", "anything"} : CreateMock(a, kind)
  \/ \E s \in Slot, kind \in StuboutKind : Stubout(a, s, kind) \/ StuboutTurnedDown(s, kind)
  \/ UnsetStubs(a)
  \/ ReplayAll(a)
  \/ ResetAll(a)
  \/ VerifyAll(a)

MockCall(k) ==
  \/ AccessUnknown(k)
  \/ Record(k)
  \/ RecordInstance(k)
  \/ RecordTurnedDown(k)
  \/ \E raises \in BOOLEAN : Answer(k, raises)
  \/ Refuse(k)
  \/ Replay(k)
  \/ Reset(k)
  \/ Verify(k)

Next ==
  \/ \E a \in Address : NewMox(a) \/ Collect(a)
  \/ \E a \in held : MoxCall(a) \/ Forget(a) \/ Release(a)
  \/ \E k \in DOMAIN mocks : Usable(k) /\ MockCall(k)
  \/ GlobalReplay
  \/ GlobalVerify
  \/ GlobalUnsetStubs
  \/ ResetInstances

Spec == Init /\ [][Next]_vars

-----------------------------------------------------------------------------
\* Type correctness.
TypeOK ==
  /\ moxes \in [Address -> Mox]
  /\ registry \in Seq(Address) /\ IsInjective(registry)
  /\ held \subseteq Address
  /\ mocks \in Seq(Mock) /\ Len(mocks) <= MaxMocks
  /\ slots \in [Slot -> MockIds \cup {Original}]
  /\ raised \in {"none", "TypeError", "AttributeError", "Error"}

\* A stubbed attribute is in one undo log only, that of the Mox that made the stub,
\* and the entry has the original; an attribute that is not stubbed is in none.
Undoable(s) ==
  IF slots[s] = Original
  THEN \A a \in Address : Places(moxes[a].log, s) = {}
  ELSE LET maker == mocks[slots[s]].mox IN
         /\ \E i \in DOMAIN moxes[maker].log :
              /\ Places(moxes[maker].log, s) = {i}
              /\ moxes[maker].log[i].old = Original
         /\ \A a \in Address \ {maker} : Places(moxes[a].log, s) = {}

\* Whatever Mox instances come and go, and in whatever order their stubs are unset,
\* none is lost track of (unset_stubs, unset_stubs_for_id, global_unset_stubs, __del__).
EveryStubCanBeUndone == \A s \in Slot : Undoable(s)

\* A factory keeps the calls it expects in the queue of its mock, and the instances it
\* has for them in _instance_queue.  A reset empties one of the two, a refused call
\* takes from one of the two: still an expected creation is never turned down with
\* UnexpectedMockCreationError for want of an instance (_MockObjectFactory.__call__).
ExpectedCreationsHaveInstances ==
  \A k \in DOMAIN mocks :
    mocks[k].kind = "factory" => mocks[k].owed <= Len(mocks[k].instances)

=============================================================================
