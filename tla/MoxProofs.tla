------------------------------ MODULE MoxProofs ------------------------------
(***************************************************************************)
(* Proofs about MoxRegistry: every stub can be undone, for any number of   *)
(* Mox instances, attributes and mocks, as long as no client stubs a slot  *)
(* that holds a factory.                                                   *)
(*                                                                         *)
(* The property is inductive together with the types (a Mox is registered  *)
(* once: IsInjective(registry)) and with SlotsHoldMocks.  Two lemmas carry *)
(* it through the steps: LogsAreKept for those that leave slots and logs   *)
(* alone, LogsAreEmptied for those that unset the stubs of some Mox        *)
(* instances.  ReplaceStep and RegistryStep do the rest.                   *)
(*                                                                         *)
(* That a factory has an instance for each creation it expects is a        *)
(* property of its own (Stocked), carried by the same types.               *)
(***************************************************************************)
EXTENDS ExpectBlocks, TestSession, SequenceTheorems, FiniteSetTheorems, TLAPS

\* A slot that is not the original holds a mock that a Mox made.
SlotsHoldMocks ==
  \A s \in Slot :
    slots[s] # Original => slots[s] \in DOMAIN mocks /\ mocks[slots[s]].mox \in Address

RegistryInv == TypeOK /\ SlotsHoldMocks /\ EveryStubCanBeUndone

USE SlotAssumption, BoundsAssumption, MoxAssumption, ClientAssumption

\* The mocks of the next state: none is lost, and none moves to another Mox.
MocksStay ==
  /\ DOMAIN mocks \subseteq DOMAIN mocks'
  /\ \A k \in DOMAIN mocks : mocks'[k].mox = mocks[k].mox

-----------------------------------------------------------------------------
\* A sequence with one more element has it in its set.
LEMMA ToSetAppend ==
  ASSUME NEW S, NEW s \in Seq(S), NEW x \in S
  PROVE  ToSet(Append(s, x)) = ToSet(s) \cup {x}
<1>1. /\ Len(Append(s, x)) = Len(s) + 1 /\ Append(s, x) \in Seq(S)
      /\ \A i \in 1..Len(s) : Append(s, x)[i] = s[i]
      /\ Append(s, x)[Len(s) + 1] = x
  BY AppendProperties
<1>2. /\ DOMAIN s = 1..Len(s) /\ Len(s) \in Nat
      /\ DOMAIN Append(s, x) = 1..(Len(s) + 1)
  BY <1>1, LenProperties
<1>3. DOMAIN Append(s, x) = DOMAIN s \cup {Len(s) + 1}
  BY <1>2
<1> QED
  BY <1>1, <1>2, <1>3 DEF ToSet

\* A sequence without its last element.
LEMMA WithoutLast ==
  ASSUME NEW S, NEW s \in Seq(S), s # <<>>
  PROVE  /\ Front(s) \in Seq(S) /\ Len(Front(s)) = Len(s) - 1 /\ Len(s) \in Nat \ {0}
         /\ \A n \in 1..(Len(s) - 1) : Front(s)[n] = s[n]
         /\ Last(s) = s[Len(s)] /\ Last(s) \in S
<1>1. Len(s) \in Nat \ {0}
  BY EmptySeq
<1>2. PICK last \in Nat : Len(s) = last + 1
  <2>1. Len(s) - 1 \in Nat /\ Len(s) = (Len(s) - 1) + 1
    BY <1>1
  <2> QED
    BY <2>1
<1>3. \A n \in 1..last : s[n] \in S
  BY <1>2, ElementOfSeq
<1>4. /\ SubSeq(s, 1, last) \in Seq(S)
      /\ Len(SubSeq(s, 1, last)) = IF 1 <= last THEN last - 1 + 1 ELSE 0
      /\ \A n \in 1..(last - 1 + 1) : SubSeq(s, 1, last)[n] = s[1 + n - 1]
  BY <1>3, SubSeqProperties
<1>5. Len(s) - 1 = last /\ Front(s) = SubSeq(s, 1, last) /\ Last(s) = s[Len(s)]
  BY <1>2 DEF Front, Last
<1>6. Len(SubSeq(s, 1, last)) = last
  BY <1>4
<1>7. \A n \in 1..last : SubSeq(s, 1, last)[n] = s[n]
  BY <1>4
<1>8. s[Len(s)] \in S
  BY <1>1, ElementOfSeq
<1> QED
  BY <1>1, <1>4, <1>5, <1>6, <1>7, <1>8

\* The maker of a stub is an address.
LEMMA MakerIsAddress ==
  ASSUME RegistryInv, NEW s \in Slot, slots[s] # Original
  PROVE  slots[s] \in DOMAIN mocks /\ mocks[slots[s]].mox \in Address
BY DEF RegistryInv, SlotsHoldMocks

\* Steps that change neither the slots nor the undo logs.
LEMMA LogsAreKept ==
  ASSUME RegistryInv, MocksStay, slots' = slots,
         \A a \in Address : moxes'[a].log = moxes[a].log
  PROVE  SlotsHoldMocks' /\ EveryStubCanBeUndone'
<1>1. SlotsHoldMocks'
  BY DEF RegistryInv, SlotsHoldMocks, MocksStay
<1>2. SUFFICES ASSUME NEW s \in Slot
               PROVE  Undoable(s)'
  BY <1>1 DEF EveryStubCanBeUndone
<1>3. CASE slots[s] = Original
  BY <1>3 DEF RegistryInv, EveryStubCanBeUndone, Undoable
<1>4. CASE slots[s] # Original
  <2>1. slots[s] \in DOMAIN mocks /\ mocks[slots[s]].mox \in Address
    BY <1>4, MakerIsAddress
  <2>2. mocks'[slots'[s]].mox = mocks[slots[s]].mox
    BY <2>1 DEF MocksStay
  <2> QED
    BY <1>4, <2>1, <2>2 DEF RegistryInv, EveryStubCanBeUndone, Undoable
<1> QED
  BY <1>3, <1>4

\* Unsetting the stubs of some Mox instances, in any order, gives the slots that
\* they stubbed back the original and leaves the others alone.
LEMMA UnsetSlots ==
  ASSUME RegistryInv, NEW as \in Seq(Address), IsInjective(as), NEW s \in Slot
  PROVE  Unset(as)[s] = IF slots[s] # Original /\ mocks[slots[s]].mox \in ToSet(as)
                        THEN Original ELSE slots[s]
<1> DEFINE logs    == Logs(as)
           touched == {n \in DOMAIN logs : Places(logs[n], s) # {}}
<1>1. /\ DOMAIN as = 1..Len(as) /\ Len(as) \in Nat
      /\ DOMAIN logs = DOMAIN as
      /\ \A n \in DOMAIN as : as[n] \in Address /\ logs[n] = moxes[as[n]].log
  BY LenProperties, ElementOfSeq DEF Logs
<1>2. Unset(as)[s] = IF touched = {} THEN slots[s]
                     ELSE logs[Greatest(touched)]
                            [Least(Places(logs[Greatest(touched)], s))].old
  BY DEF Unset, Undone
<1> HIDE DEF logs
<1>3. CASE slots[s] = Original
  <2>1. \A a \in Address : Places(moxes[a].log, s) = {}
    BY <1>3 DEF RegistryInv, EveryStubCanBeUndone, Undoable
  <2>2. touched = {}
    BY <1>1, <2>1
  <2> QED
    BY <1>2, <1>3, <2>2
<1>4. CASE slots[s] # Original
  <2> DEFINE maker == mocks[slots[s]].mox
  <2>1. maker \in Address
    BY <1>4, MakerIsAddress
  <2>2. PICK i \in DOMAIN moxes[maker].log :
          Places(moxes[maker].log, s) = {i} /\ moxes[maker].log[i].old = Original
    BY <1>4 DEF RegistryInv, EveryStubCanBeUndone, Undoable
  <2>3. \A a \in Address \ {maker} : Places(moxes[a].log, s) = {}
    BY <1>4 DEF RegistryInv, EveryStubCanBeUndone, Undoable
  <2>4. touched = {n \in DOMAIN as : as[n] = maker}
    BY <1>1, <2>2, <2>3
  <2>5. CASE maker \notin ToSet(as)
    <3>1. touched = {}
      BY <2>4, <2>5 DEF ToSet
    <3> QED
      BY <1>2, <2>5, <3>1
  <2>6. CASE maker \in ToSet(as)
    <3>1. PICK n \in DOMAIN as : as[n] = maker
      BY <2>6 DEF ToSet
    <3>2. touched = {n}
      BY <2>4, <3>1 DEF IsInjective
    <3>3. Greatest({n}) = n
      BY <1>1, <3>1 DEF Greatest
    <3>4. Places(logs[n], s) = {i} /\ logs[n][i].old = Original
      BY <1>1, <2>2, <3>1
    <3>5. i \in Nat
      <4>1. moxes[maker] \in Mox
        BY <2>1 DEF RegistryInv, TypeOK
      <4> QED
        BY <2>2, <4>1, LenProperties DEF Mox
    <3>6. Least({i}) = i
      BY <3>5 DEF Least
    <3> QED
      BY <1>2, <1>4, <2>6, <3>2, <3>3, <3>4, <3>6
  <2> QED
    BY <2>5, <2>6
<1> QED
  BY <1>3, <1>4

\* Steps that unset the stubs of some Mox instances and empty their logs.
LEMMA LogsAreEmptied ==
  ASSUME RegistryInv, MocksStay, NEW as \in Seq(Address), IsInjective(as),
         slots' = Unset(as),
         \A a \in Address : moxes'[a].log = IF a \in ToSet(as) THEN <<>> ELSE moxes[a].log
  PROVE  /\ slots' \in [Slot -> MockIds \cup {Original}]
         /\ SlotsHoldMocks'
         /\ EveryStubCanBeUndone'
<1>1. slots \in [Slot -> MockIds \cup {Original}]
  BY DEF RegistryInv, TypeOK
<1>2. slots' = [s \in Slot |-> slots'[s]]
  BY DEF Unset, Undone
<1>3. \A s \in Slot :
        slots'[s] = IF slots[s] # Original /\ mocks[slots[s]].mox \in ToSet(as)
                    THEN Original ELSE slots[s]
  BY UnsetSlots
<1>4. slots' \in [Slot -> MockIds \cup {Original}]
  BY <1>1, <1>2, <1>3
<1>5. SlotsHoldMocks'
  BY <1>3 DEF RegistryInv, SlotsHoldMocks, MocksStay
<1>6. ASSUME NEW s \in Slot
      PROVE  Undoable(s)'
  <2>1. \A a \in Address : Places(<<>>, s) = {}
    BY DEF Places
  <2>2. CASE slots[s] = Original
    <3>1. slots'[s] = Original
      BY <1>3, <2>2
    <3>2. \A a \in Address : Places(moxes[a].log, s) = {}
      BY <2>2 DEF RegistryInv, EveryStubCanBeUndone, Undoable
    <3> QED
      BY <2>1, <3>1, <3>2 DEF Undoable
  <2>3. CASE slots[s] # Original
    <3> DEFINE maker == mocks[slots[s]].mox
    <3>1. slots[s] \in DOMAIN mocks /\ maker \in Address
      BY <2>3, MakerIsAddress
    <3>2. /\ \E i \in DOMAIN moxes[maker].log :
               /\ Places(moxes[maker].log, s) = {i}
               /\ moxes[maker].log[i].old = Original
          /\ \A a \in Address \ {maker} : Places(moxes[a].log, s) = {}
      BY <2>3 DEF RegistryInv, EveryStubCanBeUndone, Undoable
    <3>3. CASE maker \in ToSet(as)
      <4>1. slots'[s] = Original
        BY <1>3, <2>3, <3>3
      <4> QED
        BY <2>1, <3>1, <3>2, <3>3, <4>1 DEF Undoable
    <3>4. CASE maker \notin ToSet(as)
      <4>1. slots'[s] = slots[s] /\ slots'[s] # Original
        BY <1>3, <2>3, <3>4
      <4>2. mocks'[slots'[s]].mox = maker
        BY <3>1, <4>1 DEF MocksStay
      <4>3. moxes'[maker].log = moxes[maker].log
        BY <3>1, <3>4
      <4> QED
        BY <2>1, <3>2, <3>4, <4>1, <4>2, <4>3 DEF Undoable
    <3> QED
      BY <3>3, <3>4
  <2> QED
    BY <2>2, <2>3
<1> QED
  BY <1>4, <1>5, <1>6 DEF EveryStubCanBeUndone

-----------------------------------------------------------------------------
\* The parts of the type invariant that the proofs of the steps use.
LEMMA Types ==
  ASSUME RegistryInv
  PROVE  /\ mocks \in Seq(Mock) /\ Len(mocks) \in 0..MaxMocks
         /\ DOMAIN mocks = 1..Len(mocks)
         /\ \A k \in DOMAIN mocks :
              /\ mocks[k] \in Mock /\ (mocks[k].kind = "factory" => mocks[k].mox \in Address)
              /\ mocks[k].owed \in 0..MaxOwed /\ mocks[k].instances \in Seq(MockIds)
         /\ moxes \in [Address -> Mox]
         /\ \A a \in Address : moxes[a].mocks \in Seq(MockIds)
         /\ registry \in Seq(Address) /\ IsInjective(registry) /\ Registered \subseteq Address
<1>1. mocks \in Seq(Mock) /\ Len(mocks) <= MaxMocks
  BY DEF RegistryInv, TypeOK
<1>2. Len(mocks) \in Nat /\ DOMAIN mocks = 1..Len(mocks) /\ \A k \in DOMAIN mocks : mocks[k] \in Mock
  BY <1>1, LenProperties, ElementOfSeq
<1>3. moxes \in [Address -> Mox]
  BY DEF RegistryInv, TypeOK
<1>4. \A a \in Address : moxes[a].mocks \in Seq(MockIds)
  BY <1>3 DEF Mox
<1>5. registry \in Seq(Address) /\ IsInjective(registry)
  BY DEF RegistryInv, TypeOK
<1>6. Registered \subseteq Address
  BY <1>5, LenProperties, ElementOfSeq DEF Registered, ToSet
<1> QED
  BY <1>1, <1>2, <1>3, <1>4, <1>5, <1>6 DEF Mock

\* One mock replaced by another of the same Mox.
LEMMA MockReplaced ==
  ASSUME RegistryInv, NEW k \in DOMAIN mocks, NEW m \in Mock, m.mox = mocks[k].mox,
         mocks' = [mocks EXCEPT ![k] = m]
  PROVE  /\ mocks' \in Seq(Mock) /\ Len(mocks') = Len(mocks)
         /\ MocksStay
BY Types, ExceptSeq, LenProperties DEF MocksStay

\* Each mock replaced by another of the same Mox.
LEMMA MocksMapped ==
  ASSUME RegistryInv, mocks' = [k \in DOMAIN mocks |-> mocks'[k]],
         \A k \in DOMAIN mocks : mocks'[k] \in Mock /\ mocks'[k].mox = mocks[k].mox
  PROVE  /\ mocks' \in Seq(Mock) /\ Len(mocks') = Len(mocks)
         /\ MocksStay
<1>1. Len(mocks) \in Nat /\ DOMAIN mocks = 1..Len(mocks)
  BY Types
<1>2. mocks' \in [1..Len(mocks) -> Mock]
  BY <1>1
<1>3. mocks' \in Seq(Mock)
  BY <1>1, <1>2
<1> QED
  BY <1>1, <1>2, <1>3, LenProperties DEF MocksStay

\* A new mock.
LEMMA MockAdded ==
  ASSUME RegistryInv, Len(mocks) < MaxMocks, NEW a \in Address \cup {NoMox},
         NEW kind \in {"object", "anything", "factory"}, kind = "factory" => a \in Address,
         mocks' = Append(mocks, NewMock(a, kind))
  PROVE  /\ mocks' \in Seq(Mock) /\ Len(mocks') <= MaxMocks
         /\ MocksStay
         /\ Len(mocks) + 1 \in MockIds
         /\ Len(mocks) + 1 \in DOMAIN mocks' /\ mocks'[Len(mocks) + 1].mox = a
<1>1. NewMock(a, kind) \in Mock /\ NewMock(a, kind).mox = a
  BY EmptySeq DEF NewMock, Mock
<1>2. /\ mocks' \in Seq(Mock) /\ Len(mocks') = Len(mocks) + 1
      /\ \A k \in 1..Len(mocks) : mocks'[k] = mocks[k]
      /\ mocks'[Len(mocks) + 1] = NewMock(a, kind)
  BY <1>1, Types, AppendProperties
<1>3. DOMAIN mocks' = 1..(Len(mocks) + 1)
  BY <1>2, LenProperties
<1> QED
  BY <1>1, <1>2, <1>3, Types DEF MocksStay, MockIds

\* A Mox that gets one more mock keeps its log.
LEMMA MoxExtended ==
  ASSUME RegistryInv, NEW a \in Address, NEW k \in MockIds,
         moxes' = [moxes EXCEPT ![a].mocks = Append(@, k)]
  PROVE  moxes' \in [Address -> Mox] /\ \A b \in Address : moxes'[b].log = moxes[b].log
<1>1. moxes[a] \in Mox /\ Append(moxes[a].mocks, k) \in Seq(MockIds)
  BY Types, AppendProperties
<1>2. [moxes[a] EXCEPT !.mocks = Append(moxes[a].mocks, k)] \in Mox
  BY <1>1 DEF Mox
<1>3. moxes' = [moxes EXCEPT ![a] = [moxes[a] EXCEPT !.mocks = Append(moxes[a].mocks, k)]]
  OBVIOUS
<1>4. [moxes[a] EXCEPT !.mocks = Append(moxes[a].mocks, k)].log = moxes[a].log
  BY <1>1 DEF Mox
<1> QED
  BY <1>2, <1>3, <1>4, Types

\* Emptying logs.
LEMMA LogsType ==
  ASSUME RegistryInv, NEW as \in Seq(Address), moxes' = WithoutLogs(as)
  PROVE  /\ moxes' \in [Address -> Mox]
         /\ \A a \in Address :
              moxes'[a].log = IF a \in ToSet(as) THEN <<>> ELSE moxes[a].log
<1>1. ASSUME NEW a \in Address
      PROVE  /\ moxes'[a] \in Mox
             /\ moxes'[a].log = IF a \in ToSet(as) THEN <<>> ELSE moxes[a].log
  <2>1. moxes[a] \in Mox
    BY Types
  <2>2. [moxes[a] EXCEPT !.log = <<>>] \in Mox /\ [moxes[a] EXCEPT !.log = <<>>].log = <<>>
    BY <2>1, EmptySeq DEF Mox
  <2> QED
    BY <2>1, <2>2 DEF WithoutLogs
<1> QED
  BY <1>1 DEF WithoutLogs

\* The address of one Mox, as a sequence.
LEMMA Single ==
  ASSUME NEW a \in Address
  PROVE  <<a>> \in Seq(Address) /\ IsInjective(<<a>>) /\ ToSet(<<a>>) = {a}
BY DEF IsInjective, ToSet

\* unset_stubs for some Mox instances, by a step that may change mocks.
LEMMA StubsUnset ==
  ASSUME RegistryInv, MocksStay, NEW as \in Seq(Address), IsInjective(as),
         slots' = Unset(as), moxes' = WithoutLogs(as)
  PROVE  /\ moxes' \in [Address -> Mox] /\ slots' \in [Slot -> MockIds \cup {Original}]
         /\ SlotsHoldMocks' /\ EveryStubCanBeUndone'
BY LogsType, LogsAreEmptied

\* unset_stubs_for_id, by a step that may change mocks.
LEMMA StubsUnsetForId ==
  ASSUME RegistryInv, MocksStay, NEW k \in DOMAIN mocks,
         UnsetStubsForId(k) \/ UNCHANGED <<slots, moxes>>
  PROVE  /\ moxes' \in [Address -> Mox] /\ slots' \in [Slot -> MockIds \cup {Original}]
         /\ SlotsHoldMocks' /\ EveryStubCanBeUndone'
<1>1. CASE UNCHANGED <<slots, moxes>>
  BY <1>1, LogsAreKept DEF RegistryInv, TypeOK
<1>2. CASE UnsetStubsForId(k)
  <2>1. CASE mocks[k].kind = "object" /\ mocks[k].mox \in Registered
    BY <1>2, <2>1, Types, Single, StubsUnset DEF UnsetStubsForId
  <2>2. CASE ~(mocks[k].kind = "object" /\ mocks[k].mox \in Registered)
    BY <1>1, <1>2, <2>2 DEF UnsetStubsForId
  <2> QED
    BY <2>1, <2>2
<1> QED
  BY <1>1, <1>2

-----------------------------------------------------------------------------
\* A registered Mox that is forgotten leaves a registry without duplicates.
LEMMA UntrackedType ==
  ASSUME RegistryInv, NEW a \in Address
  PROVE  /\ Untracked(a) \in Seq(Address) /\ IsInjective(Untracked(a))
         /\ ToSet(Untracked(a)) = Registered \ {a}
<1>1. registry \in Seq(Address) /\ IsInjective(registry)
  BY Types
<1>2. CASE a \notin Registered
  BY <1>1, <1>2 DEF Untracked, Registered
<1>3. CASE a \in Registered
  <2> DEFINE n == CHOOSE n \in DOMAIN registry : registry[n] = a
             front == SubSeq(registry, 1, n - 1)
             back  == SubSeq(registry, n + 1, Len(registry))
  <2>1. n \in DOMAIN registry /\ DOMAIN registry = 1..Len(registry) /\ Len(registry) \in Nat
    BY <1>1, <1>3, LenProperties DEF Registered, ToSet
  <2> HIDE DEF n
  <2>2. \A i \in 1..Len(registry) : registry[i] \in Address
    BY <1>1, ElementOfSeq
  <2>3. /\ front \in Seq(Address) /\ Len(front) = n - 1
        /\ \A i \in 1..(n - 1) : front[i] = registry[i]
    BY <2>1, <2>2, SubSeqProperties, Z3
  <2>4. /\ back \in Seq(Address) /\ Len(back) = Len(registry) - n
        /\ \A i \in 1..(Len(registry) - n) : back[i] = registry[n + i]
    <3>1. n + 1 \in Int /\ Len(registry) \in Int
      BY <2>1
    <3>2. \A i \in (n + 1)..Len(registry) : registry[i] \in Address
      BY <2>1, <2>2
    <3>3. /\ back \in Seq(Address)
          /\ Len(back) = IF n + 1 <= Len(registry) THEN Len(registry) - (n + 1) + 1 ELSE 0
          /\ \A i \in 1..(Len(registry) - (n + 1) + 1) : back[i] = registry[(n + 1) + i - 1]
      BY <3>1, <3>2, SubSeqProperties
    <3> QED
      BY <2>1, <3>3
  <2> HIDE DEF front, back
  <2>5. /\ front \o back \in Seq(Address) /\ Len(front \o back) = Len(registry) - 1
        /\ \A i \in 1..(Len(registry) - 1) :
             (front \o back)[i] = registry[IF i <= n - 1 THEN i ELSE i + 1]
    <3>1. /\ front \o back \in Seq(Address)
          /\ Len(front \o back) = Len(front) + Len(back)
          /\ \A i \in 1..(Len(front) + Len(back)) :
               (front \o back)[i] = IF i <= Len(front) THEN front[i] ELSE back[i - Len(front)]
      BY <2>3, <2>4, ConcatProperties
    <3>2. ASSUME NEW i \in 1..(Len(registry) - 1), i > n - 1
          PROVE  back[i - (n - 1)] = registry[i + 1]
      <4> DEFINE j == i - (n - 1)
      <4>1. j \in 1..(Len(registry) - n) /\ n + j = i + 1
        BY <2>1, <3>2
      <4> HIDE DEF j
      <4>2. back[j] = registry[n + j]
        BY <2>4, <4>1
      <4> QED
        BY <4>1, <4>2 DEF j
    <3>3. ASSUME NEW i \in 1..(Len(registry) - 1)
          PROVE  (front \o back)[i] = registry[IF i <= n - 1 THEN i ELSE i + 1]
      <4>1. (front \o back)[i] = IF i <= n - 1 THEN front[i] ELSE back[i - (n - 1)]
        <5>1. Len(front) = n - 1 /\ i \in 1..(Len(front) + Len(back))
          BY <2>1, <2>3, <2>4
        <5> HIDE DEF front, back
        <5> QED
          BY <3>1, <5>1
      <4>2. i <= n - 1 => front[i] = registry[i]
        BY <2>1, <2>3
      <4> QED
        BY <2>1, <3>2, <4>1, <4>2
    <3>4. Len(front) + Len(back) = Len(registry) - 1
      BY <2>1, <2>3, <2>4
    <3>5. Len(front \o back) = Len(registry) - 1
      BY <3>1, <3>4
    <3> QED
      BY <3>1, <3>3, <3>5
  <2>6. DOMAIN (front \o back) = 1..(Len(registry) - 1)
    BY <2>5, LenProperties
  <2>7. IsInjective(front \o back)
    <3> SUFFICES ASSUME NEW i \in 1..(Len(registry) - 1), NEW j \in 1..(Len(registry) - 1),
                        (front \o back)[i] = (front \o back)[j]
                 PROVE  i = j
      BY <2>6 DEF IsInjective
    <3> DEFINE Before(k) == IF k <= n - 1 THEN k ELSE k + 1
    <3>1. registry[Before(i)] = registry[Before(j)]
      BY <2>5
    <3>2. Before(i) \in DOMAIN registry /\ Before(j) \in DOMAIN registry
      BY <2>1
    <3>3. Before(i) = Before(j)
      BY <1>1, <3>1, <3>2 DEF IsInjective
    <3> QED
      BY <2>1, <3>3
  <2>8. Untracked(a) = front \o back
    BY <1>3 DEF Untracked, RemoveAt, n, front, back
  <2>9. ToSet(front \o back) = Registered \ {a}
    <3>1. registry[n] = a
      BY <1>3 DEF n, Registered, ToSet
    <3>2. \A i \in DOMAIN registry : registry[i] = a => i = n
      BY <1>1, <2>1, <3>1 DEF IsInjective
    <3>3. ASSUME NEW i \in 1..(Len(registry) - 1)
          PROVE  (front \o back)[i] \in Registered \ {a}
      <4> DEFINE j == IF i <= n - 1 THEN i ELSE i + 1
      <4>1. j \in DOMAIN registry /\ j # n
        BY <2>1
      <4> HIDE DEF j
      <4>2. registry[j] \in Registered \ {a}
        BY <3>2, <4>1 DEF Registered, ToSet
      <4> QED
        BY <2>5, <4>2 DEF j
    <3>4. ASSUME NEW j \in DOMAIN registry, j # n
          PROVE  \E i \in 1..(Len(registry) - 1) : (front \o back)[i] = registry[j]
      <4> DEFINE i == IF j < n THEN j ELSE j - 1
      <4>1. /\ i \in 1..(Len(registry) - 1)
            /\ j = IF i <= n - 1 THEN i ELSE i + 1
        BY <2>1, <3>4
      <4> HIDE DEF i
      <4> QED
        BY <2>5, <4>1
    <3>5. Registered = {registry[j] : j \in DOMAIN registry}
      BY DEF Registered, ToSet
    <3>6. ToSet(front \o back) = {(front \o back)[i] : i \in 1..(Len(registry) - 1)}
      BY <2>6 DEF ToSet
    <3>7. \A x : x \in ToSet(front \o back) => x \in Registered \ {a}
      BY <3>3, <3>6
    <3>8. \A x : x \in Registered \ {a} => x \in ToSet(front \o back)
      BY <3>1, <3>4, <3>5, <3>6
    <3> QED
      BY <3>7, <3>8
  <2> QED
    BY <2>5, <2>7, <2>8, <2>9
<1> QED
  BY <1>2, <1>3

\* A new Mox is registered once.
LEMMA RegisteredOnce ==
  ASSUME RegistryInv, NEW a \in Address \ Registered
  PROVE  Append(registry, a) \in Seq(Address) /\ IsInjective(Append(registry, a))
<1>1. /\ registry \in Seq(Address) /\ IsInjective(registry)
      /\ Len(registry) \in Nat /\ DOMAIN registry = 1..Len(registry)
  BY Types, LenProperties
<1>2. /\ Append(registry, a) \in Seq(Address)
      /\ Len(Append(registry, a)) = Len(registry) + 1
      /\ \A i \in 1..Len(registry) : Append(registry, a)[i] = registry[i]
      /\ Append(registry, a)[Len(registry) + 1] = a
  BY <1>1, AppendProperties
<1>3. DOMAIN Append(registry, a) = 1..(Len(registry) + 1)
  BY <1>2, LenProperties
<1>4. \A i \in 1..Len(registry) : registry[i] # a
  BY <1>1 DEF Registered, ToSet
<1> QED
  BY <1>1, <1>2, <1>3, <1>4 DEF IsInjective

-----------------------------------------------------------------------------
(***************************************************************************)
(* The steps.                                                              *)
(***************************************************************************)

\* Mox instances come and go, and the registry changes.
LEMMA RegistryStep ==
  ASSUME RegistryInv,
         \/ \E a \in Address : NewMox(a) \/ Collect(a) \/ Forget(a) \/ Release(a)
         \/ ResetInstances
  PROVE  RegistryInv'
<1>1. ASSUME NEW a \in Address, NewMox(a)
      PROVE  RegistryInv'
  <2>1. a \notin Registered
    BY <1>1 DEF NewMox, Referenced
  <2>2. registry' \in Seq(Address) /\ IsInjective(registry)'
    BY <1>1, <2>1, RegisteredOnce DEF NewMox, IsInjective
  <2>3. SlotsHoldMocks' /\ EveryStubCanBeUndone'
    BY <1>1, LogsAreKept DEF NewMox, MocksStay
  <2> QED
    BY <1>1, <2>2, <2>3 DEF NewMox, RegistryInv, TypeOK
<1>2. ASSUME NEW a \in Address, Collect(a)
      PROVE  RegistryInv'
  <2>1. EmptyMox \in Mox /\ EmptyMox.log = <<>>
    BY EmptySeq DEF EmptyMox, Mox
  <2>2. moxes' \in [Address -> Mox]
    BY <1>2, <2>1, Types DEF Collect
  <2>3. \A b \in Address : moxes'[b].log = IF b \in ToSet(<<a>>) THEN <<>> ELSE moxes[b].log
    BY <1>2, <2>1, Types, Single DEF Collect
  <2>4. MocksStay /\ slots' = Unset(<<a>>)
    BY <1>2 DEF Collect, MocksStay
  <2>5. /\ slots' \in [Slot -> MockIds \cup {Original}]
        /\ SlotsHoldMocks' /\ EveryStubCanBeUndone'
    BY <2>3, <2>4, Single, LogsAreEmptied
  <2> QED
    BY <1>2, <2>2, <2>5 DEF Collect, RegistryInv, TypeOK, IsInjective
<1>3. ASSUME NEW a \in Address, Forget(a)
      PROVE  RegistryInv'
  <2>1. registry' \in Seq(Address) /\ IsInjective(registry')
    BY <1>3, UntrackedType DEF Forget
  <2>2. SlotsHoldMocks' /\ EveryStubCanBeUndone'
    BY <1>3, LogsAreKept DEF Forget, MocksStay
  <2> QED
    BY <1>3, <2>1, <2>2 DEF Forget, RegistryInv, TypeOK
<1>4. ASSUME NEW a \in Address, Release(a)
      PROVE  RegistryInv'
  <2>1. SlotsHoldMocks' /\ EveryStubCanBeUndone'
    BY <1>4, LogsAreKept DEF Release, MocksStay
  <2> QED
    BY <1>4, <2>1 DEF Release, RegistryInv, TypeOK, IsInjective
<1>5. CASE ResetInstances
  <2>1. ASSUME NEW b \in Address
        PROVE  moxes'[b] \in Mox /\ moxes'[b].log = moxes[b].log
    <3>1. moxes[b] \in Mox
      BY Types
    <3>2. /\ [moxes[b] EXCEPT !.mocks = <<>>] \in Mox
          /\ [moxes[b] EXCEPT !.mocks = <<>>].log = moxes[b].log
      BY <3>1, EmptySeq DEF Mox
    <3> QED
      BY <1>5, <3>1, <3>2 DEF ResetInstances, WithoutMocks
  <2>2. moxes' \in [Address -> Mox]
    BY <1>5, <2>1 DEF ResetInstances, WithoutMocks
  <2>3. SlotsHoldMocks' /\ EveryStubCanBeUndone'
    BY <1>5, <2>1, LogsAreKept DEF ResetInstances, MocksStay
  <2>4. registry' \in Seq(Address) /\ IsInjective(registry')
    BY <1>5, EmptySeq DEF ResetInstances, IsInjective
  <2> QED
    BY <1>5, <2>2, <2>3, <2>4 DEF ResetInstances, RegistryInv, TypeOK
<1> QED
  BY <1>1, <1>2, <1>3, <1>4, <1>5

\* An attribute is stubbed only when it holds the original.
LEMMA ReplaceStep ==
  ASSUME RegistryInv, ~OverFactories, NEW a \in Address, NEW s \in Slot,
         NEW kind \in StuboutKind, Replace(a, s, kind),
         registry' \in Seq(Address), IsInjective(registry'), held' \subseteq Address
  PROVE  RegistryInv'
<1> DEFINE new   == Len(mocks) + 1
           entry == [slot |-> s, old |-> slots[s]]
           log   == moxes[a].log
<1>1. slots[s] = Original
  <2>1. SUFFICES ASSUME slots[s] # Original PROVE FALSE
    OBVIOUS
  <2>2. slots[s] \in DOMAIN mocks
    BY <2>1, MakerIsAddress
  <2>3. mocks[slots[s]].kind \in {"object", "anything", "factory"}
    BY <2>2, Types DEF Mock
  <2> QED
    BY <2>2, <2>3 DEF Replace, Stubbable, HoldsKind
<1>2. /\ mocks' \in Seq(Mock) /\ Len(mocks') <= MaxMocks /\ MocksStay
      /\ new \in MockIds /\ new \in DOMAIN mocks' /\ mocks'[new].mox = a
  BY MockAdded DEF Replace, StuboutKind
<1>3. new # Original
  BY <1>2 DEF MockIds
<1>4. slots \in [Slot -> MockIds \cup {Original}]
  BY DEF RegistryInv, TypeOK
<1>5. slots' \in [Slot -> MockIds \cup {Original}]
  BY <1>2, <1>4 DEF Replace
<1>6. /\ slots'[s] = new
      /\ \A t \in Slot \ {s} : slots'[t] = slots[t]
  BY <1>4 DEF Replace
<1>7. /\ log \in Seq([slot : Slot, old : MockIds \cup {Original}])
      /\ moxes[a].mocks \in Seq(MockIds) /\ moxes[a] \in Mox
  BY Types DEF Mox
<1>8. entry \in [slot : Slot, old : MockIds \cup {Original}]
  BY <1>4
<1>9. /\ Append(log, entry) \in Seq([slot : Slot, old : MockIds \cup {Original}])
      /\ Len(Append(log, entry)) = Len(log) + 1
      /\ \A i \in 1..Len(log) : Append(log, entry)[i] = log[i]
      /\ Append(log, entry)[Len(log) + 1] = entry
      /\ DOMAIN Append(log, entry) = 1..(Len(log) + 1)
      /\ Len(log) \in Nat /\ DOMAIN log = 1..Len(log)
  BY <1>7, <1>8, AppendProperties, LenProperties
<1>10. /\ moxes' \in [Address -> Mox]
       /\ moxes'[a].log = Append(log, entry)
       /\ \A b \in Address \ {a} : moxes'[b].log = moxes[b].log
  <2>1. Append(moxes[a].mocks, new) \in Seq(MockIds)
    BY <1>2, <1>7, AppendProperties
  <2> DEFINE mox == [moxes[a] EXCEPT !.mocks = Append(moxes[a].mocks, new),
                                     !.log = Append(log, entry)]
  <2>2. mox \in Mox /\ mox.log = Append(log, entry)
    BY <1>7, <1>9, <2>1 DEF Mox
  <2>3. moxes' = [moxes EXCEPT ![a] = mox]
    BY Types DEF Replace
  <2> HIDE DEF mox
  <2> QED
    BY <2>2, <2>3, Types
<1>11. SlotsHoldMocks'
  BY <1>2, <1>6 DEF RegistryInv, SlotsHoldMocks, MocksStay
<1> HIDE DEF new, log
<1>12. Undoable(s)'
  <2>1. \A b \in Address : Places(moxes[b].log, s) = {}
    BY <1>1 DEF RegistryInv, EveryStubCanBeUndone, Undoable
  <2>2. Places(log, s) = {}
    BY <2>1 DEF log
  <2>3. Places(Append(log, entry), s) = {Len(log) + 1}
    BY <1>9, <2>2 DEF Places
  <2>4. Append(log, entry)[Len(log) + 1].old = Original
    BY <1>1, <1>9
  <2>5. mocks'[slots'[s]].mox = a /\ slots'[s] # Original
    BY <1>2, <1>3, <1>6
  <2>6. Len(log) + 1 \in DOMAIN moxes'[a].log
    BY <1>9, <1>10
  <2>7. \A b \in Address \ {a} : Places(moxes'[b].log, s) = {}
    BY <1>10, <2>1
  <2> HIDE DEF entry
  <2> QED
    BY <1>10, <2>3, <2>4, <2>5, <2>6, <2>7 DEF Undoable
<1>13. ASSUME NEW t \in Slot, t # s
       PROVE  Undoable(t)'
  <2>1. Places(Append(log, entry), t) = Places(log, t)
    BY <1>9, <1>13 DEF Places
  <2>2. \A b \in Address : Places(moxes'[b].log, t) = Places(moxes[b].log, t)
    BY <1>10, <2>1 DEF log
  <2>3. CASE slots[t] = Original
    BY <1>6, <1>13, <2>2, <2>3 DEF RegistryInv, EveryStubCanBeUndone, Undoable
  <2>4. CASE slots[t] # Original
    <3> DEFINE maker == mocks[slots[t]].mox
    <3>1. slots[t] \in DOMAIN mocks /\ maker \in Address
      BY <2>4, MakerIsAddress
    <3>2. PICK i \in DOMAIN moxes[maker].log :
            Places(moxes[maker].log, t) = {i} /\ moxes[maker].log[i].old = Original
      BY <2>4 DEF RegistryInv, EveryStubCanBeUndone, Undoable
    <3>3. \A b \in Address \ {maker} : Places(moxes[b].log, t) = {}
      BY <2>4 DEF RegistryInv, EveryStubCanBeUndone, Undoable
    <3>4. slots'[t] = slots[t] /\ mocks'[slots'[t]].mox = maker
      BY <1>2, <1>6, <1>13, <3>1 DEF MocksStay
    <3>5. i \in DOMAIN moxes'[maker].log /\ moxes'[maker].log[i].old = Original
      <4>1. CASE maker = a
        <5>1. i \in 1..Len(log) /\ log[i].old = Original
          BY <1>9, <3>2, <4>1 DEF log
        <5>2. i \in DOMAIN Append(log, entry) /\ Append(log, entry)[i] = log[i]
          BY <1>9, <5>1
        <5> QED
          BY <1>10, <4>1, <5>1, <5>2
      <4>2. CASE maker # a
        BY <1>10, <3>1, <3>2, <4>2
      <4> QED
        BY <4>1, <4>2
    <3> QED
      BY <2>2, <2>4, <3>1, <3>2, <3>3, <3>4, <3>5 DEF Undoable
  <2> QED
    BY <2>3, <2>4
<1>14. EveryStubCanBeUndone'
  BY <1>12, <1>13 DEF EveryStubCanBeUndone
<1> QED
  BY <1>2, <1>5, <1>10, <1>11, <1>14 DEF Replace, RegistryInv, TypeOK, IsInjective

\* stubout and stubout_class.
LEMMA StuboutStep ==
  ASSUME RegistryInv, ~OverFactories, NEW a \in Address, NEW s \in Slot,
         NEW kind \in StuboutKind, Stubout(a, s, kind)
  PROVE  RegistryInv'
BY ReplaceStep, Types DEF Stubout, RegistryInv, TypeOK, IsInjective

\* A Mox makes a mock, and may be registered.
LEMMA MakeMockStep ==
  ASSUME RegistryInv, NEW a \in Address, NEW kind \in {"object", "anything"},
         MakeMock(a, kind),
         registry' \in Seq(Address), IsInjective(registry'), held' \subseteq Address
  PROVE  RegistryInv'
<1>1. /\ mocks' \in Seq(Mock) /\ Len(mocks') <= MaxMocks /\ MocksStay
      /\ Len(mocks) + 1 \in MockIds
  BY MockAdded DEF MakeMock
<1>2. moxes' \in [Address -> Mox] /\ \A b \in Address : moxes'[b].log = moxes[b].log
  BY <1>1, MoxExtended DEF MakeMock
<1>3. SlotsHoldMocks' /\ EveryStubCanBeUndone'
  BY <1>1, <1>2, LogsAreKept DEF MakeMock
<1> QED
  BY <1>1, <1>2, <1>3 DEF MakeMock, RegistryInv, TypeOK, IsInjective

\* create_mock and create_mock_anything.
LEMMA CreateMockStep ==
  ASSUME RegistryInv, NEW a \in Address, NEW kind \in {"object", "anything"},
         CreateMock(a, kind)
  PROVE  RegistryInv'
BY MakeMockStep, Types DEF CreateMock, RegistryInv, TypeOK, IsInjective

\* unset_stubs, verify_all of one or of all, and global_unset_stubs.
LEMMA UnsetStep ==
  ASSUME RegistryInv,
         \/ \E a \in Address : UnsetStubs(a) \/ VerifyAll(a)
         \/ GlobalVerify
         \/ GlobalUnsetStubs
  PROVE  RegistryInv'
<1>1. ASSUME NEW as \in Seq(Address), IsInjective(as), slots' = Unset(as),
             moxes' = WithoutLogs(as), raised' \in {"none", "Error"},
             UNCHANGED <<registry, held, mocks>>
      PROVE  RegistryInv'
  <2>1. MocksStay
    BY <1>1 DEF MocksStay
  <2>2. /\ moxes' \in [Address -> Mox] /\ slots' \in [Slot -> MockIds \cup {Original}]
        /\ SlotsHoldMocks' /\ EveryStubCanBeUndone'
    BY <1>1, <2>1, StubsUnset
  <2> QED
    BY <1>1, <2>2 DEF RegistryInv, TypeOK, IsInjective
<1>2. ASSUME UNCHANGED <<moxes, registry, held, mocks, slots>>, raised' = "none"
      PROVE  RegistryInv'
  <2>1. SlotsHoldMocks' /\ EveryStubCanBeUndone'
    BY <1>2, LogsAreKept DEF MocksStay
  <2> QED
    BY <1>2, <2>1 DEF RegistryInv, TypeOK, IsInjective
<1>3. ASSUME NEW b \in Address, VerifyAll(b)
      PROVE  RegistryInv'
  BY <1>1, <1>2, <1>3, Single DEF VerifyAll
<1>4. CASE \E a \in Address : UnsetStubs(a)
  BY <1>1, <1>4, Single DEF UnsetStubs
<1>5. CASE GlobalVerify
  BY <1>2, <1>3, <1>5, Types, LenProperties, ElementOfSeq DEF GlobalVerify
<1>6. CASE GlobalUnsetStubs
  BY <1>1, <1>6, Types DEF GlobalUnsetStubs
<1> QED
  BY <1>3, <1>4, <1>5, <1>6

\* Replay and reset of some mocks, and verify of one.
LEMMA ModeStep ==
  ASSUME RegistryInv, NEW ids,
         mocks' = Replayed(ids) \/ mocks' = AfterReset(ids) \/ mocks' = mocks,
         raised' \in {"none", "TypeError", "AttributeError", "Error"},
         UNCHANGED <<moxes, registry, held, slots>>
  PROVE  RegistryInv'
<1>1. mocks' = [k \in DOMAIN mocks |-> mocks'[k]]
  <2>1. mocks = [k \in DOMAIN mocks |-> mocks[k]]
    BY Types, LenProperties
  <2> QED
    BY <2>1 DEF Replayed, AfterReset
<1>2. ASSUME NEW k \in DOMAIN mocks
      PROVE  mocks'[k] \in Mock /\ mocks'[k].mox = mocks[k].mox
  <2>1. mocks[k] \in Mock /\ 0 \in 0..MaxOwed
    BY Types
  <2>2. /\ [mocks[k] EXCEPT !.replaying = TRUE] \in Mock
        /\ [mocks[k] EXCEPT !.replaying = TRUE].mox = mocks[k].mox
        /\ [mocks[k] EXCEPT !.replaying = FALSE, !.owed = 0] \in Mock
        /\ [mocks[k] EXCEPT !.replaying = FALSE, !.owed = 0].mox = mocks[k].mox
    BY <2>1 DEF Mock
  <2> QED
    BY <2>1, <2>2 DEF Replayed, AfterReset
<1>3. mocks' \in Seq(Mock) /\ Len(mocks') = Len(mocks) /\ MocksStay
  BY <1>1, <1>2, MocksMapped
<1>4. SlotsHoldMocks' /\ EveryStubCanBeUndone'
  BY <1>3, LogsAreKept
<1> QED
  BY <1>3, <1>4 DEF RegistryInv, TypeOK, IsInjective

\* A call to a factory is recorded: the factory changes, and an instance is made for
\* the same Mox.
LEMMA InstanceRecorded ==
  ASSUME RegistryInv, NEW k \in DOMAIN mocks, RecordInstance(k)
  PROVE  /\ mocks' \in Seq(Mock) /\ Len(mocks') <= MaxMocks
         /\ DOMAIN mocks' = 1..(Len(mocks) + 1)
         /\ MocksStay
         /\ Len(mocks) + 1 \in MockIds
         /\ mocks'[Len(mocks) + 1].mox = mocks[k].mox
<1> DEFINE new == Len(mocks) + 1
           m == [mocks[k] EXCEPT !.owed = @ + 1, !.instances = Append(@, new)]
           recorded == [mocks EXCEPT ![k] = m]
           made == NewMock(mocks[k].mox, "object")
<1>1. /\ mocks[k] \in Mock /\ mocks[k].mox \in Address
      /\ mocks[k].owed \in 0..MaxOwed /\ mocks[k].instances \in Seq(MockIds)
  BY Types DEF RecordInstance
<1>2. new \in MockIds /\ Len(mocks) \in Nat /\ DOMAIN mocks = 1..Len(mocks)
  BY Types DEF RecordInstance, MockIds
<1>3. Append(mocks[k].instances, new) \in Seq(MockIds)
  BY <1>1, <1>2, AppendProperties
<1>4. m \in Mock /\ m.mox = mocks[k].mox
  <2>1. mocks[k].owed + 1 \in 0..MaxOwed
    BY <1>1 DEF RecordInstance
  <2> HIDE DEF new
  <2> QED
    BY <1>1, <1>3, <2>1 DEF Mock
<1>5. mocks' = Append(recorded, made)
  BY DEF RecordInstance
<1> HIDE DEF m
<1>6. /\ recorded \in Seq(Mock) /\ Len(recorded) = Len(mocks)
      /\ \A j \in 1..Len(mocks) : recorded[j] = IF j = k THEN m ELSE mocks[j]
  BY <1>2, <1>4, Types, ExceptSeq
<1>7. made \in Mock /\ made.mox = mocks[k].mox
  BY <1>1, EmptySeq DEF NewMock, Mock
<1> HIDE DEF recorded, made
<1>8. /\ mocks' \in Seq(Mock) /\ Len(mocks') = Len(mocks) + 1
      /\ \A j \in 1..Len(mocks) : mocks'[j] = recorded[j]
      /\ mocks'[Len(mocks) + 1] = made
  <2>1. /\ Append(recorded, made) \in Seq(Mock)
        /\ Len(Append(recorded, made)) = Len(recorded) + 1
        /\ \A j \in 1..Len(recorded) : Append(recorded, made)[j] = recorded[j]
        /\ Append(recorded, made)[Len(recorded) + 1] = made
    BY <1>6, <1>7, AppendProperties
  <2> QED
    BY <1>5, <1>6, <2>1
<1>9. DOMAIN mocks' = 1..(Len(mocks) + 1)
  BY <1>8, LenProperties
<1>10. MocksStay
  BY <1>2, <1>4, <1>6, <1>8, <1>9 DEF MocksStay
<1>11. Len(mocks') <= MaxMocks
  BY <1>2, <1>8 DEF MockIds
<1> QED
  BY <1>2, <1>7, <1>8, <1>9, <1>10, <1>11

\* Calls to a mock.
LEMMA CallStep ==
  ASSUME RegistryInv, NEW k \in DOMAIN mocks, NEW raises \in BOOLEAN,
         \/ Record(k) \/ RecordInstance(k) \/ RecordTurnedDown(k)
         \/ Answer(k, raises) \/ Refuse(k) \/ AccessUnknown(k)
  PROVE  RegistryInv'
<1>1. /\ mocks[k] \in Mock /\ (mocks[k].kind = "factory" => mocks[k].mox \in Address)
      /\ mocks[k].owed \in 0..MaxOwed /\ mocks[k].instances \in Seq(MockIds)
  BY Types
<1>2. CASE Record(k)
  <2> DEFINE m == [mocks[k] EXCEPT !.owed = @ + 1]
  <2>1. m \in Mock /\ m.mox = mocks[k].mox
    BY <1>1, <1>2 DEF Record, Mock
  <2>2. mocks' = [mocks EXCEPT ![k] = m]
    BY <1>2 DEF Record
  <2> HIDE DEF m
  <2>3. mocks' \in Seq(Mock) /\ Len(mocks') = Len(mocks) /\ MocksStay
    BY <2>1, <2>2, MockReplaced
  <2>4. SlotsHoldMocks' /\ EveryStubCanBeUndone'
    BY <1>2, <2>3, LogsAreKept DEF Record
  <2> QED
    BY <1>2, <2>3, <2>4 DEF Record, RegistryInv, TypeOK, IsInjective
<1>3. CASE RecordInstance(k)
  <2>1. /\ mocks' \in Seq(Mock) /\ Len(mocks') <= MaxMocks /\ MocksStay
        /\ Len(mocks) + 1 \in MockIds
    BY <1>3, InstanceRecorded
  <2>2. moxes' \in [Address -> Mox] /\ \A b \in Address : moxes'[b].log = moxes[b].log
    BY <1>1, <1>3, <2>1, MoxExtended DEF RecordInstance
  <2>3. SlotsHoldMocks' /\ EveryStubCanBeUndone'
    BY <1>3, <2>1, <2>2, LogsAreKept DEF RecordInstance
  <2> QED
    BY <1>3, <2>1, <2>2, <2>3 DEF RecordInstance, RegistryInv, TypeOK, IsInjective
<1>4. CASE RecordTurnedDown(k)
  <2>1. MocksStay
    BY <1>4 DEF RecordTurnedDown, MocksStay
  <2>2. /\ moxes' \in [Address -> Mox] /\ slots' \in [Slot -> MockIds \cup {Original}]
        /\ SlotsHoldMocks' /\ EveryStubCanBeUndone'
    BY <1>4, <2>1, StubsUnsetForId DEF RecordTurnedDown, CallRaises
  <2> QED
    BY <1>4, <2>2 DEF RecordTurnedDown, CallRaises, RegistryInv, TypeOK, IsInjective
<1>5. CASE Answer(k, raises)
  <2> DEFINE rest == IF mocks[k].kind = "factory" THEN Tail(mocks[k].instances)
                     ELSE mocks[k].instances
             m == [mocks[k] EXCEPT !.owed = @ - 1, !.instances = rest]
  <2>1. rest \in Seq(MockIds)
    BY <1>1, <1>5, HeadTailProperties DEF Answer, Expected
  <2>2. mocks[k].owed - 1 \in 0..MaxOwed
    BY <1>1, <1>5 DEF Answer, Expected
  <2> HIDE DEF rest
  <2>3. m \in Mock /\ m.mox = mocks[k].mox
    BY <1>1, <2>1, <2>2 DEF Mock
  <2>4. mocks' = [mocks EXCEPT ![k] = m]
    BY <1>5 DEF Answer, rest
  <2> HIDE DEF m
  <2>5. mocks' \in Seq(Mock) /\ Len(mocks') = Len(mocks) /\ MocksStay
    BY <2>3, <2>4, MockReplaced
  <2>6. /\ moxes' \in [Address -> Mox] /\ slots' \in [Slot -> MockIds \cup {Original}]
        /\ SlotsHoldMocks' /\ EveryStubCanBeUndone'
    <3>1. CASE raises
      BY <1>5, <2>5, <3>1, StubsUnsetForId DEF Answer, CallRaises
    <3>2. CASE ~raises
      BY <1>5, <2>5, <3>2, LogsAreKept DEF Answer, RegistryInv, TypeOK
    <3> QED
      BY <3>1, <3>2
  <2> QED
    BY <1>5, <2>5, <2>6 DEF Answer, CallRaises, RegistryInv, TypeOK, IsInjective
<1>6. CASE Refuse(k)
  <2> DEFINE owed == IF Expected(k) THEN mocks[k].owed - 1 ELSE mocks[k].owed
             m == [mocks[k] EXCEPT !.thrown = TRUE, !.owed = owed]
  <2>1. owed \in 0..MaxOwed
    BY <1>1 DEF Expected
  <2>2. mocks' = [mocks EXCEPT ![k] = m]
    BY <1>6 DEF Refuse
  <2> HIDE DEF owed
  <2>3. m \in Mock /\ m.mox = mocks[k].mox
    BY <1>1, <2>1 DEF Mock
  <2> HIDE DEF m
  <2>4. mocks' \in Seq(Mock) /\ Len(mocks') = Len(mocks) /\ MocksStay
    BY <2>2, <2>3, MockReplaced
  <2>5. /\ moxes' \in [Address -> Mox] /\ slots' \in [Slot -> MockIds \cup {Original}]
        /\ SlotsHoldMocks' /\ EveryStubCanBeUndone'
    BY <1>6, <2>4, StubsUnsetForId DEF Refuse, CallRaises
  <2> QED
    BY <1>6, <2>4, <2>5 DEF Refuse, CallRaises, RegistryInv, TypeOK, IsInjective
<1>7. CASE AccessUnknown(k)
  <2> DEFINE m == [mocks[k] EXCEPT !.thrown = TRUE]
  <2>1. m \in Mock /\ m.mox = mocks[k].mox
    BY <1>1 DEF Mock
  <2>2. mocks' = [mocks EXCEPT ![k] = m]
    BY <1>7 DEF AccessUnknown
  <2> HIDE DEF m
  <2>3. mocks' \in Seq(Mock) /\ Len(mocks') = Len(mocks) /\ MocksStay
    BY <2>1, <2>2, MockReplaced
  <2>4. SlotsHoldMocks' /\ EveryStubCanBeUndone'
    BY <1>7, <2>3, LogsAreKept DEF AccessUnknown
  <2> QED
    BY <1>7, <2>3, <2>4 DEF AccessUnknown, RegistryInv, TypeOK, IsInjective
<1> QED
  BY <1>2, <1>3, <1>4, <1>5, <1>6, <1>7

-----------------------------------------------------------------------------
\* In the beginning nothing is stubbed.
LEMMA RegistryInit ==
  ASSUME Init
  PROVE  RegistryInv
<1>1. EmptyMox \in Mox /\ EmptyMox.log = <<>>
  BY EmptySeq DEF EmptyMox, Mox
<1>2. TypeOK
  <2>1. registry \in Seq(Address) /\ IsInjective(registry)
    BY EmptySeq DEF Init, IsInjective
  <2>2. mocks \in Seq(Mock) /\ Len(mocks) <= MaxMocks
    BY EmptySeq DEF Init
  <2> QED
    BY <1>1, <2>1, <2>2 DEF Init, TypeOK
<1>3. SlotsHoldMocks
  BY DEF Init, SlotsHoldMocks
<1>4. \A a \in Address, s \in Slot : Places(moxes[a].log, s) = {}
  BY <1>1 DEF Init, Places
<1>5. EveryStubCanBeUndone
  BY <1>4 DEF Init, EveryStubCanBeUndone, Undoable
<1> QED
  BY <1>2, <1>3, <1>5 DEF RegistryInv

\* Every step keeps the invariant.
LEMMA RegistryNext ==
  ASSUME RegistryInv, ~OverFactories, [Next]_vars
  PROVE  RegistryInv'
<1>1. held \subseteq Address
  BY DEF RegistryInv, TypeOK
<1>2. CASE UNCHANGED vars
  BY <1>2 DEF vars, RegistryInv, TypeOK, IsInjective, SlotsHoldMocks,
              EveryStubCanBeUndone, Undoable
<1>3. ASSUME NEW a \in Address, NewMox(a) \/ Collect(a) \/ Forget(a) \/ Release(a)
      PROVE  RegistryInv'
  BY <1>3, RegistryStep
<1>4. ASSUME NEW a \in held, MoxCall(a)
      PROVE  RegistryInv'
  <2>1. a \in Address
    BY <1>1
  <2>2. CASE \E kind \in {"object", "anything"} : CreateMock(a, kind)
    BY <2>1, <2>2, CreateMockStep
  <2>3. CASE \E s \in Slot, kind \in StuboutKind : Stubout(a, s, kind)
    BY <2>1, <2>3, StuboutStep
  <2>4. CASE \E s \in Slot, kind \in StuboutKind : StuboutTurnedDown(s, kind)
    BY <2>4, ModeStep DEF StuboutTurnedDown
  <2>5. CASE UnsetStubs(a) \/ VerifyAll(a)
    BY <2>1, <2>5, UnsetStep
  <2>6. CASE ReplayAll(a) \/ ResetAll(a)
    BY <2>6, ModeStep DEF ReplayAll, ResetAll
  <2> QED
    BY <1>4, <2>2, <2>3, <2>4, <2>5, <2>6 DEF MoxCall
<1>5. ASSUME NEW k \in DOMAIN mocks, MockCall(k)
      PROVE  RegistryInv'
  <2>1. CASE \/ Record(k) \/ RecordInstance(k) \/ RecordTurnedDown(k)
             \/ \E raises \in BOOLEAN : Answer(k, raises)
             \/ Refuse(k) \/ AccessUnknown(k)
    BY <2>1, CallStep
  <2>2. CASE Replay(k) \/ Reset(k) \/ Verify(k)
    BY <2>2, ModeStep DEF Replay, Reset, Verify
  <2> QED
    BY <1>5, <2>1, <2>2 DEF MockCall
<1>6. CASE GlobalReplay
  BY <1>6, ModeStep DEF GlobalReplay
<1>7. CASE GlobalVerify \/ GlobalUnsetStubs
  BY <1>7, UnsetStep
<1>8. CASE ResetInstances
  BY <1>8, RegistryStep
<1> QED
  BY <1>1, <1>2, <1>3, <1>4, <1>5, <1>6, <1>7, <1>8 DEF Next

\* The theorem that a stub is never lost track of: as long as no client stubs a slot
\* that holds a factory, in every reachable state each stubbed attribute has its
\* original in the log of the one Mox that stubbed it (stubout, unset_stubs,
\* unset_stubs_for_id, global_unset_stubs and __del__ in any order).
THEOREM EveryStubCanAlwaysBeUndone ==
  ~OverFactories => (Spec => []EveryStubCanBeUndone)
<1> SUFFICES ASSUME ~OverFactories
             PROVE  Spec => []EveryStubCanBeUndone
  OBVIOUS
<1>1. Init => RegistryInv
  BY RegistryInit
<1>2. RegistryInv /\ [Next]_vars => RegistryInv'
  BY RegistryNext
<1>3. RegistryInv => EveryStubCanBeUndone
  BY DEF RegistryInv
<1> QED
  BY <1>1, <1>2, <1>3, PTL DEF Spec

\* Type correctness, with a registry that has each Mox once.
THEOREM RegistryTypesHold ==
  ~OverFactories => (Spec => []TypeOK)
<1> SUFFICES ASSUME ~OverFactories
             PROVE  Spec => []TypeOK
  OBVIOUS
<1>1. Init => RegistryInv
  BY RegistryInit
<1>2. RegistryInv /\ [Next]_vars => RegistryInv'
  BY RegistryNext
<1>3. RegistryInv => TypeOK
  BY DEF RegistryInv
<1> QED
  BY <1>1, <1>2, <1>3, PTL DEF Spec

-----------------------------------------------------------------------------
(***************************************************************************)
(* Factories and their instances.                                          *)
(***************************************************************************)
\* What a mock needs to have.
Stocked(m) == m.kind = "factory" => m.owed <= Len(m.instances)

\* Steps that make a mock.
LEMMA MadeStocked ==
  ASSUME RegistryInv, ExpectedCreationsHaveInstances, Len(mocks) < MaxMocks,
         NEW a \in Address, NEW kind \in StuboutKind, mocks' = Append(mocks, NewMock(a, kind))
  PROVE  ExpectedCreationsHaveInstances'
<1> DEFINE m == NewMock(a, kind)
<1>1. m \in Mock /\ Stocked(m)
  BY EmptySeq DEF NewMock, Mock, Stocked, StuboutKind
<1> HIDE DEF m
<1>2. /\ mocks \in Seq(Mock) /\ Len(mocks) \in Nat /\ DOMAIN mocks = 1..Len(mocks)
  BY Types
<1>3. /\ mocks' \in Seq(Mock) /\ Len(mocks') = Len(mocks) + 1
      /\ \A k \in 1..Len(mocks) : mocks'[k] = mocks[k]
      /\ mocks'[Len(mocks) + 1] = m
  BY <1>1, <1>2, AppendProperties DEF m
<1>4. DOMAIN mocks' = 1..(Len(mocks) + 1)
  BY <1>3, LenProperties
<1>5. \A k \in DOMAIN mocks' : k \in DOMAIN mocks \/ k = Len(mocks) + 1
  BY <1>2, <1>4
<1> QED
  BY <1>1, <1>2, <1>3, <1>5 DEF ExpectedCreationsHaveInstances, Stocked

\* Steps that change one mock.
LEMMA ChangedStocked ==
  ASSUME RegistryInv, ExpectedCreationsHaveInstances, NEW k \in DOMAIN mocks,
         NEW m, Stocked(m), mocks' = [mocks EXCEPT ![k] = m]
  PROVE  ExpectedCreationsHaveInstances'
<1>1. mocks = [j \in DOMAIN mocks |-> mocks[j]]
  BY Types
<1> QED
  BY <1>1 DEF ExpectedCreationsHaveInstances, Stocked

\* Steps that replay or reset mocks: a reset leaves fewer calls than instances.
LEMMA ModesStocked ==
  ASSUME RegistryInv, ExpectedCreationsHaveInstances, NEW ids,
         mocks' = Replayed(ids) \/ mocks' = AfterReset(ids)
  PROVE  ExpectedCreationsHaveInstances'
<1>1. ASSUME NEW k \in DOMAIN mocks
      PROVE  Stocked(mocks'[k])
  <2>1. /\ mocks[k] \in Mock /\ Stocked(mocks[k])
        /\ mocks[k].instances \in Seq(MockIds) /\ Len(mocks[k].instances) \in Nat
    BY Types DEF ExpectedCreationsHaveInstances, Stocked
  <2>2. Stocked([mocks[k] EXCEPT !.replaying = TRUE])
    BY <2>1 DEF Mock, Stocked
  <2>3. Stocked([mocks[k] EXCEPT !.replaying = FALSE, !.owed = 0])
    <3> DEFINE m == [mocks[k] EXCEPT !.replaying = FALSE, !.owed = 0]
    <3>1. m.owed = 0 /\ m.instances = mocks[k].instances
      BY <2>1 DEF Mock
    <3> QED
      BY <2>1, <3>1 DEF Stocked
  <2> QED
    BY <2>1, <2>2, <2>3 DEF Replayed, AfterReset
<1>2. DOMAIN mocks' = DOMAIN mocks
  BY DEF Replayed, AfterReset
<1> QED
  BY <1>1, <1>2 DEF ExpectedCreationsHaveInstances, Stocked

\* A recorded creation gets its instance.
LEMMA InstanceStocked ==
  ASSUME RegistryInv, ExpectedCreationsHaveInstances, NEW k \in DOMAIN mocks,
         RecordInstance(k)
  PROVE  ExpectedCreationsHaveInstances'
<1> DEFINE new  == Len(mocks) + 1
           m    == [mocks[k] EXCEPT !.owed = @ + 1, !.instances = Append(@, new)]
           made == NewMock(mocks[k].mox, "object")
           recorded == [mocks EXCEPT ![k] = m]
<1>1. /\ mocks[k] \in Mock /\ mocks[k].kind = "factory" /\ mocks[k].owed \in 0..MaxOwed
      /\ mocks[k].instances \in Seq(MockIds) /\ Len(mocks[k].instances) \in Nat
      /\ mocks[k].owed <= Len(mocks[k].instances)
      /\ mocks \in Seq(Mock) /\ Len(mocks) \in Nat /\ DOMAIN mocks = 1..Len(mocks)
  BY Types DEF RecordInstance, ExpectedCreationsHaveInstances
<1>2. Stocked(m)
  <2>1. new \in MockIds
    BY InstanceRecorded
  <2>2. Len(Append(mocks[k].instances, new)) = Len(mocks[k].instances) + 1
    BY <1>1, <2>1, AppendProperties
  <2>3. m.owed = mocks[k].owed + 1 /\ m.instances = Append(mocks[k].instances, new)
    BY <1>1 DEF Mock
  <2> HIDE DEF m
  <2> QED
    BY <1>1, <2>2, <2>3 DEF Stocked
<1>3. Stocked(made)
  BY DEF NewMock, Stocked
<1>4. mocks' = Append(recorded, made)
  BY DEF RecordInstance
<1> HIDE DEF m, made
<1> DEFINE S == Mock \cup {m, made}
<1>5. mocks \in Seq(S) /\ made \in S /\ m \in S
  BY <1>1, SeqMonotonic
<1> HIDE DEF S
<1>6. /\ recorded \in Seq(S) /\ Len(recorded) = Len(mocks)
      /\ \A j \in 1..Len(mocks) : recorded[j] = IF j = k THEN m ELSE mocks[j]
  BY <1>1, <1>5, ExceptSeq
<1> HIDE DEF recorded
<1>7. /\ \A j \in 1..Len(mocks) : mocks'[j] = recorded[j]
      /\ mocks'[new] = made /\ DOMAIN mocks' = 1..new
  BY <1>4, <1>5, <1>6, AppendProperties, InstanceRecorded
<1>8. ASSUME NEW j \in DOMAIN mocks'
      PROVE  Stocked(mocks'[j])
  <2>1. j = new \/ j \in 1..Len(mocks)
    BY <1>1, <1>7
  <2>2. \A i \in 1..Len(mocks) : Stocked(mocks[i])
    BY <1>1 DEF ExpectedCreationsHaveInstances, Stocked
  <2> HIDE DEF new
  <2> QED
    BY <1>2, <1>3, <1>6, <1>7, <2>1, <2>2
<1> QED
  BY <1>8 DEF ExpectedCreationsHaveInstances, Stocked

\* Calls of a mock.
LEMMA CallStocked ==
  ASSUME RegistryInv, ExpectedCreationsHaveInstances, NEW k \in DOMAIN mocks, MockCall(k)
  PROVE  ExpectedCreationsHaveInstances'
<1>1. /\ mocks[k] \in Mock /\ Stocked(mocks[k]) /\ mocks[k].owed \in 0..MaxOwed
      /\ mocks[k].instances \in Seq(MockIds) /\ Len(mocks[k].instances) \in Nat
  BY Types DEF ExpectedCreationsHaveInstances, Stocked
<1>2. CASE mocks' = mocks
  BY <1>2 DEF ExpectedCreationsHaveInstances
<1>3. CASE AccessUnknown(k)
  <2> DEFINE m == [mocks[k] EXCEPT !.thrown = TRUE]
  <2>1. Stocked(m)
    BY <1>1 DEF Mock, Stocked
  <2>2. mocks' = [mocks EXCEPT ![k] = m]
    BY <1>3 DEF AccessUnknown
  <2> HIDE DEF m
  <2> QED
    BY <2>1, <2>2, ChangedStocked
<1>4. CASE Record(k)
  <2> DEFINE m == [mocks[k] EXCEPT !.owed = @ + 1]
  <2>1. m.kind # "factory"
    BY <1>1, <1>4 DEF Record, Mock
  <2>2. mocks' = [mocks EXCEPT ![k] = m]
    BY <1>4 DEF Record
  <2> HIDE DEF m
  <2> QED
    BY <2>1, <2>2, ChangedStocked DEF Stocked
<1>5. ASSUME NEW raises \in BOOLEAN, Answer(k, raises)
      PROVE  ExpectedCreationsHaveInstances'
  <2> DEFINE rest == IF mocks[k].kind = "factory" THEN Tail(mocks[k].instances)
                     ELSE mocks[k].instances
             m == [mocks[k] EXCEPT !.owed = @ - 1, !.instances = rest]
  <2>1. mocks' = [mocks EXCEPT ![k] = m]
    BY <1>5 DEF Answer
  <2>2. m.kind = mocks[k].kind /\ m.owed = mocks[k].owed - 1 /\ m.instances = rest
    BY <1>1 DEF Mock
  <2> HIDE DEF m
  <2>3. CASE mocks[k].kind = "factory"
    <3>1. Len(rest) = Len(mocks[k].instances) - 1
      BY <1>1, <1>5, <2>3, HeadTailProperties DEF Answer, Expected
    <3> HIDE DEF rest
    <3>2. Stocked(m)
      BY <1>1, <2>2, <2>3, <3>1 DEF Stocked
    <3> QED
      BY <2>1, <3>2, ChangedStocked
  <2>4. CASE mocks[k].kind # "factory"
    BY <2>1, <2>2, <2>4, ChangedStocked DEF Stocked
  <2> QED
    BY <2>3, <2>4
<1>6. CASE Refuse(k)
  <2> DEFINE owed == IF Expected(k) THEN mocks[k].owed - 1 ELSE mocks[k].owed
             m == [mocks[k] EXCEPT !.thrown = TRUE, !.owed = owed]
  <2>1. mocks' = [mocks EXCEPT ![k] = m]
    BY <1>6 DEF Refuse
  <2>2. owed <= mocks[k].owed /\ owed \in Int
    BY <1>1
  <2> HIDE DEF owed
  <2>3. m.kind = mocks[k].kind /\ m.owed = owed /\ m.instances = mocks[k].instances
    BY <1>1 DEF Mock
  <2> HIDE DEF m
  <2>4. Stocked(m)
    BY <1>1, <2>2, <2>3 DEF Stocked
  <2> QED
    BY <2>1, <2>4, ChangedStocked
<1>7. CASE Replay(k) \/ Reset(k)
  BY <1>7, ModesStocked DEF Replay, Reset
<1>8. CASE RecordInstance(k)
  BY <1>8, InstanceStocked
<1>9. CASE RecordTurnedDown(k) \/ Verify(k)
  BY <1>2, <1>9 DEF RecordTurnedDown, Verify
<1> QED
  BY <1>3, <1>4, <1>5, <1>6, <1>7, <1>8, <1>9 DEF MockCall

\* Every step.
LEMMA NextStocked ==
  ASSUME RegistryInv, ExpectedCreationsHaveInstances, [Next]_vars
  PROVE  ExpectedCreationsHaveInstances'
<1>1. CASE mocks' = mocks
  BY <1>1 DEF ExpectedCreationsHaveInstances
<1>2. ASSUME NEW a \in held, MoxCall(a)
      PROVE  ExpectedCreationsHaveInstances'
  <2>1. a \in Address
    BY DEF RegistryInv, TypeOK
  <2>2. ASSUME NEW kind \in {"object", "anything"}, CreateMock(a, kind)
        PROVE  ExpectedCreationsHaveInstances'
    BY <2>1, <2>2, MadeStocked DEF CreateMock, MakeMock, StuboutKind
  <2>3. ASSUME NEW s \in Slot, NEW kind \in StuboutKind, Stubout(a, s, kind)
        PROVE  ExpectedCreationsHaveInstances'
    BY <2>1, <2>3, MadeStocked DEF Stubout, Replace
  <2>4. CASE ReplayAll(a) \/ ResetAll(a)
    BY <2>4, ModesStocked DEF ReplayAll, ResetAll
  <2>5. CASE \/ \E s \in Slot, kind \in StuboutKind : StuboutTurnedDown(s, kind)
             \/ UnsetStubs(a) \/ VerifyAll(a)
    BY <1>1, <2>5 DEF StuboutTurnedDown, UnsetStubs, VerifyAll
  <2> QED
    BY <1>2, <2>2, <2>3, <2>4, <2>5 DEF MoxCall
<1>3. ASSUME NEW k \in DOMAIN mocks, MockCall(k)
      PROVE  ExpectedCreationsHaveInstances'
  BY <1>3, CallStocked
<1>4. CASE GlobalReplay
  BY <1>4, ModesStocked DEF GlobalReplay
<1>5. CASE \/ \E a \in Address : NewMox(a) \/ Collect(a) \/ Forget(a) \/ Release(a)
           \/ GlobalVerify \/ GlobalUnsetStubs \/ ResetInstances \/ UNCHANGED vars
  BY <1>1, <1>5 DEF NewMox, Collect, Forget, Release, GlobalVerify, VerifyAll,
                    GlobalUnsetStubs, ResetInstances, vars
<1> QED
  BY <1>2, <1>3, <1>4, <1>5, Types DEF Next, RegistryInv, TypeOK

\* An expected creation always finds an instance in the factory: calls and instances
\* are kept apart, and whatever is recorded, refused and reset, the calls that are
\* expected are never the more (_MockObjectFactory.__call__, MockAnything._reset).
THEOREM ExpectedCreationsAlwaysHaveInstances ==
  ~OverFactories => (Spec => []ExpectedCreationsHaveInstances)
<1> SUFFICES ASSUME ~OverFactories
             PROVE  Spec => []ExpectedCreationsHaveInstances
  OBVIOUS
<1> DEFINE Inv == RegistryInv /\ ExpectedCreationsHaveInstances
<1>1. Init => Inv
  BY RegistryInit, EmptySeq DEF Init, ExpectedCreationsHaveInstances
<1>2. Inv /\ [Next]_vars => Inv'
  BY RegistryNext, NextStocked
<1>3. Inv => ExpectedCreationsHaveInstances
  OBVIOUS
<1> QED
  BY <1>1, <1>2, <1>3, PTL DEF Spec

-----------------------------------------------------------------------------
(***************************************************************************)
(* Proofs about expect blocks, for any number of Mox instances, mocks and  *)
(* nested blocks.                                                          *)
(*                                                                         *)
(* The stubs of mox.expect say nothing about who set them.  The invariant  *)
(* StubsOfSingle says it: unless a call with something that is not a mock  *)
(* left them, they are those of the innermost open block that was given    *)
(* stubs.  MocksExist says that a Mox lists nothing but mocks that were    *)
(* made; the converse does not hold, a mock may be in no Mox.              *)
(***************************************************************************)
MocksExist == \A a \in Address : MocksOf(a) \subseteq DOMAIN mocks

Block == [kind : {"bare", "given", "own", "mox"}, ids : SUBSET MockIds,
          of : SUBSET Address]

BlocksExist ==
  /\ blocks \in Seq(Block)
  /\ \A i \in 1..Len(blocks) : blocks[i].ids \subseteq DOMAIN mocks

InnermostGiven(i, open) ==
  /\ open[i].kind = "given"
  /\ \A j \in (i + 1)..Len(open) : open[j].kind # "given"

StubsOfSingle ==
  NotAMock \notin single /\ single # {} =>
    \E i \in 1..Len(blocks) : InnermostGiven(i, blocks) /\ single = blocks[i].ids

ExpectInv == RegistryInv /\ MocksExist /\ BlocksExist /\ StubsOfSingle

-----------------------------------------------------------------------------
(***************************************************************************)
(* What the Mox instances list.                                            *)
(***************************************************************************)
\* Steps that add nothing to a Mox.
LEMMA NothingListed ==
  ASSUME MocksExist, DOMAIN mocks \subseteq DOMAIN mocks',
         \A a \in Address : moxes'[a].mocks = moxes[a].mocks
  PROVE  MocksExist'
BY DEF MocksExist, MocksOf

\* A mock is made for a Mox.
LEMMA NewMockListed ==
  ASSUME RegistryInv, MocksExist, NEW a \in Address,
         moxes' = [moxes EXCEPT ![a].mocks = Append(@, Len(mocks) + 1)],
         Len(mocks) + 1 \in MockIds, Len(mocks) + 1 \in DOMAIN mocks',
         DOMAIN mocks \subseteq DOMAIN mocks'
  PROVE  MocksExist'
<1> DEFINE new == Len(mocks) + 1
<1>1. moxes \in [Address -> Mox] /\ \A b \in Address : moxes[b].mocks \in Seq(MockIds)
  BY Types
<1>2. /\ moxes'[a].mocks = Append(moxes[a].mocks, new)
      /\ \A b \in Address \ {a} : moxes'[b].mocks = moxes[b].mocks
  BY <1>1 DEF Mox
<1> HIDE DEF new
<1>3. ToSet(moxes'[a].mocks) = ToSet(moxes[a].mocks) \cup {new}
  BY <1>1, <1>2, ToSetAppend DEF new
<1>4. new \in DOMAIN mocks'
  BY DEF new
<1> QED
  BY <1>2, <1>3, <1>4 DEF MocksExist, MocksOf

\* Unsetting stubs leaves the mocks of each Mox.
LEMMA UnsetKeepsMocks ==
  ASSUME RegistryInv, NEW addresses, moxes' = WithoutLogs(addresses) \/ UNCHANGED moxes
  PROVE  \A a \in Address : moxes'[a].mocks = moxes[a].mocks
<1>1. \A a \in Address : moxes[a] \in Mox
  BY Types
<1> QED
  BY <1>1 DEF WithoutLogs, Mox

\* Calls of a mock.
LEMMA CallKeepsMocks ==
  ASSUME RegistryInv, MocksExist, NEW k \in DOMAIN mocks, MockCall(k)
  PROVE  MocksExist' /\ RegistryInv' /\ DOMAIN mocks \subseteq DOMAIN mocks'
<1>1. CASE RecordInstance(k)
  <2>1. RegistryInv'
    BY <1>1, CallStep
  <2>2. mocks[k].mox \in Address
    BY <1>1, Types DEF RecordInstance
  <2>3. /\ MocksStay /\ Len(mocks) + 1 \in MockIds
        /\ Len(mocks) + 1 \in DOMAIN mocks'
    BY <1>1, InstanceRecorded, Types
  <2>4. MocksExist'
    BY <1>1, <2>2, <2>3, NewMockListed DEF RecordInstance, MocksStay
  <2> QED
    BY <2>1, <2>3, <2>4 DEF MocksStay
<1>2. CASE Replay(k) \/ Reset(k) \/ Verify(k)
  <2>1. /\ mocks' = Replayed({k}) \/ mocks' = AfterReset({k}) \/ mocks' = mocks
        /\ UNCHANGED <<moxes, registry, held, slots>> /\ raised' \in {"none", "Error"}
    BY <1>2 DEF Replay, Reset, Verify
  <2>2. RegistryInv'
    BY <2>1, ModeStep
  <2>3. DOMAIN mocks' = DOMAIN mocks
    BY <2>1 DEF Replayed, AfterReset
  <2>4. MocksExist'
    BY <2>1, <2>3, NothingListed
  <2> QED
    BY <2>2, <2>3, <2>4
<1>3. ASSUME NEW raises \in BOOLEAN,
             \/ AccessUnknown(k) \/ Record(k) \/ RecordTurnedDown(k)
             \/ Answer(k, raises) \/ Refuse(k)
      PROVE  MocksExist' /\ RegistryInv' /\ DOMAIN mocks \subseteq DOMAIN mocks'
  <2>1. RegistryInv'
    BY <1>3, CallStep
  <2>2. DOMAIN mocks' = DOMAIN mocks
    BY <1>3 DEF AccessUnknown, Record, RecordTurnedDown, Answer, Refuse
  <2>3. moxes' = WithoutLogs(<<mocks[k].mox>>) \/ UNCHANGED moxes
    BY <1>3 DEF AccessUnknown, Record, RecordTurnedDown, Answer, Refuse, CallRaises,
                UnsetStubsForId
  <2>4. \A a \in Address : moxes'[a].mocks = moxes[a].mocks
    BY <2>3, UnsetKeepsMocks
  <2>5. MocksExist'
    BY <2>2, <2>4, NothingListed
  <2> QED
    BY <2>1, <2>2, <2>5
<1> QED
  BY <1>1, <1>2, <1>3 DEF MockCall

\* What happens inside and outside of blocks.
LEMMA BodyKeepsMocks ==
  ASSUME RegistryInv, MocksExist, Body
  PROVE  MocksExist' /\ RegistryInv' /\ DOMAIN mocks \subseteq DOMAIN mocks'
<1>1. held \subseteq Address
  BY DEF RegistryInv, TypeOK
<1>2. ASSUME NEW a \in Address, NewMox(a) \/ Forget(a)
      PROVE  MocksExist' /\ RegistryInv' /\ DOMAIN mocks \subseteq DOMAIN mocks'
  <2>1. RegistryInv'
    BY <1>2, RegistryStep
  <2>2. UNCHANGED <<moxes, mocks>>
    BY <1>2 DEF NewMox, Forget
  <2> QED
    BY <2>1, <2>2, NothingListed
<1>3. ASSUME NEW a \in Address, CreateMock(a, "anything")
      PROVE  MocksExist' /\ RegistryInv' /\ DOMAIN mocks \subseteq DOMAIN mocks'
  <2>1. RegistryInv'
    BY <1>3, CreateMockStep
  <2>2. /\ MocksStay /\ Len(mocks) + 1 \in MockIds
        /\ Len(mocks) + 1 \in DOMAIN mocks'
    BY <1>3, MockAdded DEF CreateMock, MakeMock
  <2>3. MocksExist'
    BY <1>3, <2>2, NewMockListed DEF CreateMock, MakeMock, MocksStay
  <2> QED
    BY <2>1, <2>2, <2>3 DEF MocksStay
<1>4. CASE MakeFreeMock
  <2>1. mocks' \in Seq(Mock) /\ Len(mocks') <= MaxMocks /\ MocksStay
    BY <1>4, MockAdded DEF MakeFreeMock
  <2>2. SlotsHoldMocks' /\ EveryStubCanBeUndone'
    BY <1>4, <2>1, LogsAreKept DEF MakeFreeMock
  <2>3. RegistryInv'
    BY <1>4, <2>1, <2>2 DEF MakeFreeMock, RegistryInv, TypeOK, IsInjective
  <2>4. MocksExist'
    BY <1>4, <2>1, NothingListed DEF MakeFreeMock, MocksStay
  <2> QED
    BY <2>1, <2>3, <2>4 DEF MocksStay
<1> QED
  BY <1>1, <1>2, <1>3, <1>4, CallKeepsMocks DEF Body

\* Entering and leaving blocks resets and replays mocks, and does nothing else to them.
LEMMA ModesKeepMocks ==
  ASSUME RegistryInv, MocksExist, NEW ids,
         mocks' = Replayed(ids) \/ mocks' = AfterReset(ids) \/ mocks' = mocks,
         raised' \in {"none", "AttributeError"},
         UNCHANGED <<moxes, registry, held, slots>>
  PROVE  MocksExist' /\ RegistryInv' /\ DOMAIN mocks' = DOMAIN mocks
<1>1. RegistryInv'
  BY ModeStep
<1>2. DOMAIN mocks' = DOMAIN mocks
  BY DEF Replayed, AfterReset
<1>3. MocksExist'
  BY <1>2, NothingListed
<1> QED
  BY <1>1, <1>2, <1>3

-----------------------------------------------------------------------------
(***************************************************************************)
(* The open blocks, and the stubs of mox.expect.                           *)
(***************************************************************************)
\* A block is opened that leaves the stubs of mox.expect as they are.
LEMMA BlockOpened ==
  ASSUME BlocksExist, StubsOfSingle, NEW block \in Block, block.ids \subseteq DOMAIN mocks,
         block.kind # "given",
         blocks' = Append(blocks, block), single' = single, DOMAIN mocks' = DOMAIN mocks
  PROVE  BlocksExist' /\ StubsOfSingle'
<1>1. /\ blocks \in Seq(Block) /\ Len(blocks) \in Nat
      /\ blocks' \in Seq(Block) /\ Len(blocks') = Len(blocks) + 1
      /\ \A i \in 1..Len(blocks) : blocks'[i] = blocks[i]
      /\ blocks'[Len(blocks) + 1] = block
  BY AppendProperties, LenProperties DEF BlocksExist
<1>2. BlocksExist'
  BY <1>1 DEF BlocksExist
<1>3. ASSUME NotAMock \notin single', single' # {}
      PROVE  \E i \in 1..Len(blocks') : InnermostGiven(i, blocks') /\ single' = blocks'[i].ids
  <2>1. PICK i \in 1..Len(blocks) : InnermostGiven(i, blocks) /\ single = blocks[i].ids
    BY <1>3 DEF StubsOfSingle
  <2>2. i \in 1..Len(blocks') /\ blocks'[i] = blocks[i]
    BY <1>1
  <2>3. ASSUME NEW j \in (i + 1)..Len(blocks') PROVE blocks'[j].kind # "given"
    <3>1. CASE j = Len(blocks) + 1
      BY <1>1, <3>1
    <3>2. CASE j # Len(blocks) + 1
      <4>1. j \in 1..Len(blocks) /\ j \in (i + 1)..Len(blocks)
        BY <1>1, <3>2
      <4> QED
        BY <1>1, <2>1, <4>1 DEF InnermostGiven
    <3> QED
      BY <3>1, <3>2
  <2>4. InnermostGiven(i, blocks')
    BY <2>1, <2>2, <2>3 DEF InnermostGiven
  <2> QED
    BY <2>1, <2>2, <2>4
<1> QED
  BY <1>2, <1>3 DEF StubsOfSingle

\* A block is opened that sets the stubs of mox.expect.
LEMMA GivenOpened ==
  ASSUME BlocksExist, NEW ids, ids \subseteq DOMAIN mocks, DOMAIN mocks \subseteq MockIds,
         blocks' = Append(blocks, Given(ids)), single' = ids, DOMAIN mocks' = DOMAIN mocks
  PROVE  BlocksExist' /\ StubsOfSingle'
<1>1. Given(ids) \in Block /\ Given(ids).kind = "given" /\ Given(ids).ids = ids
  BY DEF Given, Block
<1>2. /\ blocks \in Seq(Block) /\ Len(blocks) \in Nat
      /\ blocks' \in Seq(Block) /\ Len(blocks') = Len(blocks) + 1
      /\ \A i \in 1..Len(blocks) : blocks'[i] = blocks[i]
      /\ blocks'[Len(blocks) + 1] = Given(ids)
  BY <1>1, AppendProperties, LenProperties DEF BlocksExist
<1>3. BlocksExist'
  <2>1. \A i \in 1..Len(blocks') : blocks'[i].ids \subseteq DOMAIN mocks'
    BY <1>1, <1>2 DEF BlocksExist
  <2> QED
    BY <1>2, <2>1 DEF BlocksExist
<1>4. InnermostGiven(Len(blocks'), blocks')
  BY <1>1, <1>2 DEF InnermostGiven
<1>5. Len(blocks') \in 1..Len(blocks') /\ blocks'[Len(blocks')].ids = ids
  BY <1>1, <1>2
<1> QED
  BY <1>3, <1>4, <1>5 DEF StubsOfSingle

\* A block is left, and the stubs of mox.expect are dropped, or are not its own.
LEMMA BlockLeft ==
  ASSUME BlocksExist, StubsOfSingle, blocks # <<>>, blocks' = Front(blocks),
         single' = {} \/ (single' = single /\ Last(blocks).kind # "given"),
         DOMAIN mocks' = DOMAIN mocks
  PROVE  BlocksExist' /\ StubsOfSingle'
<1>1. /\ blocks' \in Seq(Block) /\ Len(blocks') = Len(blocks) - 1 /\ Len(blocks) \in Nat \ {0}
      /\ \A i \in 1..(Len(blocks) - 1) : blocks'[i] = blocks[i]
      /\ Last(blocks) = blocks[Len(blocks)]
  BY WithoutLast DEF BlocksExist
<1>2. BlocksExist'
  BY <1>1 DEF BlocksExist
<1>3. ASSUME NotAMock \notin single', single' # {}
      PROVE  \E i \in 1..Len(blocks') : InnermostGiven(i, blocks') /\ single' = blocks'[i].ids
  <2>1. PICK i \in 1..Len(blocks) : InnermostGiven(i, blocks) /\ single = blocks[i].ids
    BY <1>3 DEF StubsOfSingle
  <2>2. i # Len(blocks)
    BY <1>1, <1>3, <2>1 DEF InnermostGiven
  <2>3. i \in 1..Len(blocks') /\ blocks'[i] = blocks[i]
    BY <1>1, <2>2
  <2>4. \A j \in (i + 1)..Len(blocks') : j \in (i + 1)..Len(blocks) /\ blocks'[j] = blocks[j]
    BY <1>1
  <2>5. InnermostGiven(i, blocks')
    BY <2>1, <2>3, <2>4 DEF InnermostGiven
  <2> QED
    BY <1>3, <2>1, <2>3, <2>5
<1> QED
  BY <1>2, <1>3 DEF StubsOfSingle

\* Nothing is opened or left; what a failing call sets is not only mocks.
LEMMA BlocksStay ==
  ASSUME BlocksExist, StubsOfSingle, blocks' = blocks,
         single' = single \/ NotAMock \in single', DOMAIN mocks \subseteq DOMAIN mocks'
  PROVE  BlocksExist' /\ StubsOfSingle'
BY DEF BlocksExist, StubsOfSingle, InnermostGiven

-----------------------------------------------------------------------------
\* In the beginning there is nothing.
LEMMA ExpectStarts == ExpectInit => ExpectInv
<1> SUFFICES ASSUME ExpectInit PROVE ExpectInv
  OBVIOUS
<1>1. RegistryInv
  BY RegistryInit DEF ExpectInit
<1>2. MocksExist
  BY DEF ExpectInit, Init, MocksExist, MocksOf, EmptyMox, ToSet
<1>3. BlocksExist /\ StubsOfSingle
  BY EmptySeq DEF ExpectInit, BlocksExist, StubsOfSingle
<1> QED
  BY <1>1, <1>2, <1>3 DEF ExpectInv

\* The blocks that EnterOther enters.
LEMMA OtherBlocks ==
  ASSUME RegistryInv
  PROVE  /\ DOMAIN mocks \subseteq MockIds
         /\ Bare \in Block /\ Bare.ids \subseteq DOMAIN mocks /\ Bare.kind = "bare"
         /\ \A k \in DOMAIN mocks :
              Own(k) \in Block /\ Own(k).ids \subseteq DOMAIN mocks /\ Own(k).kind = "own"
         /\ \A a \in held :
              OfMox(a) \in Block /\ OfMox(a).ids \subseteq DOMAIN mocks /\ OfMox(a).kind = "mox"
<1>1. DOMAIN mocks \subseteq MockIds
  BY Types, BoundsAssumption DEF MockIds
<1>2. held \subseteq Address
  BY DEF RegistryInv, TypeOK
<1> QED
  BY <1>1, <1>2 DEF Bare, Own, OfMox, Block

\* Every step.
LEMMA ExpectStep == ExpectInv /\ [ExpectNext]_expectVars => ExpectInv'
<1> SUFFICES ASSUME ExpectInv, [ExpectNext]_expectVars PROVE ExpectInv'
  OBVIOUS
<1>1. RegistryInv /\ MocksExist /\ BlocksExist /\ StubsOfSingle
  BY DEF ExpectInv
<1>2. ASSUME NEW block, NEW stubs, Open(block, stubs)
      PROVE  /\ MocksExist' /\ RegistryInv' /\ DOMAIN mocks' = DOMAIN mocks
             /\ blocks' = Append(blocks, block)
  BY <1>1, <1>2, ModesKeepMocks DEF Open
<1>3. CASE EnterBare
  <2>1. Open(Bare, single) /\ single' = single
    BY <1>3 DEF EnterBare
  <2> QED
    BY <1>1, <1>2, <2>1, BlockOpened, OtherBlocks DEF ExpectInv
<1>4. ASSUME NEW ids \in SUBSET (DOMAIN mocks), EnterGiven(ids) PROVE ExpectInv'
  <2>1. Open(Given(ids), ids) /\ single' = ids
    BY <1>4 DEF EnterGiven
  <2>2. ids \subseteq DOMAIN mocks /\ DOMAIN mocks \subseteq MockIds
    BY <1>1, OtherBlocks
  <2> QED
    BY <1>1, <1>2, <2>1, <2>2, GivenOpened DEF ExpectInv
<1>5. ASSUME NEW block, EnterOther(block),
             \/ \E k \in DOMAIN mocks : block = Own(k)
             \/ \E a \in held : block = OfMox(a)
      PROVE  ExpectInv'
  <2>1. Open(block, MocksOfBlock(block)) /\ single' = single
    BY <1>5 DEF EnterOther
  <2>2. block \in Block /\ block.ids \subseteq DOMAIN mocks /\ block.kind # "given"
    BY <1>1, <1>5, OtherBlocks
  <2> QED
    BY <1>1, <1>2, <2>1, <2>2, BlockOpened DEF ExpectInv
<1>6. ASSUME NEW stubs, ResetRaises(stubs), single' = stubs \/ single' = single
      PROVE  ExpectInv'
  <2>1. PICK done : mocks' = AfterReset(done)
    BY <1>6 DEF ResetRaises
  <2>2. MocksExist' /\ RegistryInv' /\ DOMAIN mocks' = DOMAIN mocks
    BY <1>1, <1>6, <2>1, ModesKeepMocks DEF ResetRaises
  <2>3. BlocksExist' /\ StubsOfSingle'
    BY <1>1, <1>6, <2>2, BlocksStay DEF ResetRaises
  <2> QED
    BY <2>2, <2>3 DEF ExpectInv
<1>7. ASSUME NEW ids, EnterGivenFails(ids) PROVE ExpectInv'
  BY <1>6, <1>7 DEF EnterGivenFails
<1>8. CASE EnterBareFails
  BY <1>6, <1>8 DEF EnterBareFails
<1>9. CASE ExitSingle \/ ExitSingleFails
  <2>1. PICK done : mocks' = Replayed(done)
    BY <1>9 DEF ExitSingle, ExitSingleFails
  <2>2. /\ raised' \in {"none", "AttributeError"} /\ UNCHANGED <<moxes, registry, held, slots>>
        /\ blocks # <<>> /\ blocks' = Front(blocks) /\ single' = {}
    BY <1>9 DEF ExitSingle, ExitSingleFails, OfSingle, StubsAfterExit
  <2>3. MocksExist' /\ RegistryInv' /\ DOMAIN mocks' = DOMAIN mocks
    BY <1>1, <2>1, <2>2, ModesKeepMocks
  <2>4. BlocksExist' /\ StubsOfSingle'
    BY <1>1, <2>2, <2>3, BlockLeft
  <2> QED
    BY <2>3, <2>4 DEF ExpectInv
<1>10. CASE ExitOther
  <2>1. /\ mocks' = Replayed(MocksOfBlock(Last(blocks))) /\ raised' = "none"
        /\ UNCHANGED <<moxes, registry, held, slots>>
        /\ blocks # <<>> /\ blocks' = Front(blocks) /\ single' = single
        /\ Last(blocks).kind # "given"
    BY <1>10 DEF ExitOther, OfSingle
  <2>2. MocksExist' /\ RegistryInv' /\ DOMAIN mocks' = DOMAIN mocks
    BY <1>1, <2>1, ModesKeepMocks
  <2>3. BlocksExist' /\ StubsOfSingle'
    BY <1>1, <2>1, <2>2, BlockLeft
  <2> QED
    BY <2>2, <2>3 DEF ExpectInv
<1>11. CASE Body
  <2>1. MocksExist' /\ RegistryInv' /\ DOMAIN mocks \subseteq DOMAIN mocks'
    BY <1>1, <1>11, BodyKeepsMocks
  <2>2. BlocksExist' /\ StubsOfSingle'
    BY <1>1, <1>11, <2>1, BlocksStay DEF Body
  <2> QED
    BY <2>1, <2>2 DEF ExpectInv
<1>12. CASE UNCHANGED expectVars
  <2>1. RegistryInv'
    BY <1>1, <1>12 DEF expectVars, RegistryInv, TypeOK, IsInjective, SlotsHoldMocks,
                       EveryStubCanBeUndone, Undoable
  <2>2. MocksExist' /\ BlocksExist' /\ StubsOfSingle'
    BY <1>1, <1>12 DEF expectVars, MocksExist, MocksOf, Registered, BlocksExist, StubsOfSingle
  <2> QED
    BY <2>1, <2>2 DEF ExpectInv
<1> QED
  BY <1>3, <1>4, <1>5, <1>7, <1>8, <1>9, <1>10, <1>11, <1>12 DEF ExpectNext

\* The invariant always holds.
LEMMA ExpectAlways == ExpectSpec => []ExpectInv
BY ExpectStarts, ExpectStep, PTL DEF ExpectSpec

-----------------------------------------------------------------------------
(***************************************************************************)
(* The properties.                                                         *)
(***************************************************************************)
\* What opens a block, and what leaves one without an exception.
LEMMA OpenedOrLeft ==
  ASSUME ExpectInv, [ExpectNext]_expectVars
  PROVE  /\ Entered => \/ EnterBare
                       \/ \E ids : EnterGiven(ids)
                       \/ \E block : EnterOther(block)
         /\ Len(blocks') < Len(blocks) /\ raised' = "none" => ExitSingle \/ ExitOther
<1>1. blocks \in Seq(Block) /\ Len(blocks) \in Nat
  BY LenProperties DEF ExpectInv, BlocksExist
<1>2. ASSUME NEW block, blocks' = Append(blocks, block) PROVE ~(Len(blocks') < Len(blocks))
  <2>1. blocks \in Seq(Block \cup {block}) /\ block \in Block \cup {block}
    BY <1>1, SeqMonotonic
  <2>2. Len(blocks') = Len(blocks) + 1
    BY <1>2, <2>1, AppendProperties
  <2> QED
    BY <1>1, <2>2
<1>3. ASSUME blocks # <<>>, blocks' = Front(blocks) PROVE ~Entered
  <2>1. Len(blocks') = Len(blocks) - 1
    BY <1>1, <1>3, WithoutLast
  <2> QED
    BY <1>1, <2>1 DEF Entered
<1>4. ASSUME blocks' = blocks PROVE ~Entered /\ ~(Len(blocks') < Len(blocks))
  BY <1>1, <1>4 DEF Entered
<1>5. CASE EnterBare \/ (\E ids : EnterGiven(ids)) \/ (\E block : EnterOther(block))
  <2>1. \E block : blocks' = Append(blocks, block)
    BY <1>5 DEF EnterBare, EnterGiven, EnterOther, Open
  <2> QED
    BY <1>2, <1>5, <2>1
<1>6. CASE ExitSingle \/ ExitSingleFails \/ ExitOther
  <2>1. blocks # <<>> /\ blocks' = Front(blocks)
    BY <1>6 DEF ExitSingle, ExitSingleFails, ExitOther, OfSingle
  <2>2. ExitSingleFails => raised' # "none"
    BY DEF ExitSingleFails
  <2> QED
    BY <1>3, <1>6, <2>1, <2>2
<1>7. CASE (\E ids : EnterGivenFails(ids)) \/ EnterBareFails \/ Body \/ UNCHANGED expectVars
  <2>1. blocks' = blocks
    BY <1>7 DEF EnterGivenFails, EnterBareFails, ResetRaises, Body, expectVars
  <2> QED
    BY <1>4, <2>1
<1> QED
  BY <1>5, <1>6, <1>7 DEF ExpectNext

\* Replaying reaches each of the mocks.
LEMMA ReplayReaches ==
  ASSUME RegistryInv, NEW ids, mocks' = Replayed(ids), NEW k \in ids, k \in DOMAIN mocks
  PROVE  mocks'[k].replaying
<1>1. [mocks[k] EXCEPT !.replaying = TRUE].replaying
  BY Types DEF Mock
<1> QED
  BY <1>1 DEF Replayed, WithInstances

\* A bare block that is not inside of one with stubs finds mox.expect without stubs.
LEMMA BareHasNone ==
  ASSUME BlocksExist, StubsOfSingle, NotAMock \notin single, blocks # <<>>,
         Last(blocks).kind # "given", ~InsideGiven(blocks)
  PROVE  single = {}
<1> SUFFICES ASSUME single # {} PROVE FALSE
  OBVIOUS
<1>1. PICK i \in 1..Len(blocks) : blocks[i].kind = "given"
  BY DEF StubsOfSingle, InnermostGiven
<1>2. Last(blocks) = blocks[Len(blocks)] /\ Len(blocks) \in Nat
  BY WithoutLast DEF BlocksExist
<1>3. i \in 1..(Len(blocks) - 1)
  BY <1>1, <1>2
<1> QED
  BY <1>1, <1>3 DEF InsideGiven

\* The mocks of the last block were made.
LEMMA LastBlock ==
  ASSUME BlocksExist, blocks # <<>>
  PROVE  /\ Last(blocks) = blocks[Len(blocks)] /\ Len(blocks) \in Nat \ {0}
         /\ Last(blocks).ids \subseteq DOMAIN mocks
BY WithoutLast DEF BlocksExist

\* The stubs of mox.expect, if it has any, are those of a block that is left and was
\* given stubs.
LEMMA GivenHasItsStubs ==
  ASSUME BlocksExist, StubsOfSingle, NotAMock \notin single, single # {}, blocks # <<>>,
         Last(blocks).kind = "given"
  PROVE  single = Last(blocks).ids
<1>1. PICK i \in 1..Len(blocks) : InnermostGiven(i, blocks) /\ single = blocks[i].ids
  BY DEF StubsOfSingle
<1>2. Last(blocks) = blocks[Len(blocks)] /\ Len(blocks) \in Nat \ {0}
  BY LastBlock
<1>3. i # Len(blocks) => Len(blocks) \in (i + 1)..Len(blocks)
  BY <1>2
<1>4. i = Len(blocks)
  BY <1>1, <1>2, <1>3 DEF InnermostGiven
<1> QED
  BY <1>1, <1>2, <1>4

\* Outside of all blocks mox.expect has no stubs but what a call with something that
\* is not a mock left (Expect.__exit__ in contextmanagers.py).
THEOREM NoStubsAreLeftOver == ExpectSpec => []NoLeftoverStubs
<1>1. ExpectInv => NoLeftoverStubs
  BY EmptySeq DEF ExpectInv, StubsOfSingle, NoLeftoverStubs
<1> QED
  BY <1>1, ExpectAlways, PTL

\* Leaving a bare block that is not inside of one with stubs replays every mock of every
\* registered Mox (global_replay in Expect.__exit__).
THEOREM BareBlocksReplayAll == ExpectSpec => BareBlockReplaysAll
<1> DEFINE Says == Left("bare") /\ ~InsideGiven(blocks) =>
                     \A a \in Registered : \A k \in MocksOf(a) : mocks'[k].replaying
<1>1. ExpectInv /\ [ExpectNext]_expectVars => [Says]_expectVars
  <2> SUFFICES ASSUME ExpectInv, [ExpectNext]_expectVars, Left("bare"), ~InsideGiven(blocks),
                      NEW a \in Registered, NEW k \in MocksOf(a)
               PROVE  mocks'[k].replaying
    OBVIOUS
  <2>1. ExitSingle
    BY OpenedOrLeft DEF Left, ExitOther, OfSingle
  <2>2. single = {}
    BY <2>1, BareHasNone DEF ExpectInv, ExitSingle, OfSingle, Left
  <2>3. mocks' = Replayed(UNION {MocksOf(b) : b \in Registered})
    BY <2>1, <2>2 DEF ExitSingle, ReplayedOnExit
  <2>4. k \in DOMAIN mocks /\ k \in UNION {MocksOf(b) : b \in Registered}
    BY Types DEF ExpectInv, MocksExist
  <2> QED
    BY <2>3, <2>4, ReplayReaches DEF ExpectInv
<1> QED
  BY <1>1, ExpectAlways, PTL DEF ExpectSpec, BareBlockReplaysAll

\* Leaving "with mox.expect(stub, ...)" replays the given stubs; when a block inside has
\* taken the stubs of mox.expect away, those that global_replay reaches.
THEOREM GivenStubsAreAlwaysReplayed == ExpectSpec => GivenStubsAreReplayed
<1> DEFINE Says == Left("given") =>
                     \A k \in Last(blocks).ids :
                       mocks'[k].replaying \/ (single = {} /\ ~OfRegistered(k))
<1>1. ExpectInv /\ [ExpectNext]_expectVars => [Says]_expectVars
  <2> SUFFICES ASSUME ExpectInv, [ExpectNext]_expectVars, Left("given"),
                      NEW k \in Last(blocks).ids, ~(single = {} /\ ~OfRegistered(k))
               PROVE  mocks'[k].replaying
    OBVIOUS
  <2>1. ExitSingle
    BY OpenedOrLeft DEF Left, ExitOther, OfSingle
  <2>2. Last(blocks).ids \subseteq DOMAIN mocks
    BY <2>1, LastBlock DEF ExpectInv, ExitSingle, OfSingle
  <2>3. CASE single = {}
    <3>1. mocks' = Replayed(UNION {MocksOf(a) : a \in Registered})
      BY <2>1, <2>3 DEF ExitSingle, ReplayedOnExit
    <3>2. k \in UNION {MocksOf(b) : b \in Registered}
      BY <2>3 DEF OfRegistered
    <3> QED
      BY <2>2, <3>1, <3>2, ReplayReaches DEF ExpectInv
  <2>4. CASE single # {}
    <3>1. mocks' = Replayed(Last(blocks).ids)
      BY <2>1, <2>4, GivenHasItsStubs DEF ExpectInv, ExitSingle, OfSingle, ReplayedOnExit, Left
    <3> QED
      BY <2>2, <3>1, ReplayReaches DEF ExpectInv
  <2> QED
    BY <2>3, <2>4
<1> QED
  BY <1>1, ExpectAlways, PTL DEF ExpectSpec, GivenStubsAreReplayed

\* Leaving "with mox.expect(stub, ...)" replays no mock but the given stubs, unless a
\* block inside has taken the stubs of mox.expect away.
THEOREM OthersAlwaysGoOnRecording == ExpectSpec => OthersGoOnRecording
<1> DEFINE Says == Left("given") /\ single # {} =>
                     \A k \in DOMAIN mocks \ WithInstances(Last(blocks).ids) :
                       mocks'[k] = mocks[k]
<1>1. ExpectInv /\ [ExpectNext]_expectVars => [Says]_expectVars
  <2> SUFFICES ASSUME ExpectInv, [ExpectNext]_expectVars, Left("given"), single # {},
                      NEW k \in DOMAIN mocks \ WithInstances(Last(blocks).ids)
               PROVE  mocks'[k] = mocks[k]
    OBVIOUS
  <2>1. ExitSingle
    BY OpenedOrLeft DEF Left, ExitOther, OfSingle
  <2>2. mocks' = Replayed(Last(blocks).ids)
    BY <2>1, GivenHasItsStubs DEF ExpectInv, ExitSingle, OfSingle, ReplayedOnExit, Left
  <2> QED
    BY <2>2 DEF Replayed
<1> QED
  BY <1>1, ExpectAlways, PTL DEF ExpectSpec, OthersGoOnRecording

\* Entering a block resets no mock of others, but for a bare block that shares the
\* stubs of the block around it (Expect.__enter__).
THEOREM OthersAlwaysKeepTheirCalls == ExpectSpec => OthersKeepTheirCalls
<1> DEFINE Says == Entered /\ ~(Last(blocks').kind = "bare" /\ InsideGiven(blocks')) =>
                     \A k \in DOMAIN mocks \ MocksOfBlock(Last(blocks')) : mocks'[k] = mocks[k]
<1>1. ExpectInv /\ [ExpectNext]_expectVars => [Says]_expectVars
  <2> SUFFICES ASSUME ExpectInv, [ExpectNext]_expectVars, Entered,
                      ~(Last(blocks').kind = "bare" /\ InsideGiven(blocks')),
                      NEW k \in DOMAIN mocks \ MocksOfBlock(Last(blocks'))
               PROVE  mocks'[k] = mocks[k]
    OBVIOUS
  <2>1. ASSUME NEW block, NEW stubs, Open(block, stubs)
        PROVE  /\ mocks' = AfterReset(stubs) /\ Last(blocks') = block
               /\ Len(blocks') = Len(blocks) + 1 /\ Len(blocks) \in Nat
               /\ \A i \in 1..Len(blocks) : blocks'[i] = blocks[i]
    <3>1. blocks \in Seq(Block \cup {block}) /\ block \in Block \cup {block}
      BY SeqMonotonic DEF ExpectInv, BlocksExist
    <3>2. blocks' = Append(blocks, block) /\ mocks' = AfterReset(stubs)
      BY <2>1 DEF Open
    <3>3. /\ Len(blocks') = Len(blocks) + 1 /\ blocks'[Len(blocks) + 1] = block
          /\ \A i \in 1..Len(blocks) : blocks'[i] = blocks[i]
      BY <3>1, <3>2, AppendProperties
    <3> QED
      BY <3>1, <3>2, <3>3, LenProperties DEF Last
  <2>2. ASSUME NEW stubs, mocks' = AfterReset(stubs), k \notin stubs
        PROVE  mocks'[k] = mocks[k]
    BY <2>2 DEF AfterReset
  <2>3. CASE EnterBare
    <3>1. Open(Bare, single) /\ NotAMock \notin single /\ Bare.kind = "bare"
      BY <2>3 DEF EnterBare, Bare
    <3>2. single = {}
      <4> SUFFICES ASSUME single # {} PROVE FALSE
        OBVIOUS
      <4>1. PICK i \in 1..Len(blocks) : blocks[i].kind = "given"
        BY <3>1 DEF ExpectInv, StubsOfSingle, InnermostGiven
      <4>2. i \in 1..(Len(blocks') - 1) /\ blocks'[i].kind = "given"
        BY <2>1, <3>1, <4>1
      <4>3. InsideGiven(blocks') /\ Last(blocks').kind = "bare"
        BY <2>1, <3>1, <4>2 DEF InsideGiven
      <4> QED
        BY <4>3
    <3> QED
      BY <2>1, <2>2, <3>1, <3>2
  <2>4. ASSUME NEW ids, EnterGiven(ids) PROVE mocks'[k] = mocks[k]
    <3>1. Open(Given(ids), ids)
      BY <2>4 DEF EnterGiven
    <3>2. k \notin ids
      BY <2>1, <3>1 DEF MocksOfBlock, Given
    <3> QED
      BY <2>1, <2>2, <3>1, <3>2
  <2>5. ASSUME NEW block, EnterOther(block) PROVE mocks'[k] = mocks[k]
    <3>1. Open(block, MocksOfBlock(block))
      BY <2>5 DEF EnterOther
    <3>2. mocks' = AfterReset(MocksOfBlock(block)) /\ Last(blocks') = block
      BY <2>1, <3>1
    <3> QED
      BY <2>2, <3>2
  <2> QED
    BY <2>3, <2>4, <2>5, OpenedOrLeft
<1> QED
  BY <1>1, ExpectAlways, PTL DEF ExpectSpec, OthersKeepTheirCalls

-----------------------------------------------------------------------------
(***************************************************************************)
(* Proofs about test sessions, for any number of tests, Mox instances,     *)
(* decorators, attributes and mocks, under both harnesses.                 *)
(*                                                                         *)
(* What a finished test may leave behind depends on who still refers to    *)
(* what it made.  HarnessInv says which Mox instances are held, OwnMocks   *)
(* whose mocks are where, OwnLogs which undo logs may be in use and when.  *)
(* Effect is what the steps of a running test have in common: it bounds    *)
(* who may get mocks, factories and stubs; EffectKeeps carries the         *)
(* invariant through all of them, and the lemmas before it say what the    *)
(* effect of each operation is.                                            *)
(***************************************************************************)
USE SessionAssumption

HarnessInv ==
  /\ phase \in {"idle", "running"}
  /\ fixture \in (Address \ AtImport) \cup {NoMox}
  /\ AtImport \subseteq held
  /\ phase = "running" /\ fixture # NoMox => fixture \in held
  /\ patches \in Seq(Address)
  /\ \A i \in 1..Len(patches) : patches[i] \notin AtImport \cup {fixture}
  /\ phase = "idle" => patches = <<>>

OwnMocks ==
  /\ \A k \in DOMAIN mocks : mocks[k].mox \in Address
  /\ \A k \in DOMAIN mocks :
       mocks[k].kind = "factory" => mocks[k].mox \notin AtImport /\ ClassSlot # {}
  /\ moxes[Creator].mocks # <<>> => Creator \in Registered /\ phase = "running"
  /\ phase = "running" =>
       \A k \in MocksOfTest : mocks[k].mox = fixture => k \in MocksOf(fixture)
  /\ report # "none" => phase = "idle"
  /\ PassedMeansVerified

OwnLogs ==
  /\ moxes[Creator].log = <<>>
  /\ phase = "idle" => held \cup Registered \subseteq AtImport \cup {fixture}
  /\ phase = "idle" => \A a \in {fixture} \ {NoMox} : moxes[a].log = <<>>
  /\ Harness = "pytest" =>
       /\ held \subseteq AtImport \cup Registered
       /\ \A a \in Address \ Shared : moxes[a].log # <<>> => a \in Registered /\ phase = "running"

SessionInv == RegistryInv /\ HarnessInv /\ OwnMocks /\ OwnLogs

-----------------------------------------------------------------------------
(***************************************************************************)
(* Effects.                                                                *)
(***************************************************************************)
\* No mock is lost, or becomes another one's or of another kind.
MocksKeepKind ==
  /\ DOMAIN mocks \subseteq DOMAIN mocks'
  /\ \A k \in DOMAIN mocks : mocks'[k].mox = mocks[k].mox /\ mocks'[k].kind = mocks[k].kind

\* Only makers get mocks, only classes get factories, only stubbers get stubs.
Effect(makers, classes, stubbers) ==
  /\ MocksKeepKind
  /\ \A k \in DOMAIN mocks' \ DOMAIN mocks :
       /\ mocks'[k].mox \in Address /\ k \in ToSet(moxes'[mocks'[k].mox].mocks)
       /\ mocks'[k].kind = "factory" => mocks'[k].mox \in classes /\ ClassSlot # {}
  /\ \A a \in Address :
       /\ ToSet(moxes[a].mocks) \subseteq ToSet(moxes'[a].mocks)
       /\ moxes'[a].mocks # moxes[a].mocks => a \in makers
       /\ moxes'[a].log \in {<<>>, moxes[a].log} \/ a \in stubbers

\* Steps that make nothing.
LEMMA NothingMade ==
  ASSUME MocksKeepKind, DOMAIN mocks' = DOMAIN mocks,
         \A a \in Address : /\ moxes'[a].mocks = moxes[a].mocks
                            /\ moxes'[a].log \in {<<>>, moxes[a].log}
  PROVE  Effect({}, {}, {})
BY DEF Effect

\* Steps that leave the Mox instances as they are.
LEMMA MoxesKept ==
  ASSUME MocksKeepKind, DOMAIN mocks' = DOMAIN mocks, moxes' = moxes
  PROVE  Effect({}, {}, {})
BY NothingMade

\* Steps that empty logs.
LEMMA LogsEmptied ==
  ASSUME RegistryInv, MocksKeepKind, DOMAIN mocks' = DOMAIN mocks,
         NEW as, moxes' = WithoutLogs(as)
  PROVE  Effect({}, {}, {})
<1>1. ASSUME NEW a \in Address
      PROVE  /\ moxes'[a].mocks = moxes[a].mocks
             /\ moxes'[a].log \in {<<>>, moxes[a].log}
  <2>1. moxes[a] \in Mox
    BY Types
  <2>2. /\ [moxes[a] EXCEPT !.log = <<>>].mocks = moxes[a].mocks
        /\ [moxes[a] EXCEPT !.log = <<>>].log = <<>>
    BY <2>1 DEF Mox
  <2> QED
    BY <2>2 DEF WithoutLogs
<1> QED
  BY <1>1, NothingMade

\* Steps that make one mock.
LEMMA OneMade ==
  ASSUME RegistryInv, MocksKeepKind, NEW a \in Address, NEW kind, NEW stubbers,
         DOMAIN mocks' = 1..(Len(mocks) + 1), Len(mocks) + 1 \in MockIds,
         mocks'[Len(mocks) + 1].mox = a, mocks'[Len(mocks) + 1].kind = kind,
         kind = "factory" => ClassSlot # {},
         moxes'[a].mocks = Append(moxes[a].mocks, Len(mocks) + 1),
         moxes'[a].log = moxes[a].log \/ a \in stubbers,
         \A b \in Address \ {a} : moxes'[b] = moxes[b]
  PROVE  Effect({a}, IF kind = "factory" THEN {a} ELSE {}, stubbers)
<1> DEFINE new == Len(mocks) + 1
<1>1. Len(mocks) \in Nat /\ DOMAIN mocks = 1..Len(mocks) /\ moxes[a].mocks \in Seq(MockIds)
  BY Types
<1>2. DOMAIN mocks' \ DOMAIN mocks = {new}
  BY <1>1
<1>3. ToSet(moxes'[a].mocks) = ToSet(moxes[a].mocks) \cup {new}
  BY <1>1, ToSetAppend
<1> HIDE DEF new
<1>4. /\ mocks'[new].mox = a /\ mocks'[new].kind = kind
  BY DEF new
<1>5. ASSUME NEW k \in DOMAIN mocks' \ DOMAIN mocks
      PROVE  /\ mocks'[k].mox \in Address /\ k \in ToSet(moxes'[mocks'[k].mox].mocks)
             /\ mocks'[k].kind = "factory" =>
                  mocks'[k].mox \in (IF kind = "factory" THEN {a} ELSE {}) /\ ClassSlot # {}
  BY <1>2, <1>3, <1>4, <1>5
<1>6. ASSUME NEW b \in Address
      PROVE  /\ ToSet(moxes[b].mocks) \subseteq ToSet(moxes'[b].mocks)
             /\ moxes'[b].mocks # moxes[b].mocks => b \in {a}
             /\ moxes'[b].log \in {<<>>, moxes[b].log} \/ b \in stubbers
  BY <1>3
<1> QED
  BY <1>5, <1>6 DEF Effect

\* One mock more.
LEMMA MockAppended ==
  ASSUME RegistryInv, Len(mocks) < MaxMocks, NEW a \in Address, NEW kind \in StuboutKind,
         mocks' = Append(mocks, NewMock(a, kind))
  PROVE  /\ MocksKeepKind
         /\ DOMAIN mocks' = 1..(Len(mocks) + 1) /\ Len(mocks) + 1 \in MockIds
         /\ mocks'[Len(mocks) + 1].mox = a /\ mocks'[Len(mocks) + 1].kind = kind
<1>1. Len(mocks) \in Nat /\ DOMAIN mocks = 1..Len(mocks) /\ mocks \in Seq(Mock)
  BY Types
<1>2. NewMock(a, kind) \in Mock /\ NewMock(a, kind).mox = a /\ NewMock(a, kind).kind = kind
  BY EmptySeq DEF NewMock, Mock, StuboutKind
<1>3. /\ mocks' \in Seq(Mock) /\ Len(mocks') = Len(mocks) + 1
      /\ \A k \in 1..Len(mocks) : mocks'[k] = mocks[k]
      /\ mocks'[Len(mocks) + 1] = NewMock(a, kind)
  BY <1>1, <1>2, AppendProperties
<1>4. DOMAIN mocks' = 1..(Len(mocks) + 1)
  BY <1>3, LenProperties
<1>5. MocksKeepKind
  BY <1>1, <1>3, <1>4 DEF MocksKeepKind
<1>6. Len(mocks) + 1 \in MockIds
  BY <1>1 DEF MockIds
<1> QED
  BY <1>2, <1>3, <1>4, <1>5, <1>6

\* create_mock, create_mock_anything and mox.create.
LEMMA MakeMockEffect ==
  ASSUME RegistryInv, NEW a \in Address, NEW kind \in {"object", "anything"},
         MakeMock(a, kind)
  PROVE  Effect({a}, {}, {})
<1>1. /\ MocksKeepKind
      /\ DOMAIN mocks' = 1..(Len(mocks) + 1) /\ Len(mocks) + 1 \in MockIds
      /\ mocks'[Len(mocks) + 1].mox = a /\ mocks'[Len(mocks) + 1].kind = kind
  BY MockAppended DEF MakeMock, StuboutKind
<1>2. moxes \in [Address -> Mox] /\ moxes[a] \in Mox
  BY Types
<1>3. /\ moxes'[a].mocks = Append(moxes[a].mocks, Len(mocks) + 1)
      /\ moxes'[a].log = moxes[a].log
      /\ \A b \in Address \ {a} : moxes'[b] = moxes[b]
  BY <1>2 DEF MakeMock, Mox
<1>4. Effect({a}, IF kind = "factory" THEN {a} ELSE {}, {})
  BY <1>1, <1>3, OneMade
<1> QED
  BY <1>4

\* stubout, stubout_class and the decorators.
LEMMA ReplaceEffect ==
  ASSUME RegistryInv, NEW a \in Address, NEW s \in Slot, NEW kind \in StuboutKind,
         Replace(a, s, kind)
  PROVE  Effect({a}, IF kind = "factory" THEN {a} ELSE {}, {a})
<1>1. /\ MocksKeepKind
      /\ DOMAIN mocks' = 1..(Len(mocks) + 1) /\ Len(mocks) + 1 \in MockIds
      /\ mocks'[Len(mocks) + 1].mox = a /\ mocks'[Len(mocks) + 1].kind = kind
  BY MockAppended DEF Replace
<1>2. moxes \in [Address -> Mox] /\ moxes[a] \in Mox
  BY Types
<1>3. /\ moxes'[a].mocks = Append(moxes[a].mocks, Len(mocks) + 1)
      /\ \A b \in Address \ {a} : moxes'[b] = moxes[b]
  BY <1>2 DEF Replace, Mox
<1>4. kind = "factory" => ClassSlot # {}
  BY DEF Replace, Stubbable
<1> QED
  BY <1>1, <1>3, <1>4, OneMade

\* A recorded call to a factory.
LEMMA RecordInstanceEffect ==
  ASSUME RegistryInv, NEW k \in DOMAIN mocks, RecordInstance(k)
  PROVE  Effect({mocks[k].mox}, {}, {})
<1> DEFINE a == mocks[k].mox
           new == Len(mocks) + 1
<1>1. /\ DOMAIN mocks' = 1..new /\ MocksStay /\ new \in MockIds /\ mocks'[new].mox = a
  BY InstanceRecorded
<1>2. /\ a \in Address /\ moxes \in [Address -> Mox] /\ moxes[a] \in Mox
      /\ mocks[k] \in Mock /\ mocks \in Seq(Mock)
      /\ Len(mocks) \in Nat /\ DOMAIN mocks = 1..Len(mocks)
  BY Types DEF RecordInstance
<1>3. /\ MocksKeepKind /\ mocks'[new].kind = "object"
  <2> DEFINE m == [mocks[k] EXCEPT !.owed = @ + 1, !.instances = Append(@, new)]
             made == NewMock(a, "object")
  <2>1. /\ m.kind = mocks[k].kind /\ made.kind = "object"
    BY <1>2 DEF Mock, NewMock
  <2>2. mocks' = Append([mocks EXCEPT ![k] = m], made)
    BY DEF RecordInstance
  <2> HIDE DEF m, made
  <2> DEFINE S == Mock \cup {m, made}
             recorded == [mocks EXCEPT ![k] = m]
  <2>3. mocks \in Seq(S) /\ made \in S /\ m \in S
    BY <1>2, SeqMonotonic
  <2> HIDE DEF S
  <2>4. /\ recorded \in Seq(S) /\ Len(recorded) = Len(mocks)
        /\ \A j \in 1..Len(mocks) : recorded[j] = IF j = k THEN m ELSE mocks[j]
    BY <1>2, <2>3, ExceptSeq
  <2> HIDE DEF recorded
  <2>5. /\ \A j \in 1..Len(mocks) : mocks'[j] = recorded[j]
        /\ mocks'[new] = made
    BY <2>2, <2>3, <2>4, AppendProperties DEF recorded
  <2>6. \A j \in DOMAIN mocks : mocks'[j].kind = mocks[j].kind
    BY <1>2, <2>1, <2>4, <2>5
  <2> QED
    BY <1>1, <2>1, <2>5, <2>6 DEF MocksKeepKind, MocksStay
<1>4. /\ moxes'[a].mocks = Append(moxes[a].mocks, new)
      /\ moxes'[a].log = moxes[a].log
      /\ \A b \in Address \ {a} : moxes'[b] = moxes[b]
  BY <1>2 DEF RecordInstance, Mox
<1>5. Effect({a}, IF "object" = "factory" THEN {a} ELSE {}, {})
  BY <1>1, <1>2, <1>3, <1>4, OneMade
<1> QED
  BY <1>5

\* One mock replaced.
LEMMA KindKept ==
  ASSUME RegistryInv, NEW k \in DOMAIN mocks, NEW m,
         m.mox = mocks[k].mox, m.kind = mocks[k].kind,
         mocks' = [mocks EXCEPT ![k] = m]
  PROVE  MocksKeepKind /\ DOMAIN mocks' = DOMAIN mocks
<1>1. mocks = [j \in DOMAIN mocks |-> mocks[j]]
  BY Types
<1> QED
  BY <1>1 DEF MocksKeepKind

\* replay and reset of mocks.
LEMMA KindsKept ==
  ASSUME RegistryInv, NEW ids,
         mocks' = Replayed(ids) \/ mocks' = AfterReset(ids) \/ mocks' = mocks
  PROVE  MocksKeepKind /\ DOMAIN mocks' = DOMAIN mocks
<1>1. ASSUME NEW k \in DOMAIN mocks
      PROVE  mocks'[k].mox = mocks[k].mox /\ mocks'[k].kind = mocks[k].kind
  <2>1. mocks[k] \in Mock
    BY Types
  <2>2. /\ [mocks[k] EXCEPT !.replaying = TRUE].mox = mocks[k].mox
        /\ [mocks[k] EXCEPT !.replaying = TRUE].kind = mocks[k].kind
        /\ [mocks[k] EXCEPT !.replaying = FALSE, !.owed = 0].mox = mocks[k].mox
        /\ [mocks[k] EXCEPT !.replaying = FALSE, !.owed = 0].kind = mocks[k].kind
    BY <2>1 DEF Mock
  <2> QED
    BY <2>2 DEF Replayed, AfterReset
<1>2. DOMAIN mocks' = DOMAIN mocks
  BY DEF Replayed, AfterReset
<1> QED
  BY <1>1, <1>2 DEF MocksKeepKind

\* unset_stubs_for_id.
LEMMA UnsetForIdEffect ==
  ASSUME RegistryInv, MocksKeepKind, DOMAIN mocks' = DOMAIN mocks, NEW k \in DOMAIN mocks,
         UnsetStubsForId(k) \/ UNCHANGED <<slots, moxes>>
  PROVE  Effect({}, {}, {})
BY MoxesKept, LogsEmptied DEF UnsetStubsForId

\* Calls of a mock: a factory makes an instance for its Mox.
LEMMA MockCallEffect ==
  ASSUME RegistryInv, NEW k \in DOMAIN mocks, MockCall(k)
  PROVE  \/ Effect({}, {}, {})
         \/ mocks[k].kind = "factory" /\ Effect({mocks[k].mox}, {}, {})
<1>1. mocks[k] \in Mock /\ mocks = [j \in DOMAIN mocks |-> mocks[j]]
  BY Types
<1>2. ASSUME mocks' = mocks, UnsetStubsForId(k) \/ UNCHANGED <<slots, moxes>>
      PROVE  Effect({}, {}, {})
  BY <1>2, UnsetForIdEffect DEF MocksKeepKind
<1>3. ASSUME NEW m, m.mox = mocks[k].mox, m.kind = mocks[k].kind,
             mocks' = [mocks EXCEPT ![k] = m],
             UnsetStubsForId(k) \/ UNCHANGED <<slots, moxes>>
      PROVE  Effect({}, {}, {})
  BY <1>3, KindKept, UnsetForIdEffect
<1>4. CASE AccessUnknown(k)
  <2> DEFINE m == [mocks[k] EXCEPT !.thrown = TRUE]
  <2>1. m.mox = mocks[k].mox /\ m.kind = mocks[k].kind
    BY <1>1 DEF Mock
  <2>2. mocks' = [mocks EXCEPT ![k] = m] /\ UNCHANGED <<slots, moxes>>
    BY <1>4 DEF AccessUnknown
  <2> HIDE DEF m
  <2> QED
    BY <1>3, <2>1, <2>2
<1>5. CASE Record(k)
  <2> DEFINE m == [mocks[k] EXCEPT !.owed = @ + 1]
  <2>1. m.mox = mocks[k].mox /\ m.kind = mocks[k].kind
    BY <1>1 DEF Mock
  <2>2. mocks' = [mocks EXCEPT ![k] = m] /\ UNCHANGED <<slots, moxes>>
    BY <1>5 DEF Record
  <2> HIDE DEF m
  <2> QED
    BY <1>3, <2>1, <2>2
<1>6. CASE RecordInstance(k)
  BY <1>6, RecordInstanceEffect DEF RecordInstance
<1>7. CASE RecordTurnedDown(k)
  BY <1>2, <1>7 DEF RecordTurnedDown, CallRaises
<1>8. ASSUME NEW raises \in BOOLEAN, Answer(k, raises)
      PROVE  Effect({}, {}, {})
  <2> DEFINE m == [mocks[k] EXCEPT !.owed = @ - 1,
                     !.instances = IF mocks[k].kind = "factory" THEN Tail(@) ELSE @]
  <2>1. m.mox = mocks[k].mox /\ m.kind = mocks[k].kind
    BY <1>1 DEF Mock
  <2>2. mocks' = [mocks EXCEPT ![k] = m]
    BY <1>8 DEF Answer
  <2>3. UnsetStubsForId(k) \/ UNCHANGED <<slots, moxes>>
    BY <1>8 DEF Answer, CallRaises
  <2> HIDE DEF m
  <2> QED
    BY <1>3, <2>1, <2>2, <2>3
<1>9. CASE Refuse(k)
  <2> DEFINE m == [mocks[k] EXCEPT !.thrown = TRUE,
                     !.owed = IF Expected(k) THEN @ - 1 ELSE @]
  <2>1. m.mox = mocks[k].mox /\ m.kind = mocks[k].kind
    BY <1>1 DEF Mock
  <2>2. mocks' = [mocks EXCEPT ![k] = m]
    BY <1>9 DEF Refuse
  <2>3. UnsetStubsForId(k) \/ UNCHANGED <<slots, moxes>>
    BY <1>9 DEF Refuse, CallRaises
  <2> HIDE DEF m
  <2> QED
    BY <1>3, <2>1, <2>2, <2>3
<1>10. CASE Replay(k) \/ Reset(k) \/ Verify(k)
  <2>1. moxes' = moxes
    BY <1>10 DEF Replay, Reset, Verify
  <2> QED
    BY <1>10, <2>1, KindsKept, MoxesKept DEF Replay, Reset, Verify
<1> QED
  BY <1>4, <1>5, <1>6, <1>7, <1>8, <1>9, <1>10 DEF MockCall

\* verify_all and unset_stubs of a Mox.
LEMMA VerifyEffect ==
  ASSUME RegistryInv, NEW a, UnsetStubs(a) \/ VerifyAll(a)
  PROVE  Effect({}, {}, {})
<1>1. MocksKeepKind /\ DOMAIN mocks' = DOMAIN mocks
  BY DEF UnsetStubs, VerifyAll, MocksKeepKind
<1>2. moxes' = moxes \/ moxes' = WithoutLogs(<<a>>)
  BY DEF UnsetStubs, VerifyAll
<1> QED
  BY <1>1, <1>2, MoxesKept, LogsEmptied

\* Calls of a Mox.
LEMMA MoxCallEffect ==
  ASSUME RegistryInv, NEW a \in Address, MoxCall(a)
  PROVE  Effect({a}, {a}, {a})
<1>1. Effect({}, {}, {}) => Effect({a}, {a}, {a})
  BY DEF Effect
<1>2. Effect({a}, {}, {}) => Effect({a}, {a}, {a})
  BY DEF Effect
<1>3. ASSUME NEW kind, Effect({a}, IF kind = "factory" THEN {a} ELSE {}, {a})
      PROVE  Effect({a}, {a}, {a})
  BY <1>3 DEF Effect
<1>4. CASE \E kind \in {"object", "anything"} : CreateMock(a, kind)
  BY <1>2, <1>4, MakeMockEffect DEF CreateMock
<1>5. CASE \E s \in Slot, kind \in StuboutKind : Stubout(a, s, kind)
  BY <1>3, <1>5, ReplaceEffect DEF Stubout
<1>6. CASE \E s \in Slot, kind \in StuboutKind : StuboutTurnedDown(s, kind)
  BY <1>1, <1>6, MoxesKept DEF StuboutTurnedDown, MocksKeepKind
<1>7. CASE UnsetStubs(a) \/ VerifyAll(a)
  BY <1>1, <1>7, VerifyEffect
<1>8. CASE ReplayAll(a) \/ ResetAll(a)
  BY <1>1, <1>8, KindsKept, MoxesKept DEF ReplayAll, ResetAll
<1> QED
  BY <1>4, <1>5, <1>6, <1>7, <1>8 DEF MoxCall

\* Replay and verify of all.
LEMMA GlobalEffect ==
  ASSUME RegistryInv, GlobalReplay \/ GlobalVerify
  PROVE  Effect({}, {}, {})
<1>1. CASE GlobalReplay
  BY <1>1, KindsKept, MoxesKept DEF GlobalReplay
<1>2. CASE GlobalVerify
  <2>1. CASE UNCHANGED <<mocks, moxes>>
    BY <2>1, MoxesKept DEF MocksKeepKind
  <2>2. CASE \E n \in DOMAIN registry : VerifyAll(registry[n])
    BY <2>2, VerifyEffect
  <2> QED
    BY <1>2, <2>1, <2>2 DEF GlobalVerify
<1> QED
  BY <1>1, <1>2

-----------------------------------------------------------------------------
(***************************************************************************)
(* The invariant.                                                          *)
(***************************************************************************)
\* What is known of Mox instances and the harness.
LEMMA SessionTypes ==
  ASSUME SessionInv
  PROVE  /\ RegistryInv
         /\ AtImport \subseteq Address /\ Creator \in AtImport /\ NoMox \notin Address
         /\ AtImport \subseteq held /\ held \subseteq Address /\ Registered \subseteq Address
         /\ DOMAIN mocks = 1..Len(mocks) /\ Len(mocks) \in Nat
         /\ \A k \in DOMAIN mocks : mocks[k].mox \in Address
BY Types DEF SessionInv, HarnessInv, OwnMocks, AtImport, RegistryInv, TypeOK

\* A step of a running test keeps the invariant, when it has the right effect.
LEMMA EffectKeeps ==
  ASSUME SessionInv, RegistryInv', phase = "running",
         UNCHANGED <<phase, fixture, first, report>>,
         NEW makers, NEW classes, NEW stubbers, Effect(makers, classes, stubbers),
         Creator \in makers \cup Registered => Creator \in Registered',
         classes \cap AtImport = {},
         Creator \notin stubbers,
         AtImport \subseteq held', fixture # NoMox => fixture \in held',
         Harness = "pytest" =>
           /\ held' \subseteq AtImport \cup Registered'
           /\ \A a \in Address \ Shared : moxes'[a].log # <<>> => a \in Registered',
         patches' \in Seq(Address),
         \A i \in 1..Len(patches') : patches'[i] \notin AtImport \cup {fixture}
  PROVE  SessionInv'
<1>1. HarnessInv'
  BY DEF SessionInv, HarnessInv, AtImport
<1>2. OwnMocks'
  <2>0. ASSUME NEW k \in DOMAIN mocks'
        PROVE  mocks'[k].mox \in Address
    BY SessionTypes DEF Effect, MocksKeepKind
  <2>1. ASSUME NEW k \in DOMAIN mocks', mocks'[k].kind = "factory"
        PROVE  mocks'[k].mox \notin AtImport /\ ClassSlot # {}
    BY <2>1 DEF SessionInv, OwnMocks, Effect, MocksKeepKind
  <2>2. moxes'[Creator].mocks # <<>> => Creator \in Registered'
    BY SessionTypes DEF SessionInv, OwnMocks, Effect
  <2>3. ASSUME NEW k \in DOMAIN mocks', k > first, mocks'[k].mox = fixture
        PROVE  k \in ToSet(moxes'[fixture].mocks)
    <3>1. CASE k \in DOMAIN mocks
      <4>1. mocks[k].mox = fixture /\ fixture \in Address
        BY <2>3, <3>1, SessionTypes DEF Effect, MocksKeepKind
      <4>2. k \in ToSet(moxes[fixture].mocks)
        BY <2>3, <3>1, <4>1 DEF SessionInv, OwnMocks, MocksOfTest, MocksOf
      <4> QED
        BY <4>1, <4>2 DEF Effect
    <3>2. CASE k \notin DOMAIN mocks
      BY <2>3, <3>2 DEF Effect
    <3> QED
      BY <3>1, <3>2
  <2>4. report' = "none"
    BY DEF SessionInv, OwnMocks
  <2> QED
    BY <2>0, <2>1, <2>2, <2>3, <2>4
       DEF OwnMocks, MocksOfTest, MocksOf, AtImport, PassedMeansVerified
<1>3. OwnLogs'
  <2>1. moxes'[Creator].log = <<>>
    BY SessionTypes DEF SessionInv, OwnLogs, Effect
  <2> QED
    BY <2>1 DEF OwnLogs, AtImport
<1> QED
  BY <1>1, <1>2, <1>3 DEF SessionInv

\* The same for steps that leave the registry and the decorators alone.
LEMMA BodyKeeps ==
  ASSUME SessionInv, RegistryInv', phase = "running", UNCHANGED HarnessVars,
         NEW makers, NEW classes, NEW stubbers, Effect(makers, classes, stubbers),
         Registered \subseteq Registered', held \subseteq held',
         held' \subseteq held \cup Registered',
         Creator \in makers => Creator \in Registered',
         classes \cap AtImport = {}, Creator \notin stubbers,
         Harness = "pytest" => stubbers \subseteq Shared \cup Registered'
  PROVE  SessionInv'
<1>1. AtImport \subseteq held' /\ (fixture # NoMox => fixture \in held')
  BY DEF SessionInv, HarnessInv
<1>2. ASSUME Harness = "pytest"
      PROVE  /\ held' \subseteq AtImport \cup Registered'
             /\ \A a \in Address \ Shared : moxes'[a].log # <<>> => a \in Registered'
  BY <1>2 DEF SessionInv, OwnLogs, Effect
<1>3. /\ patches' \in Seq(Address)
      /\ \A i \in 1..Len(patches') : patches'[i] \notin AtImport \cup {fixture}
      /\ UNCHANGED <<phase, fixture, first, report>>
  BY DEF SessionInv, HarnessInv, HarnessVars
<1> QED
  BY <1>1, <1>2, <1>3, EffectKeeps

-----------------------------------------------------------------------------
(***************************************************************************)
(* The steps.                                                              *)
(***************************************************************************)
\* The registry when a Mox is made.
LEMMA AppendedRegistry ==
  ASSUME RegistryInv, NEW a \in Address \ Registered, registry' = Append(registry, a)
  PROVE  /\ registry' \in Seq(Address) /\ IsInjective(registry')
         /\ Registered' = Registered \cup {a}
<1>1. registry' \in Seq(Address) /\ IsInjective(Append(registry, a))
  BY RegisteredOnce
<1>2. ToSet(Append(registry, a)) = ToSet(registry) \cup {a}
  BY Types, ToSetAppend
<1> QED
  BY <1>1, <1>2 DEF Registered

\* A Mox at a free address is none of those that are referred to.
LEMMA NewMoxIsNew ==
  ASSUME SessionInv, NEW a \in Address, ~Referenced(a)
  PROVE  /\ a \notin held /\ a \notin Registered /\ a \notin AtImport
         /\ phase = "running" => a # fixture
BY SessionTypes DEF Referenced, SessionInv, HarnessInv

\* The body of a test.
LEMMA TestStepKeeps ==
  ASSUME SessionInv, ~OverFactories, TestStep
  PROVE  SessionInv'
<1>1. RegistryInv' /\ phase = "running" /\ UNCHANGED HarnessVars
  <2>1. Next
    BY SessionTypes DEF TestStep, Next
  <2> QED
    BY <2>1, SessionTypes, RegistryNext DEF TestStep
<1>2. ASSUME NEW a \in Address, NewMox(a)
      PROVE  SessionInv'
  <2>1. a \notin Registered
    BY <1>2 DEF NewMox, Referenced
  <2>2. Registered' = Registered \cup {a}
    BY <1>2, <2>1, AppendedRegistry, SessionTypes DEF NewMox
  <2>3. Effect({}, {}, {})
    BY <1>2, MoxesKept DEF NewMox, MocksKeepKind
  <2>4. held' = held \cup {a}
    BY <1>2 DEF NewMox
  <2> QED
    BY <1>1, <2>2, <2>3, <2>4, BodyKeeps
<1>3. ASSUME NEW a \in held \ (AtImport \cup ToSet(patches)), MoxCall(a)
      PROVE  SessionInv'
  <2>1. a \in Address /\ a # Creator /\ a \notin AtImport
    BY <1>3, SessionTypes
  <2>2. Effect({a}, {a}, {a})
    BY <1>3, <2>1, SessionTypes, MoxCallEffect
  <2>3. UNCHANGED <<registry, held>>
    BY <1>3 DEF MoxCall, CreateMock, Stubout, StuboutTurnedDown, UnsetStubs, ReplayAll,
                ResetAll, VerifyAll
  <2>4. Registered' = Registered
    BY <2>3 DEF Registered
  <2>5. Harness = "pytest" => a \in Registered
    BY <1>3 DEF SessionInv, OwnLogs
  <2> QED
    BY <1>1, <2>1, <2>2, <2>3, <2>4, <2>5, BodyKeeps
<1>4. ASSUME NEW k \in DOMAIN mocks, MockCall(k)
      PROVE  SessionInv'
  <2>1. UNCHANGED <<registry, held>>
    BY <1>4 DEF MockCall, AccessUnknown, Record, RecordInstance, RecordTurnedDown, Answer,
                Refuse, Replay, Reset, Verify
  <2>2. Registered' = Registered
    BY <2>1 DEF Registered
  <2>3. CASE Effect({}, {}, {})
    BY <1>1, <2>1, <2>2, <2>3, BodyKeeps
  <2>4. CASE mocks[k].kind = "factory" /\ Effect({mocks[k].mox}, {}, {})
    <3>1. mocks[k].mox # Creator
      BY <2>4, SessionTypes DEF SessionInv, OwnMocks
    <3> QED
      BY <1>1, <2>1, <2>2, <2>4, <3>1, BodyKeeps
  <2> QED
    BY <1>4, <2>3, <2>4, SessionTypes, MockCallEffect
<1>5. CASE GlobalReplay \/ GlobalVerify
  <2>1. UNCHANGED <<registry, held>>
    BY <1>5 DEF GlobalReplay, GlobalVerify, VerifyAll
  <2>2. Registered' = Registered
    BY <2>1 DEF Registered
  <2>3. Effect({}, {}, {})
    BY <1>5, SessionTypes, GlobalEffect
  <2> QED
    BY <1>1, <2>1, <2>2, <2>3, BodyKeeps
<1> QED
  BY <1>2, <1>3, <1>4, <1>5 DEF TestStep

\* mox.create.
LEMMA CreateKeeps ==
  ASSUME SessionInv, Create
  PROVE  SessionInv'
<1>1. PICK kind \in {"object", "anything"} : MakeMock(Creator, kind)
  BY DEF Create
<1>2. /\ registry' \in Seq(Address) /\ IsInjective(registry')
      /\ Registered' = Registered \cup {Creator}
  <2>1. CASE Creator \in Registered
    <3>1. registry' = registry
      BY <2>1 DEF Create, Tracked
    <3> QED
      BY <2>1, <3>1, SessionTypes, Types DEF Registered
  <2>2. CASE Creator \notin Registered
    <3>1. registry' = Append(registry, Creator)
      BY <2>2 DEF Create, Tracked
    <3> QED
      BY <2>2, <3>1, SessionTypes, AppendedRegistry
  <2> QED
    BY <2>1, <2>2
<1>3. held' = held /\ phase = "running" /\ UNCHANGED HarnessVars
  BY DEF Create
<1>4. RegistryInv'
  BY <1>1, <1>2, <1>3, SessionTypes, MakeMockStep
<1>5. Effect({Creator}, {}, {})
  BY <1>1, SessionTypes, MakeMockEffect
<1> QED
  BY <1>2, <1>3, <1>4, <1>5, BodyKeeps

\* A Stubout object made at import is used.
LEMMA SharedBlockKeeps ==
  ASSUME SessionInv, ~OverFactories, SharedBlock
  PROVE  SessionInv'
<1>1. phase = "running" /\ UNCHANGED HarnessVars
  BY DEF SharedBlock
<1>2. PICK a \in Shared :
        \/ \E s \in Slot, kind \in {"object", "anything"} : Stubout(a, s, kind)
        \/ ReplayAll(a)
  BY DEF SharedBlock
<1>3. a \in held /\ a \in Address /\ a # Creator
  BY SessionTypes DEF AtImport
<1>4. MoxCall(a)
  BY <1>2 DEF MoxCall, StuboutKind
<1>5. RegistryInv'
  BY <1>3, <1>4, SessionTypes, RegistryNext DEF Next
<1>6. UNCHANGED <<registry, held>>
  BY <1>2 DEF Stubout, ReplayAll
<1>7. Registered' = Registered
  BY <1>6 DEF Registered
<1>8. Effect({a}, {}, {a})
  <2>1. ASSUME NEW s \in Slot, NEW kind \in {"object", "anything"}, Stubout(a, s, kind)
        PROVE  Effect({a}, {}, {a})
    <3>1. Effect({a}, IF kind = "factory" THEN {a} ELSE {}, {a})
      BY <1>3, <2>1, SessionTypes, ReplaceEffect DEF Stubout, StuboutKind
    <3> QED
      BY <3>1
  <2>2. CASE ReplayAll(a)
    <3>1. Effect({}, {}, {})
      BY <2>2, SessionTypes, KindsKept, MoxesKept DEF ReplayAll
    <3> QED
      BY <3>1 DEF Effect
  <2> QED
    BY <1>2, <2>1, <2>2
<1> QED
  BY <1>1, <1>3, <1>5, <1>6, <1>7, <1>8, BodyKeeps

\* A decorator makes its Mox and stubs the attribute.
LEMMA EnterPatchKeeps ==
  ASSUME SessionInv, ~OverFactories, NEW a \in Address, NEW s \in Slot,
         NEW kind \in StuboutKind, EnterPatch(a, s, kind)
  PROVE  SessionInv'
<1>1. /\ a \notin held /\ a \notin Registered /\ a \notin AtImport /\ a # fixture
      /\ phase = "running" /\ a # Creator
  BY NewMoxIsNew DEF EnterPatch, Free, AtImport
<1>2. /\ registry' \in Seq(Address) /\ IsInjective(registry')
      /\ Registered' = Registered \cup {a}
  BY <1>1, SessionTypes, AppendedRegistry DEF EnterPatch
<1>3. held' = held \cup {a}
  BY DEF EnterPatch
<1>4. RegistryInv'
  BY <1>2, <1>3, SessionTypes, ReplaceStep DEF EnterPatch
<1>5. Effect({a}, IF kind = "factory" THEN {a} ELSE {}, {a})
  BY SessionTypes, ReplaceEffect DEF EnterPatch
<1>6. Effect({a}, {a}, {a})
  BY <1>5 DEF Effect
<1>7. /\ patches' \in Seq(Address)
      /\ \A i \in 1..Len(patches') : patches'[i] \notin AtImport \cup {fixture}
  <2>1. /\ patches \in Seq(Address)
        /\ \A i \in 1..Len(patches) : patches[i] \notin AtImport \cup {fixture}
    BY DEF SessionInv, HarnessInv
  <2>2. /\ patches' \in Seq(Address) /\ Len(patches') = Len(patches) + 1
        /\ \A i \in 1..Len(patches) : patches'[i] = patches[i]
        /\ patches'[Len(patches) + 1] = a
    BY <2>1, AppendProperties DEF EnterPatch
  <2>3. Len(patches) \in Nat
    BY <2>1, LenProperties
  <2>4. \A i \in 1..Len(patches') : i \in 1..Len(patches) \/ i = Len(patches) + 1
    BY <2>2, <2>3
  <2> QED
    BY <1>1, <2>1, <2>2, <2>4
<1>8. AtImport \subseteq held' /\ (fixture # NoMox => fixture \in held')
  BY <1>1, <1>3 DEF SessionInv, HarnessInv
<1>9. ASSUME Harness = "pytest"
      PROVE  /\ held' \subseteq AtImport \cup Registered'
             /\ \A b \in Address \ Shared : moxes'[b].log # <<>> => b \in Registered'
  BY <1>2, <1>3, <1>6, <1>9 DEF SessionInv, OwnLogs, Effect
<1>10. Creator \in {a} \cup Registered => Creator \in Registered'
  BY <1>2
<1> QED
  BY <1>1, <1>4, <1>6, <1>7, <1>8, <1>9, <1>10, EffectKeeps DEF EnterPatch

\* A decorator whose stubout raises.
LEMMA EnterPatchTurnedDownKeeps ==
  ASSUME SessionInv, NEW a \in Address, NEW s \in Slot, NEW kind \in StuboutKind,
         EnterPatchTurnedDown(a, s, kind)
  PROVE  SessionInv'
<1>1. a \notin Registered /\ phase = "running"
  BY NewMoxIsNew DEF EnterPatchTurnedDown, Free
<1>2. /\ registry' \in Seq(Address) /\ IsInjective(registry')
      /\ Registered' = Registered \cup {a}
  BY <1>1, SessionTypes, AppendedRegistry DEF EnterPatchTurnedDown
<1>3. RegistryInv'
  <2>1. SlotsHoldMocks' /\ EveryStubCanBeUndone'
    BY SessionTypes, LogsAreKept DEF EnterPatchTurnedDown, MocksStay
  <2> QED
    BY <1>2, <2>1, SessionTypes
       DEF EnterPatchTurnedDown, RegistryInv, TypeOK, IsInjective
<1>4. Effect({}, {}, {})
  BY MoxesKept DEF EnterPatchTurnedDown, MocksKeepKind
<1>5. /\ AtImport \subseteq held' /\ (fixture # NoMox => fixture \in held')
      /\ patches' \in Seq(Address)
      /\ \A i \in 1..Len(patches') : patches'[i] \notin AtImport \cup {fixture}
  BY <1>1 DEF SessionInv, HarnessInv, EnterPatchTurnedDown
<1>6. ASSUME Harness = "pytest"
      PROVE  /\ held' \subseteq AtImport \cup Registered'
             /\ \A b \in Address \ Shared : moxes'[b].log # <<>> => b \in Registered'
  BY <1>2, <1>6 DEF SessionInv, OwnLogs, EnterPatchTurnedDown
<1>7. Creator \in {} \cup Registered => Creator \in Registered'
  BY <1>2
<1> QED
  BY <1>1, <1>3, <1>4, <1>5, <1>6, <1>7, EffectKeeps DEF EnterPatchTurnedDown

\* A decorator unsets its stub and forgets its Mox.
LEMMA ExitPatchKeeps ==
  ASSUME SessionInv, ExitPatch
  PROVE  SessionInv'
<1> DEFINE a == Last(patches)
<1>1. /\ patches \in Seq(Address) /\ patches # <<>>
      /\ \A i \in 1..Len(patches) : patches[i] \notin AtImport \cup {fixture}
      /\ phase = "running"
  BY DEF ExitPatch, SessionInv, HarnessInv
<1>2. /\ Front(patches) \in Seq(Address) /\ Len(Front(patches)) = Len(patches) - 1
      /\ Len(patches) \in Nat \ {0}
      /\ \A n \in 1..(Len(patches) - 1) : Front(patches)[n] = patches[n]
      /\ a = patches[Len(patches)] /\ a \in Address
  BY <1>1, WithoutLast
<1>3. a \notin AtImport \cup {fixture} /\ a # Creator
  BY <1>1, <1>2 DEF AtImport
<1>4. /\ patches' \in Seq(Address)
      /\ \A i \in 1..Len(patches') : patches'[i] \notin AtImport \cup {fixture}
  BY <1>1, <1>2 DEF ExitPatch
<1> HIDE DEF a
<1>5. /\ slots' = Unset(<<a>>) /\ moxes' = WithoutLogs(<<a>>) /\ mocks' = mocks
      /\ registry' = Untracked(a) /\ held' = held \ {a}
      /\ raised' = "none" /\ UNCHANGED <<phase, fixture, first, report>>
  BY DEF ExitPatch, a
<1>6. /\ registry' \in Seq(Address) /\ IsInjective(registry')
      /\ Registered' = Registered \ {a}
  BY <1>2, <1>5, SessionTypes, UntrackedType DEF Registered
<1>7. RegistryInv'
  <2>1. MocksStay
    BY <1>5 DEF MocksStay
  <2>2. /\ moxes' \in [Address -> Mox] /\ slots' \in [Slot -> MockIds \cup {Original}]
        /\ SlotsHoldMocks' /\ EveryStubCanBeUndone'
    BY <1>2, <1>5, <2>1, SessionTypes, Single, StubsUnset
  <2> QED
    BY <1>5, <1>6, <2>2, SessionTypes DEF RegistryInv, TypeOK, IsInjective
<1>8. Effect({}, {}, {})
  BY <1>5, SessionTypes, LogsEmptied DEF MocksKeepKind
<1>9. AtImport \subseteq held' /\ (fixture # NoMox => fixture \in held')
  BY <1>1, <1>3, <1>5 DEF SessionInv, HarnessInv
<1>10. ASSUME Harness = "pytest"
       PROVE  /\ held' \subseteq AtImport \cup Registered'
              /\ \A b \in Address \ Shared : moxes'[b].log # <<>> => b \in Registered'
  <2>1. moxes'[a].log = <<>>
    BY <1>2, <1>5, SessionTypes, Single, LogsType
  <2> QED
    BY <1>5, <1>6, <1>8, <1>10, <2>1 DEF SessionInv, OwnLogs, Effect
<1>11. Creator \in {} \cup Registered => Creator \in Registered'
  BY <1>3, <1>6
<1> QED
  BY <1>1, <1>4, <1>5, <1>7, <1>8, <1>9, <1>10, <1>11, EffectKeeps

-----------------------------------------------------------------------------
\* A test begins: nothing but a new Mox for its fixture.
LEMMA BeginTestKeeps ==
  ASSUME SessionInv, BeginTest
  PROVE  SessionInv'
<1>1. phase = "idle" /\ patches = <<>> /\ patches' = patches /\ phase' = "running"
      /\ report' = "none" /\ first' = Len(mocks) /\ UNCHANGED <<moxes, mocks>>
  BY DEF BeginTest, SessionInv, HarnessInv, NewMox, vars
<1>2. /\ RegistryInv' /\ fixture' \in (Address \ AtImport) \cup {NoMox}
      /\ fixture' # NoMox => fixture' \in held'
      /\ held \subseteq held'
      /\ held' \subseteq held \cup Registered'
      /\ Registered \subseteq Registered'
  <2>1. ASSUME NEW a \in Address, NewMox(a), fixture' = a
        PROVE  /\ RegistryInv' /\ fixture' \in (Address \ AtImport) \cup {NoMox}
               /\ fixture' # NoMox => fixture' \in held'
               /\ held \subseteq held'
               /\ held' \subseteq held \cup Registered'
               /\ Registered \subseteq Registered'
    <3>1. RegistryInv'
      BY <2>1, SessionTypes, RegistryStep
    <3>2. a \notin AtImport /\ a \notin Registered
      BY <2>1, NewMoxIsNew DEF NewMox
    <3>3. Registered' = Registered \cup {a} /\ held' = held \cup {a}
      BY <2>1, <3>2, SessionTypes, AppendedRegistry DEF NewMox
    <3> QED
      BY <2>1, <3>1, <3>2, <3>3
  <2>2. CASE fixture' = NoMox /\ UNCHANGED vars
    <3>1. RegistryInv'
      BY <2>2, SessionTypes DEF vars, RegistryInv, TypeOK, IsInjective, SlotsHoldMocks,
                                EveryStubCanBeUndone, Undoable
    <3> QED
      BY <2>2, <3>1 DEF vars, Registered
  <2> QED
    BY <2>1, <2>2 DEF BeginTest
<1>3. HarnessInv'
  BY <1>1, <1>2, EmptySeq DEF SessionInv, HarnessInv, AtImport
<1>4. OwnMocks'
  <2>1. \A k \in DOMAIN mocks' : ~(k > first')
    BY <1>1, SessionTypes
  <2> QED
    BY <1>1, <2>1 DEF SessionInv, OwnMocks, MocksOfTest, PassedMeansVerified, AtImport
<1>5. OwnLogs'
  <2>1. moxes'[Creator].log = <<>>
    BY <1>1 DEF SessionInv, OwnLogs
  <2>2. ASSUME Harness = "pytest"
        PROVE  /\ held' \subseteq AtImport \cup Registered'
               /\ \A a \in Address \ Shared : moxes'[a].log = <<>>
    BY <1>1, <1>2, <2>2 DEF SessionInv, OwnLogs
  <2> QED
    BY <1>1, <2>1, <2>2 DEF OwnLogs, AtImport
<1> QED
  BY <1>2, <1>3, <1>4, <1>5 DEF SessionInv

\* A Mox that nothing refers to is deleted.
LEMMA CollectedKeeps ==
  ASSUME SessionInv, Collected
  PROVE  SessionInv'
<1>1. PICK a \in Address : Collect(a)
  BY DEF Collected
<1>2. RegistryInv'
  BY <1>1, SessionTypes, RegistryStep
<1>3. /\ UNCHANGED <<registry, held, mocks, phase, fixture, patches, first, report>>
      /\ a \notin held /\ a \notin AtImport /\ a # Creator
      /\ phase = "running" => a # fixture
  BY <1>1, NewMoxIsNew DEF Collected, Collect, Collectable, HarnessVars, AtImport
<1>4. /\ moxes'[a].log = <<>> /\ moxes'[a].mocks = <<>>
      /\ \A b \in Address \ {a} : moxes'[b] = moxes[b]
  BY <1>1, SessionTypes, Types DEF Collect, EmptyMox
<1>5. Registered' = Registered
  BY <1>3 DEF Registered
<1>6. HarnessInv'
  BY <1>3 DEF SessionInv, HarnessInv, AtImport
<1>7. OwnMocks'
  <2>1. moxes'[Creator] = moxes[Creator]
    BY <1>3, <1>4, SessionTypes
  <2>2. ASSUME phase = "running", NEW k \in DOMAIN mocks, k > first, mocks[k].mox = fixture
        PROVE  k \in ToSet(moxes'[fixture].mocks)
    <3>1. fixture \in Address \ {a}
      BY <1>3, <2>2, SessionTypes
    <3> QED
      BY <1>4, <2>2, <3>1 DEF SessionInv, OwnMocks, MocksOfTest, MocksOf
  <2>3. PassedMeansVerified'
    BY <1>3 DEF SessionInv, OwnMocks, PassedMeansVerified, MocksOfTest, Unmet
  <2> QED
    BY <1>3, <1>5, <2>1, <2>2, <2>3
       DEF SessionInv, OwnMocks, MocksOfTest, MocksOf, AtImport
<1>8. OwnLogs'
  <2>1. ASSUME NEW b \in Address
        PROVE  moxes'[b].log # <<>> => moxes[b].log # <<>>
    BY <1>4
  <2>2. \A b \in {fixture} \ {NoMox} : b \in Address
    BY DEF SessionInv, HarnessInv
  <2> QED
    BY <1>3, <1>5, <2>1, <2>2, SessionTypes DEF SessionInv, OwnLogs, AtImport
<1> QED
  BY <1>2, <1>6, <1>7, <1>8 DEF SessionInv

\* unittest drops the TestCase.
LEMMA TestCaseReleasedKeeps ==
  ASSUME SessionInv, TestCaseReleased
  PROVE  SessionInv'
<1>1. PICK a \in held \ AtImport : Release(a)
  BY DEF TestCaseReleased
<1>2. RegistryInv'
  BY <1>1, SessionTypes, RegistryStep
<1>3. /\ UNCHANGED <<moxes, registry, mocks, phase, fixture, patches, first, report>>
      /\ held' = held \ {a} /\ phase = "idle"
  BY <1>1 DEF TestCaseReleased, Release, HarnessVars
<1>4. Registered' = Registered
  BY <1>3 DEF Registered
<1>5. HarnessInv'
  BY <1>1, <1>3 DEF SessionInv, HarnessInv, AtImport
<1>6. OwnMocks'
  BY <1>3, <1>4 DEF SessionInv, OwnMocks, PassedMeansVerified, MocksOfTest, Unmet, AtImport
<1>7. OwnLogs'
  BY <1>3, <1>4 DEF SessionInv, OwnLogs, AtImport
<1> QED
  BY <1>2, <1>5, <1>6, <1>7 DEF SessionInv

\* A sequence with one more element in front.
LEMMA OneInFront ==
  ASSUME NEW a \in Address, NEW s \in Seq(Address), IsInjective(s), a \notin ToSet(s)
  PROVE  /\ <<a>> \o s \in Seq(Address) /\ IsInjective(<<a>> \o s)
         /\ ToSet(<<a>> \o s) = {a} \cup ToSet(s)
<1> DEFINE t == <<a>> \o s
<1>1. /\ t \in Seq(Address) /\ Len(t) = 1 + Len(s)
      /\ \A i \in 1..(1 + Len(s)) : t[i] = IF i <= 1 THEN <<a>>[i] ELSE s[i - 1]
  BY ConcatProperties
<1>2. /\ Len(s) \in Nat /\ DOMAIN s = 1..Len(s) /\ DOMAIN t = 1..(Len(s) + 1)
  BY <1>1, LenProperties
<1> HIDE DEF t
<1>3. t[1] = a
  BY <1>1, <1>2
<1>4. \A i \in 1..Len(s) : i + 1 \in DOMAIN t /\ t[i + 1] = s[i]
  BY <1>1, <1>2
<1>5. ASSUME NEW i \in DOMAIN t, i # 1
      PROVE  i - 1 \in DOMAIN s /\ t[i] = s[i - 1] /\ s[i - 1] # a
  <2>1. i \in 1..(1 + Len(s)) /\ ~(i <= 1) /\ i - 1 \in DOMAIN s
    BY <1>2, <1>5
  <2>2. t[i] = s[i - 1]
    BY <1>1, <2>1
  <2> QED
    BY <2>1, <2>2 DEF ToSet
<1>6. IsInjective(t)
  BY <1>2, <1>3, <1>5 DEF IsInjective
<1>7. ToSet(t) = {a} \cup ToSet(s)
  BY <1>2, <1>3, <1>4, <1>5 DEF ToSet
<1> QED
  BY <1>1, <1>6, <1>7 DEF t

\* The pytest plugin unsets the stubs of the fixture and of all that are registered.
LEMMA PytestUnsets ==
  ASSUME SessionInv, NEW failed, EndPytest(failed), mocks' = mocks
  PROVE  /\ moxes' \in [Address -> Mox]
         /\ slots' \in [Slot -> MockIds \cup {Original}]
         /\ SlotsHoldMocks' /\ EveryStubCanBeUndone'
         /\ \A a \in Address :
              /\ moxes'[a].log = IF a = fixture \/ a \in Registered THEN <<>> ELSE moxes[a].log
              /\ moxes'[a].mocks = IF a # fixture /\ a \in Registered THEN <<>> ELSE moxes[a].mocks
<1> DEFINE as == OfFixture \o Untracked(fixture)
<1>1. /\ as \in Seq(Address) /\ IsInjective(as)
      /\ \A a \in Address : a \in ToSet(as) <=> a = fixture \/ a \in Registered
  <2>1. CASE fixture = NoMox
    <3>1. OfFixture = <<>> /\ Untracked(fixture) = registry
      BY <2>1, SessionTypes DEF OfFixture, Untracked
    <3>2. as = registry
      BY <3>1, SessionTypes, Types, ConcatEmptySeq
    <3> QED
      BY <2>1, <3>2, SessionTypes, Types DEF Registered
  <2>2. CASE fixture # NoMox
    <3>1. fixture \in Address /\ OfFixture = <<fixture>>
      BY <2>2 DEF OfFixture, SessionInv, HarnessInv
    <3> DEFINE rest == Untracked(fixture)
    <3>2. rest \in Seq(Address) /\ IsInjective(rest) /\ ToSet(rest) = Registered \ {fixture}
      BY <3>1, SessionTypes, UntrackedType
    <3>3. as = <<fixture>> \o rest
      BY <3>1
    <3> HIDE DEF rest, as
    <3> QED
      BY <3>1, <3>2, <3>3, OneInFront
  <2> QED
    BY <2>1, <2>2
<1>2. slots' = Unset(as)
  BY DEF EndPytest
<1>3. ASSUME NEW a \in Address
      PROVE  /\ moxes'[a] \in Mox
             /\ moxes'[a].log = IF a = fixture \/ a \in Registered THEN <<>> ELSE moxes[a].log
             /\ moxes'[a].mocks = IF a # fixture /\ a \in Registered THEN <<>> ELSE moxes[a].mocks
  <2>1. moxes[a] \in Mox
    BY SessionTypes, Types
  <2>2. /\ [moxes[a] EXCEPT !.log = <<>>] \in Mox
        /\ [moxes[a] EXCEPT !.log = <<>>].log = <<>>
        /\ [moxes[a] EXCEPT !.log = <<>>].mocks = moxes[a].mocks
    BY <2>1, EmptySeq DEF Mox
  <2>3. EmptyMox \in Mox /\ EmptyMox.log = <<>> /\ EmptyMox.mocks = <<>>
    BY EmptySeq DEF EmptyMox, Mox
  <2>4. CASE a = fixture
    <3>1. moxes'[a] = [moxes[a] EXCEPT !.log = <<>>]
      BY <2>4 DEF EndPytest
    <3> QED
      BY <2>2, <2>4, <3>1
  <2>5. CASE a # fixture /\ a \in Registered
    <3>1. moxes'[a] = EmptyMox
      BY <2>5 DEF EndPytest
    <3> QED
      BY <2>3, <2>5, <3>1
  <2>6. CASE a # fixture /\ a \notin Registered
    <3>1. moxes'[a] = moxes[a]
      BY <2>6 DEF EndPytest
    <3> QED
      BY <2>1, <2>6, <3>1
  <2> QED
    BY <2>4, <2>5, <2>6
<1>4. moxes' \in [Address -> Mox]
  BY <1>3 DEF EndPytest
<1>5. /\ slots' \in [Slot -> MockIds \cup {Original}]
      /\ SlotsHoldMocks' /\ EveryStubCanBeUndone'
  <2>1. MocksStay
    BY DEF MocksStay
  <2>2. \A a \in Address : moxes'[a].log = IF a \in ToSet(as) THEN <<>> ELSE moxes[a].log
    BY <1>1, <1>3
  <2> HIDE DEF as
  <2> QED
    BY <1>1, <1>2, <2>1, <2>2, SessionTypes, LogsAreEmptied
<1> QED
  BY <1>3, <1>4, <1>5

\* MoxTestBase unsets the stubs of its own Mox.
LEMMA UnittestUnsets ==
  ASSUME SessionInv, NEW failed, EndUnittest(failed), mocks' = mocks
  PROVE  /\ moxes' \in [Address -> Mox]
         /\ slots' \in [Slot -> MockIds \cup {Original}]
         /\ SlotsHoldMocks' /\ EveryStubCanBeUndone'
         /\ \A a \in Address :
              /\ moxes'[a].log = IF a = fixture THEN <<>> ELSE moxes[a].log
              /\ moxes'[a].mocks = IF a \in Registered THEN <<>> ELSE moxes[a].mocks
<1>1. /\ OfFixture \in Seq(Address) /\ IsInjective(OfFixture)
      /\ \A a \in Address : a \in ToSet(OfFixture) <=> a = fixture
  <2>1. CASE fixture = NoMox
    <3>1. OfFixture = <<>> /\ DOMAIN OfFixture = {}
      BY <2>1, EmptySeq DEF OfFixture
    <3> QED
      BY <2>1, <3>1, EmptySeq, SessionTypes DEF IsInjective, ToSet
  <2>2. CASE fixture # NoMox
    <3>1. fixture \in Address /\ OfFixture = <<fixture>>
      BY <2>2 DEF OfFixture, SessionInv, HarnessInv
    <3> QED
      BY <3>1, Single
  <2> QED
    BY <2>1, <2>2
<1>2. ASSUME NEW a \in Address
      PROVE  /\ moxes'[a] \in Mox
             /\ moxes'[a].log = IF a = fixture THEN <<>> ELSE moxes[a].log
             /\ moxes'[a].mocks = IF a \in Registered THEN <<>> ELSE moxes[a].mocks
  <2>1. moxes[a] \in Mox
    BY SessionTypes, Types
  <2>2. moxes'[a] = [mocks |-> IF a \in Registered THEN <<>> ELSE moxes[a].mocks,
                     log   |-> IF a = fixture THEN <<>> ELSE moxes[a].log]
    BY DEF EndUnittest
  <2> QED
    BY <2>1, <2>2, EmptySeq DEF Mox
<1>3. moxes' \in [Address -> Mox]
  BY <1>2 DEF EndUnittest
<1>4. MocksStay
  BY DEF MocksStay
<1>5. /\ slots' \in [Slot -> MockIds \cup {Original}]
      /\ SlotsHoldMocks' /\ EveryStubCanBeUndone'
  <2>1. \A a \in Address :
          moxes'[a].log = IF a \in ToSet(OfFixture) THEN <<>> ELSE moxes[a].log
    BY <1>1, <1>2
  <2>2. slots' = Unset(OfFixture)
    BY DEF EndUnittest
  <2> QED
    BY <1>1, <1>4, <2>1, <2>2, SessionTypes, LogsAreEmptied
<1> QED
  BY <1>2, <1>3, <1>5

\* A test ends.
LEMMA EndTestKeeps ==
  ASSUME SessionInv, EndTest
  PROVE  SessionInv'
<1>1. PICK failed \in BOOLEAN : /\ EndPytest(failed) \/ EndUnittest(failed)
                                /\ report' = Report(failed)
  BY DEF EndTest
<1>2. /\ phase = "running" /\ phase' = "idle" /\ patches = <<>> /\ registry' = <<>>
      /\ raised' = "none" /\ UNCHANGED <<mocks, fixture, patches, first>>
  BY DEF EndTest
<1>3. /\ moxes' \in [Address -> Mox]
      /\ slots' \in [Slot -> MockIds \cup {Original}]
      /\ SlotsHoldMocks' /\ EveryStubCanBeUndone'
  BY <1>1, <1>2, PytestUnsets, UnittestUnsets
<1>4. \A a \in Address : moxes'[a].log \in {<<>>, moxes[a].log}
  BY <1>1, <1>2, PytestUnsets, UnittestUnsets
<1>5. fixture # NoMox => moxes'[fixture].log = <<>> /\ fixture \in Address
  BY <1>1, <1>2, PytestUnsets, UnittestUnsets DEF SessionInv, HarnessInv
<1>6. Creator # fixture /\ Creator \in Address
  BY SessionTypes DEF SessionInv, HarnessInv
<1>7. moxes'[Creator].mocks = <<>>
  BY <1>1, <1>2, <1>6, PytestUnsets, UnittestUnsets DEF SessionInv, OwnMocks
<1>8. Registered' = {}
  BY <1>2, EmptySeq DEF Registered, ToSet
<1>9. /\ held' \subseteq Address /\ AtImport \subseteq held'
      /\ held' \subseteq AtImport \cup ({fixture} \ {NoMox})
      /\ Harness = "pytest" => held' = AtImport
  <2>1. ToSet(OfFixture) = {fixture} \ {NoMox}
    <3>1. CASE fixture = NoMox
      BY <3>1, EmptySeq DEF OfFixture, ToSet
    <3>2. CASE fixture # NoMox
      BY <1>5, <3>2, Single DEF OfFixture
    <3> QED
      BY <3>1, <3>2
  <2>2. held' = AtImport \cup IF Harness = "unittest" THEN ToSet(OfFixture) ELSE {}
    BY DEF EndTest
  <2> QED
    BY <1>5, <2>1, <2>2, SessionTypes
<1>10. RegistryInv'
  <2>1. registry' \in Seq(Address) /\ IsInjective(registry')
    BY <1>2, EmptySeq DEF IsInjective
  <2> QED
    BY <1>2, <1>3, <1>9, <2>1, SessionTypes DEF RegistryInv, TypeOK, IsInjective
<1>11. HarnessInv'
  BY <1>2, <1>9 DEF SessionInv, HarnessInv, AtImport
<1>12. OwnMocks'
  <2>1. ASSUME report' = "passed", NEW k \in DOMAIN mocks, k > first, mocks[k].mox = fixture
        PROVE  ~Unmet(k)
    <3>1. FixtureFulfilled
      BY <1>1, <2>1 DEF Report
    <3>2. fixture # NoMox
      BY <2>1, SessionTypes
    <3>3. k \in MocksOf(fixture)
      BY <1>2, <2>1 DEF SessionInv, OwnMocks, MocksOfTest
    <3> QED
      BY <3>1, <3>2, <3>3 DEF FixtureFulfilled, Fulfilled
  <2>2. PassedMeansVerified'
    BY <1>2, <2>1 DEF PassedMeansVerified, MocksOfTest, Unmet
  <2> QED
    BY <1>2, <1>7, <2>2 DEF SessionInv, OwnMocks, AtImport
<1>13. OwnLogs'
  <2>1. moxes'[Creator].log = <<>>
    BY <1>4, <1>6 DEF SessionInv, OwnLogs
  <2>2. ASSUME Harness = "pytest", NEW a \in Address \ Shared
        PROVE  moxes'[a].log = <<>>
    <3>1. EndPytest(failed)
      BY <1>1, <2>2 DEF EndUnittest
    <3> QED
      BY <1>2, <2>2, <3>1, PytestUnsets DEF SessionInv, OwnLogs
  <2> QED
    BY <1>2, <1>5, <1>8, <1>9, <2>1, <2>2 DEF OwnLogs, AtImport
<1> QED
  BY <1>10, <1>11, <1>12, <1>13 DEF SessionInv

-----------------------------------------------------------------------------
(***************************************************************************)
(* The theorems.                                                           *)
(***************************************************************************)
LEMMA SessionInvInit ==
  ASSUME SessionInit
  PROVE  SessionInv
<1>1. /\ EmptyMox \in Mox /\ EmptyMox.log = <<>> /\ EmptyMox.mocks = <<>>
      /\ DOMAIN EmptyMox.log = {}
  BY EmptySeq DEF EmptyMox, Mox
<1>2. /\ registry \in Seq(Address) /\ IsInjective(registry) /\ Registered \subseteq AtImport
  <2>1. IsFiniteSet(AtImport)
    BY FS_AddElement DEF AtImport
  <2>2. Cardinality(AtImport) \in Nat
    BY <2>1, FS_CardinalityType
  <2> DEFINE n == Cardinality(AtImport)
  <2>3. /\ registry \in [1..n -> AtImport]
        /\ \A i, j \in 1..n : i # j => registry[i] # registry[j]
    BY DEF SessionInit, SetToSeqs
  <2>4. AtImport \subseteq Address
    BY DEF AtImport
  <2> HIDE DEF n
  <2>5. registry \in [1..n -> Address] /\ DOMAIN registry = 1..n
    BY <2>3, <2>4
  <2>6. registry \in Seq(Address)
    BY <2>2, <2>5 DEF n
  <2> QED
    BY <2>3, <2>5, <2>6 DEF IsInjective, Registered, ToSet
<1>3. /\ mocks \in Seq(Mock) /\ Len(mocks) = 0 /\ DOMAIN mocks = {}
  BY EmptySeq DEF SessionInit
<1>4. TypeOK
  BY <1>1, <1>2, <1>3 DEF SessionInit, TypeOK, AtImport
<1>5. RegistryInv
  <2>1. SlotsHoldMocks
    BY DEF SessionInit, SlotsHoldMocks
  <2>2. \A a \in Address, s \in Slot : Places(moxes[a].log, s) = {}
    BY <1>1 DEF SessionInit, Places
  <2>3. EveryStubCanBeUndone
    BY <2>2 DEF SessionInit, EveryStubCanBeUndone, Undoable
  <2> QED
    BY <1>4, <2>1, <2>3 DEF RegistryInv
<1>6. HarnessInv
  BY EmptySeq DEF SessionInit, HarnessInv, AtImport
<1>7. OwnMocks
  BY <1>1, <1>3 DEF SessionInit, OwnMocks, MocksOfTest, PassedMeansVerified
<1>8. OwnLogs
  BY <1>1, <1>2 DEF SessionInit, OwnLogs, AtImport
<1> QED
  BY <1>5, <1>6, <1>7, <1>8 DEF SessionInv

LEMMA SessionInvNext ==
  ASSUME SessionInv, ~OverFactories, [SessionNext]_sessionVars
  PROVE  SessionInv'
<1>1. CASE UNCHANGED sessionVars
  <2>1. RegistryInv'
    BY <1>1 DEF sessionVars, SessionInv, RegistryInv, TypeOK, IsInjective, SlotsHoldMocks,
                EveryStubCanBeUndone, Undoable
  <2> QED
    BY <1>1, <2>1 DEF sessionVars, SessionInv, HarnessInv, OwnMocks, OwnLogs, MocksOfTest,
                      MocksOf, PassedMeansVerified, Unmet, Registered
<1>2. CASE SessionNext
  BY <1>2, BeginTestKeeps, CollectedKeeps, TestStepKeeps, CreateKeeps, SharedBlockKeeps,
     EnterPatchKeeps, EnterPatchTurnedDownKeeps, ExitPatchKeeps, EndTestKeeps,
     TestCaseReleasedKeeps DEF SessionNext
<1> QED
  BY <1>1, <1>2

\* What restores the attributes of a test under unittest is in the end the garbage
\* collector; what a Mox that it cannot collect has stubbed was stubbed by a Stubout
\* object of a module, or there is a factory among the mocks.
LEMMA RestoredBetweenTests ==
  ASSUME SessionInv, Harness = "pytest" \/ ClassSlot = {}
  PROVE  StubsAreRestored
<1> SUFFICES ASSUME BetweenTests, NEW s \in Slot, slots[s] # Original
             PROVE  StubbedByShared(s)
  BY DEF StubsAreRestored
<1> DEFINE maker == mocks[slots[s]].mox
<1>1. slots[s] \in DOMAIN mocks /\ maker \in Address
  BY SessionTypes, MakerIsAddress
<1>2. moxes[maker].log # <<>>
  <2>1. PICK i \in DOMAIN moxes[maker].log : Places(moxes[maker].log, s) = {i}
    BY SessionTypes DEF RegistryInv, EveryStubCanBeUndone, Undoable
  <2> QED
    BY <2>1, EmptySeq
<1>3. phase = "idle"
  BY DEF BetweenTests
<1>4. ASSUME maker \notin Shared
      PROVE  FALSE
  <2>1. CASE Harness = "pytest"
    BY <1>1, <1>2, <1>3, <1>4, <2>1 DEF SessionInv, OwnLogs
  <2>2. CASE ClassSlot = {}
    <3>1. \A k \in DOMAIN mocks : mocks[k].kind # "factory"
      BY <2>2 DEF SessionInv, OwnMocks
    <3>2. maker \in held \cup Registered
      <4>1. moxes[maker] # EmptyMox
        BY <1>2 DEF EmptyMox
      <4>2. Referenced(maker)
        BY <1>1, <4>1 DEF BetweenTests, Collectable
      <4> QED
        BY <3>1, <4>2 DEF Referenced, KeepsAlive
    <3>3. maker \in AtImport \cup {fixture}
      BY <1>3, <3>2 DEF SessionInv, OwnLogs
    <3>4. maker # Creator
      BY <1>2 DEF SessionInv, OwnLogs
    <3>5. maker # fixture
      BY <1>1, <1>2, <1>3, SessionTypes DEF SessionInv, OwnLogs
    <3> QED
      BY <1>4, <3>3, <3>4, <3>5 DEF AtImport
  <2> QED
    BY <2>1, <2>2
<1> QED
  BY <1>1, <1>4 DEF StubbedByShared

\* The invariant holds in every session.
LEMMA SessionIsSafe ==
  ~OverFactories => (SessionSpec => []SessionInv)
<1> SUFFICES ASSUME ~OverFactories PROVE SessionSpec => []SessionInv
  OBVIOUS
<1>1. SessionInit => SessionInv
  BY SessionInvInit
<1>2. SessionInv /\ [SessionNext]_sessionVars => SessionInv'
  BY SessionInvNext
<1> QED
  BY <1>1, <1>2, PTL DEF SessionSpec

\* Whatever the tests of a session do, with any number of Mox instances, decorators
\* and stubs, the Mox of mox.create has no mock of an earlier test when a test begins
\* (MoxMetaTestBase and the plugin both end a test with reset_instances).
THEOREM NoMockOutlivesItsTest ==
  ~OverFactories => (SessionSpec => []MocksStayInTheirTest)
<1>1. SessionInv => MocksStayInTheirTest
  BY DEF SessionInv, OwnMocks, MocksStayInTheirTest, BetweenTests
<1> QED
  BY <1>1, SessionIsSafe, PTL

\* A test that is reported as passed had all mocks of its fixture verified, also those
\* that the fixture's Mox made after its stubs were unset or another Mox was made.
THEOREM PassedTestsWereVerified ==
  ~OverFactories => (SessionSpec => []PassedMeansVerified)
<1>1. SessionInv => PassedMeansVerified
  BY DEF SessionInv, OwnMocks
<1> QED
  BY <1>1, SessionIsSafe, PTL

\* Between tests every attribute is the original, unless a Stubout object of a module
\* replaced it: always under pytest, and under unittest when no class is stubbed with
\* a factory, which refers to the Mox that made it and keeps it from being collected.
THEOREM TestsRestoreStubs ==
  ~OverFactories /\ (Harness = "pytest" \/ ClassSlot = {})
    => (SessionSpec => []StubsAreRestored)
<1> SUFFICES ASSUME ~OverFactories, Harness = "pytest" \/ ClassSlot = {}
             PROVE  SessionSpec => []StubsAreRestored
  OBVIOUS
<1>1. SessionInv => StubsAreRestored
  BY RestoredBetweenTests
<1> QED
  BY <1>1, SessionIsSafe, PTL

\* No session loses track of a stub either, although its tests, decorators and shared
\* objects stub through Mox instances that were forgotten or collected in between.
THEOREM SessionStubsCanBeUndone ==
  ~OverFactories => (SessionSpec => []EveryStubCanBeUndone)
<1>1. SessionInv => EveryStubCanBeUndone
  BY DEF SessionInv, RegistryInv
<1> QED
  BY <1>1, SessionIsSafe, PTL

=============================================================================
