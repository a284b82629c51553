# A TLA+ development of Mox

Mox (`src/mox`) is a record/replay mocking library for Python. A test creates
mocks, *records* the calls it expects, puts the mocks in *replay* mode, runs the
code under test against them, and *verifies* that all expected calls were made.
Attributes of modules, classes and instances can be replaced by mocks
(*stubbed*) and must be restored in the end.

The modules here model the library's control: what each operation does to the
queues of expected calls, to the undo logs of the stubs, and to the registry of
Mox instances. TLC checks them on small instances, and TLAPS proves the
properties that matter most for every value of the constants.

## 1. Inventory

| Component | Source | State | Operations | Model |
|---|---|---|---|---|
| Method groups | `groups.py` | the methods of a group, for a MultipleTimesGroup also those not called yet | `add_method`, `method_called`, `is_satisfied` | `MethodGroups` |
| Mock, MockMethod | `mox.py` 363-852, 1092-1413 | queue of expected calls, replay mode, exceptions thrown; a MockMethod has its own mode, queue and arguments | attribute access, call, `any_order`, `multiple_times`, `_replay`, `_reset`, `_verify` | `MockAnything`, `MockHistory`, `FluentMock` |
| what a mock answers | `mox.py` 700-800, 1160-1200, 1356-1413 | a MockMethod has a return value, an exception and side effects | `returns`, `raises`, `with_side_effects`, the end of `__call__`; the container methods and the iteration by subscripts | `MockAnswers` |
| the promise of a mock | `README.md`, docstrings | a script of phases, the calls made | record, accept or refuse a call, verify | `CallScript` |
| StubOutForTesting | `stubbingout.py` | two undo logs (`cache`, `stubs`) | `set`, `unset_all`, `smart_set`, `smart_unset_all`, `__del__` | `StubOutForTesting` |
| Mox and its registry | `mox.py` 86-360, 855-919 | the mocks and the undo log of each Mox; `_instances` | `create_mock`, `stubout`, `stubout_class`, `replay_all`, `verify_all`, `reset_all`, `unset_stubs`, the `global_*` operations, `forget`, `reset_instances`; calls of class factories | `MoxRegistry` |
| Test harnesses | `testing/pytest_mox.py`, `testing/unittest_mox.py`, `decorators.py` | the Mox of the fixture, the Mox instances of the decorators being executed | set-up and clean-up of a test | `TestSession` |
| Context managers | `contextmanagers.py` | `mox.create` has one Mox for the whole process, a `Stubout` has one Mox, `mox.expect` has the stubs of its last call | `__enter__`, `__exit__`, `__call__` | `TestSession` (create, stubout), `ExpectBlocks` (expect) |
| MethodSignatureChecker | `mox.py` 922-1075 | what Python knows of the method; the status of each argument while `check` runs | `check`, the split of the arguments in `__init__` | `SignatureChecker`; for the other modules its verdict, the constant `Legal` |
| Comparators | `comparators.py` | a `Value` stores what a `Remember` is compared with | `==` | `Comparators`, and `RememberedValues` for the calls; for the other modules their verdict, the constant `Matches` |
| String imports, exceptions' texts, aliases, tools | `helpers.py`, `exceptions.py`, `pymox`, `tools` | none | | not modelled |

### How the components interact

* A mock hands out a `MockMethod` for every attribute access. The MockMethod
  refers to the mock's *current* queue and to the list of thrown exceptions, and
  copies its mode. `_reset` gives the mock a new queue, so MockMethods from
  before keep working on the old one.
* `any_order` and `multiple_times` take the MockMethod off the end of its queue
  and put a group there. Groups put themselves back at the head of the queue
  while they are not finished.
* A call is compared with expected calls by Python's `==` on tuples of parameters, that is by
  comparators, which are client code or have a state (`Remember`); a group compares its
  methods one by one, and `list.remove` compares them again.
* The side effects of an expected method are client code that runs in the middle of a
  call, with the expectation off the queue and the answer not yet read.
* A Mox knows its mocks and has a `StubOutForTesting`. A mock knows its Mox only by
  `id()`: `MockObject.__call__` unsets that Mox's stubs, by a lookup in the
  registry, when a direct call raises. A class factory does refer to its Mox.
* The metaclass registers every Mox by its `id()`. `mox.expect`, the pytest plugin
  and `global_*` work on all registered instances; the harnesses empty the
  registry after each test. An instance that is forgotten by everybody is deleted,
  and `StubOutForTesting.__del__` undoes its stubs.

### What is hard

The library is sequential (`mox.py` 36-39 rules threads out), so what is hard is
not concurrency but *histories*: legal calls in an order that nobody wrote a test
for, client code that is called in the middle of an operation, objects that outlive the
phase they were made in, clean-up after failures, and undo in the right order across several
logs. `PROJECT.json` lists the hazards
line by line with the properties that cover them. What makes each component
correct:

* **Mock**: in fluent use (section 3) it accepts exactly the runs of what was
  recorded; no expectation is lost; verify passes only when all were made; a
  refused call makes each later verify fail.
* **Answers**: a method answers what it was told to, whatever its side effects return or
  call; an iteration over a mock ends.
* **Comparators**: what is remembered comes from the calls that were answered, and comparing
  loses no expectation.
* **Signature checker**: what can be recorded is what Python would bind.
* **StubOutForTesting**: with the logs undone every `__dict__` is what it was, and until then
  a log has the original, also when a `set` or an undo has failed halfway.
* **Mox and registry**: each stub is in the log of one Mox, with the original.
* **Harnesses**: between tests nothing is stubbed, no mock of an old test is left
  in a Mox that lives on, and a test passes only if its mocks were verified.
* **expect**: leaving a block puts the mocks of the block in replay mode and no others, and
  leaves nothing behind for the next block.

## 2. Modules

`A -> B` means that B extends A.

    MethodGroups -> MockAnything -> MockHistory -> FluentMock  (implements CallScript)
                                 -> MockAnswers
    Comparison -> Comparators
    MethodGroups, Comparison -> RememberedValues
    SignatureChecker
    StubOutForTesting
    MoxRegistry -> TestSession
                -> ExpectBlocks

The modules named `MC_*` give values to constants, and the modules named `*Proofs` hold the
proofs about the module they are named after. `MockProofs` is about `MockAnything`, its types,
the order in its queues, and `MockHistory`, in three parts; `FluentMockProofs` builds on it.
`MoxProofs` is about `MoxRegistry`, `ExpectBlocks` and `TestSession`. `MethodGroupsProofs` has the
lemmas on the elements of a queue that the proofs about mocks share. A definition that stands before another one of a like name and is
used nowhere is a *mutated form* of it: putting it in place of the original must make TLC find
a violation (`PROJECT.json`, "mutants").

**MethodGroups** (`groups.py`). An element of a queue is a record; which expected
methods a call is equal to is handed in as a set. A `MultipleTimesGroup` keeps
Python sets, whose order of iteration depends on addresses and may change with every
insertion: `WithMethod` gives all orders.

**MockAnything** (`mox.py`). `methods` has all MockMethods by order of creation,
`queues` all queues, the last of which is the mock's. There are calls at once
(`RecordCall`, `RejectCall`, `AnswerCall`, `RefuseCall`) and calls of a kept MockMethod
(`Hold`, then `RecordHeld`, `RejectHeld`, `AnswerHeld`, `RefuseHeld`, in the mode and on
the queue of its creation, storing the arguments first). A modifier is one of
`Regroup`, `RegroupNotAtTail` (the Error is raised after the pop) and `RegroupOnEmpty`.
`Serve` and `Refuse` model the loop of `_verify_method_call`: elements are taken off
the queue up to the k-th, which answers or refuses. `OfClass` tells a MockObject from a
MockAnything: only the former raises for unknown attributes (`AccessUnknown`).
What a method *answers with* is the subject of `MockAnswers`; `MoxRegistry`
distinguishes a call that raises.

**MockAnswers** (`mox.py`) adds the return value, the exception and the side effects of a
MockMethod to the calls of `MockAnything`. A call of a method with side effects takes two
steps: `Call` takes the expectation off the queue and puts the side effects on the stack
`running`; `EffectsReturn` and `EffectsRaise` end it, and between the two the client's code
may make any other calls, the same method's side effects again included. What side effects
return is cached in the expected method unless it has a value then (`Cached`, `_UNSET`).
`Iterate` begins the loop of `MockObject.__iter__`; each `NextItem` is one `self[index]`.
`NotSupported` is the TypeError for a container method that the class lacks.

**Comparators** (`comparators.py`) makes the comparison an effect: `Equals` returns a
verdict and what the `Value` has afterwards. A Func may raise in the middle; `Not`, `And` and
`Or` evaluate what Python's code does and no more. `While` (**Comparison**) is a series of
comparisons, each of which meets what the ones before it stored.

**RememberedValues** (`mox.py`, `groups.py`): a call that is compared with expected ones, a
`While` over the places of a tuple of parameters (`ParamsEqual`), over the methods of a
group (`Scan`, and again for `list.remove`) and over the elements of the queue (`Served`).
`Record` evaluates the first comparator too, for the signature checker compares it with the
class. What one comparator does is the constant `Equal`, so that the theorems do not depend on
how comparators are nested; the run takes `Equals` of `Comparators` for it. `Liberties` says which
uses are allowed beyond the careful one, and `ComparatorsAreCareful` what a careful
comparator does: TLC evaluates it for the run's.

**SignatureChecker** (`mox.py`): one behaviour is one run of `check`, a turn of its
loops being a step. `KeepParams`, `KeepFirst`, `DropFirst` and `ClassNotFound` are the
outcomes of the guess whether the first parameter is the receiver, `CheckParam`,
`CheckSurplus` and `CheckKeyword` the turns, `Conclude` the end. `Binds` is the reference:
what Python's call does with the same parameters.

**MockHistory** adds what the client recorded and which calls were answered since the
last reset, and defines fluent use: MockMethods are called at once, modifiers are chained
to the last recorded call, in record mode.

**CallScript** is the abstract specification: a script is a sequence of phases (one call,
calls in any order, calls once or more), and what a mock may accept, refuse and verify is
stated by the existence of an assignment of calls to expectations, without queues. It is
exact but for *ambiguous* scripts, in which one call may stand for several expectations:
there the mock may refuse what another way of counting would accept (it is greedy), but
may still accept nothing, and pass nothing, that has no explanation. **FluentMock**
checks that the mock implements it (`KeepsPromise`): `trace <- answered`,
`broken <- thrown`, `verdict <- Verdict`.

**StubOutForTesting** (`stubbingout.py`) has one attribute name on a module, a class, its
subclass and an instance of the subclass. A `__dict__` entry is a function,
a staticmethod, a classmethod or a bound method; `Lookup` is what Python's getattr makes
of it. On the objects of `ReadOnly` setattr raises (a built-in type, an extension module's
class): the `set` or the undo ends there, the log is left as the code leaves it. `Liberties` says which uses are allowed beyond the careful one, each of
which breaks the restoration (section 4); a passing run has none of them.

**MoxRegistry** (`mox.py`). A Mox is its address, which may be used again after the
Mox is deleted; a stubbed attribute is a slot, its content the original or a mock. Of
the calls a mock expects only the number is kept (`owed`), whether it answers or
refuses is chosen freely. All operations of Mox, of the metaclass, of factories, and the
module functions `replay`, `verify`, `reset` are actions. Mocks that clients make without
a Mox (`NoMox`) come in with `ExpectBlocks`; no operation of a Mox or of the metaclass reaches them. `Collect` is the deletion of
a Mox nothing refers to, at any later time. A slot here is an attribute that its object
defines itself, so undoing one log entry assigns the old value (see StubOutForTesting
for the rest). `OverFactories` says whether clients stub over a factory.

**TestSession** adds the harness: a test begins, runs any operations of `MoxRegistry`
(its body and the code under test), enters and leaves decorators, uses `mox.create` and
shared `Stubout` objects, and ends in success or failure with the clean-up of
pytest or unittest. CPython deletes objects at once when nothing refers to them;
a test begins only when nothing is left to collect.

**ExpectBlocks** adds `with mox.expect`, `with mox.expect(stub)`, `with m.expect` and
`with stub._expect`. `single` is the list of stubs in the one object `mox.expect`. In the
blocks and outside (`Body`) mocks are called, Mox instances are made and forgotten, and
mocks are made, by a Mox (registered or not) or by the client itself (`MakeFreeMock`).
`reset_instances` is not in it, nor is the deletion of a Mox: both leave mocks that no registered Mox
has, as `Forget` does.

## 3. Passing runs

Each run is exhaustive for its bounds. **Fairness**: nearly all steps are calls of a client that
may stop at any time, and have none. The exception is the loop in `MockObject.__iter__`, which
the library runs itself: `NextItem` is weakly fair in `MC_MockAnswers`, and no other step is, so
`IterationEnds` has to hold although side effects need not return and may call the mock for ever
(these are the cases it exempts).

| Run | Checks | Bounds, and why they are enough |
|---|---|---|
| `MC_MockAnything` | `QueuesStayApart`: a kept MockMethod never gets into the queue of another recording. `GroupsCanBeSatisfied`: no empty group, and none waiting for a method it does not have. `GroupsAreMerged`: neighbours with one kind and name are one group. `RefusalResurfaces`: after a refused call or an unknown attribute verify never passes, resets included. | Any use of the mock. 2 MockMethods, each callable many times with 3 arguments (a literal, one the signature refuses, a comparator equal to both), 3 places per queue, one reset: two methods suffice for overwriting, grouping and being not at the tail. |
| `MC_FluentMock` | `NoExpectationIsLost`, `EveryExpectedCallWasMade`, `KeepsPromise` | Fluent use of one method, 3 expectations over both kinds and two names of groups, a reset anywhere, up to 3 calls: a group handing over to a group handing over to a single method fits. The comparator makes ambiguous scripts, and one argument is turned down by the signature. |
| `MC_MockAnswers` | `ConfiguredValueStays`: what `returns` was given stays the answer. `AnswersAgree`: one expected method gives all its calls one answer until it is told another. `IterationEnds`. | 2 methods in queues with groups of both kinds, subscripts 0 to 2 of which 0 and 1 can be recorded, so that an iteration gets one step further than what is expected; the values None and another one, since None is what the code must tell from "unset"; IndexError as the exception; nested two deep, the least depth at which a side effect runs inside of another call of its method. |
| `MC_RememberedValues` | `VerifiedMeansAnswered`: verify passes only when each expected method has answered a call. `StoredByAnsweredCalls`: until a call is refused the Value has what the last answered Remember was given. | 3 expected calls of a method with a key and an argument, ten expected tuples over all combinators, 7 of them careful, calls with 2 keys, 2 arguments and one parameter too few, both kinds of groups: a group in which one method stores, one reads and one does neither fits. |
| `MC_SignatureChecker` | `NoRightCallIsRefused`, `NoWrongCallIsRecorded` | All methods with up to 2 positional, one positional-only and one keyword-only parameter, with and without defaults, `*args` and `**kwargs`; all calls with up to 3 parameters (first one plain, an instance or a comparator equal to one) and up to 3 keywords in any order. One parameter more than needed, than has a default and than exists fits; each behaviour is one run of `check`, which ends. |
| `MC_StubOut` | `RestoredToOriginal`; `OriginalsAreKept`: what is not as it was is in a log with its original | Module, class, subclass, instance; the subclass and the module stubbed with smart_set, the others with set; the module turns setattr down, so that smart_set of it and each undo of its entry fail; 4 log entries, all initial definitions. |
| `MC_MoxRegistry` | `EveryStubCanBeUndone`, `ExpectedCreationsHaveInstances` | 2 addresses, each used by any number of Mox instances one after another; a slot with a function and one with a class; 2 mocks, one expected call each. |
| `MC_TestSession_pytest` | `StubsAreRestored`, `MocksStayInTheirTest`, `PassedMeansVerified` | Any number of tests; the Mox of `mox.create` and two more at a time (fixture, decorators, the test's own); a slot with a function and one with a class; 2 mocks in the whole session. |
| `MC_TestSession_unittest` | the same and `EveryStubCanBeUndone` | The same with one slot, which holds no class (section 4: a class stubbed by a Mox other than `self.mox`), and a Stubout object that all tests share: it stubs in one test and in a later one. |
| `MC_ExpectBlocks` | `NoLeftoverStubs`, `BareBlockReplaysAll`, `GivenStubsAreReplayed`, `OthersGoOnRecording`, `OthersKeepTheirCalls` | Blocks of all kinds, two deep, any number of them one after another, `mox.expect` given something that is not a mock at any time; 2 Mox instances, 2 mocks, of one Mox, of two or of none: one that belongs to a block and one that does not. |

`MC_MockAnything`, `MC_StubOut` and `MC_MoxRegistry` also check `TypeOK`. Deadlock is checked
in all runs but those of `SignatureChecker`, where `check` returns. The bounds `MaxMethods`,
`MaxQueues`, `MaxItems`, `MaxCalls`, `MaxLog`, `MaxMocks`, `MaxOwed`, `MaxDepth` and `MaxNesting`
are guards of the actions that
grow something and correspond to nothing in the code; the theorems hold for all their
values. Addresses are interchangeable (no action compares them in an order), and so are group
names and replacements, hence the symmetries. No action and no property of `TestSession` reads `raised`, hence
the view that leaves it out; in `MC_ExpectBlocks` nothing depends on the order of registration
and of the mocks in a Mox either, and the view has them as sets.

## 4. Where the code and its documentation disagree

Each of these runs checks one property that quotes a document, and TLC finds a shortest
history that refutes it. The line of the code and the quotation are in `PROJECT.json`,
"findings".

| Run | History |
|---|---|
| `MC_StubOut_classmethod` | `smart_set` of a classmethod restores a bound method |
| `MC_SignatureChecker_static` | a static method `sm(a, b)`: recording `sm(1, 2)` raises AttributeError, since `a` is skipped as if it were the receiver |

The passing runs state under which use their properties hold. Each of these conditions is
needed; the history on the right is what TLC answers when it is lifted.

| Condition | Where | Without it |
|---|---|---|
| MockMethods are called at once | `FluentNext` (MockHistory) | `f = m.foo; f(1); f(2)`: both expectations are `foo(2)` now, verify passes without `foo(1)` (`mox.py` 1166) |
| a modifier follows its call at once | `FluentRegroup` (MockHistory) | `c = m.foo(1); m.foo(2); c.any_order()`: Error, and `foo(2)` is no longer expected; verify passes without it |
| `multiple_times(n)` takes a name of a group | `Group` (MethodGroups) | taken for a count, as its name and the README (243-244) suggest: `multiple_times(2)`, one call, verify passes |
| no call twice in one `multiple_times` group | `Ambiguous` (CallScript) | the second of two equal expectations is never called, and verify always fails |
| subscripts are recorded with literals | `Recorded` (MockAnswers) | a comparator equal to every index in a `multiple_times` group answers for ever: `list(mock)` does not end |
| a comparator stores only when all others have matched, and does not raise | `Careful`, liberty "careless" (RememberedValues) | `Remember` before another comparator, or reached by a call with more parameters than expected, keeps the value of calls it does not answer; a `Func` that raises takes its expectation off the queue, the exception is not kept, and verify passes |
| no Remember and Value in one `any_order` group | liberty "mixed" (RememberedValues) | the second comparison of `list.remove` meets what the first one stored: ValueError, the group is off the queue, and verify passes |
| functions, methods and bound methods without keyword-only and positional-only parameters | `WellRead` (SignatureChecker) | keyword-only parameters cannot be given, positional-only ones can be given by name; for a method of a class that is defined in a function the check raises KeyError, as soon as more than the required parameters are given |
| set only where the attribute is defined | `Liberties`: "inherited" | stub a base class, then a subclass that inherits; after `unset_all` the stub is in the subclass |
| set or smart_set, not both | `Liberties`: "mixed" | `smart_set`, then `set` on the same attribute; the two logs are undone in the wrong order |
| no smart_set through an instance | `Liberties`: "instance" | a method bound to that instance is restored on its class |
| no `__del__` while an entry cannot be undone | `lost` (RestoredToOriginal, OriginalsAreKept) | on what refuses setattr, the failing `set` leaves a log entry; `__del__` swallows the exception of the undo, and the entries behind it are never undone |
| nobody stubs over a factory | `OverFactories` | two Mox instances stub one class, the first with a factory; the undo in the order of the registry leaves the factory |
| under MoxTestBase classes are stubbed by `self.mox` | `ClassSlot` is empty in `MC_TestSession_unittest` | a class stubbed by another Mox stays stubbed after the test: the factory keeps its Mox alive, and the clean-up knows `self.mox` only |
| a shared Stubout object looks after itself | `StubbedByShared` (StubsAreRestored) | a Stubout object used in two tests is not cleaned up after the second |
| no bare block inside of `with mox.expect(stub)` | `InsideGiven` (BareBlockReplaysAll, OthersKeepTheirCalls) | the inner block resets the outer one's stubs, and replays them only |
| stubs of `with mox.expect(stub)` that has other `mox.expect` blocks inside belong to a registered Mox | `OfRegistered` (GivenStubsAreReplayed) | `free = mox.MockObject(X)`, `with mox.expect(free): with mox.expect(b): pass`: the inner exit drops the stubs, the outer one is a global_replay, and `free` goes on recording; so does a mock whose Mox was forgotten |
| a block with stubs has no other `mox.expect` block inside | `single # {}` (OthersGoOnRecording) | in the same history all mocks of registered Mox instances are replayed, those of an expect block around the two included |
| only mocks are passed to `mox.expect` | `NotAMock` (NoLeftoverStubs) | `with mox.expect(x)` fails and leaves `x` for the next block |
| setUp returns | `BeginTest` (StubsAreRestored) | the `setUp` of a subclass of MoxTestBase stubs and raises: the wrapped test method, which has the clean-up (`unittest_mox.py` 46-69), never runs, nothing is unset and the registry is not reset |
| one verifies what is not the harness's | `mocks[k].mox = fixture` (PassedMeansVerified) | under MoxTestBase a test passes with unmet mocks of another Mox |

## 5. Proofs

All theorems hold for every value of the constants that satisfies the named assumptions in
the modules (arguments are equal to themselves, bounds are naturals, the marker values are
distinct from the values they mark). `TLC` evaluates the assumptions in every run.

* **QueuesStayApartAlways**, **MockTypesHold** (`MockProofs`): `Spec => [](TypeOK /\ QueuesStayApart)`.
  The inductive invariant `QueueInv` says that the g-th queue is a sequence of elements over
  `Own(g)`, the MockMethods created for it, and `QueuesExist` that a MockMethod's queue is
  one of `queues`. `QueuesStayApart` alone is not inductive: an action that regroups or serves
  needs the types of the elements, and one that records needs `QueuesExist`. Lemmas state
  what `WithMethod`, `Remaining`, `Beyond` and `Grouped` return. **RefusalsAlwaysResurface** is
  the action property that a refusal is never forgotten, from the invariant that a refusal
  returned is a refusal kept.
* **GroupsCanAlwaysBeSatisfied** and **GroupsAreAlwaysMerged** (`MockProofs`): by the invariant
  `QueuesInOrder`, that each queue is a sequence of sound elements whose neighbours are no two
  parts of one group. That a call keeps it so needs that what goes back to the head is the
  element that served, less a method; that a modifier keeps it so needs that a method taken off the
  tail either joins the group before it or makes one that is unlike it.
* **NoExpectationIsEverLost** and **VerifyIsSound** (`MockProofs`):
  `FluentSpec => []NoExpectationIsLost` and `FluentSpec => []EveryExpectedCallWasMade`. Verify
  reads the queue, not the history, so its soundness follows from an invariant that relates
  the two: until a call is refused every recorded call was made or is owed by an element of
  the current queue (`Owed`). One lemma per action shows that what leaves the queue was
  answered: groups passed over owe nothing (`PassedOver`), and the one method that stops being
  owed is the one that fits the call. The last step is that a queue verify accepts owes nothing.
* **MockKeepsItsPromise** (`FluentMockProofs`): `ScriptedSpec => KeepsPromise`, the refinement of
  `CallScript`, for all names, comparators and bounds. `ScriptInv` is the inductive invariant:
  the queue *mirrors* the end of the script, element by phase, less the places that were
  served (`Mirrors`), and the calls answered so far are counted for places of the script by an
  assignment that explains them (`Follows`). Both are existential: no variable of the mock
  keeps which place a MockMethod was recorded for (`Owners`). That everything the mock accepts is
  allowed follows from this assignment alone. That it refuses nothing that is allowed needs
  every other assignment: unless the script is ambiguous, each of them covers the same
  places phase by phase (`PhasesAgree`; by `Pigeonhole` within one phase), so a call refused
  has no place in any. One lemma per action shows that it keeps the invariant
  and takes the abstract step (`RecordTracks`, `RegroupTracks`, `AnswerTracks`, `RefuseTracks`,
  `VerifyTracks`, `ResetTracks`). The longest of them is the modifier: what it takes off
  the tail of the queue is the last phase, and it comes back as a longer group or a new one.
* **StubTypes**, **StubsAreUndone** and **OriginalsStayInTheLogs** (`StubOutProofs`): all of
  `StubOutForTesting`, for any objects, base classes and replacements; the last two from
  `CarefulClient`, that no liberty but "readonly" is taken: with the others they are false
  (section 4, and `MC_StubOut_classmethod`). The loops of the code are folds over
  a log; `PutBackRuns` and `SmartPutBackRuns` describe a fold by the states between its turns,
  and `Counting` goes through the turns one by one (by the least turn at which a fact
  fails, since induction takes an operator). A log is undone from its end, so it is the first entry
  of an object that counts. `CarefulInv` says of *every beginning* of a log that undoing it
  gives the originals (`Rewinds`, `SmartRewinds`): so a turn of the loop, which takes one entry off, has
  the same left to show. A log with an entry that cannot be undone is not emptied, and is
  reversed by each attempt; of it the invariant says that of all that is not as it was an
  original is still somewhere in it (`Keeps`), which is what the code can promise then.
* **ConfiguredValueAlwaysStays** and **AnswersAlwaysAgree** (`MockAnswersProofs`): for any depth of
  nesting. What a method has returned is related to the answer it has *now*, which may change
  between a call and its end. `AnswersInv` says of each method that a value returned is the
  cached or configured one, or None for a method without side effects, and of each frame of
  `running` that it belongs to a method with side effects (`Fits`): so ending a call never
  returns None where an earlier one of the method has cached something.
* **RightCallsCanBeRecorded** and **RecordedCallsAreRight** (`SignatureCheckerProofs`): for all
  signatures that are well read, and all calls. `CheckerInv` describes the status of
  each argument after a number of turns; at the end the verdict is compared with `Binds`. The hard
  case is a receiver dropped from the parameters: the checker does so only when more than the
  required ones are given, and then the call without its first parameter binds whenever
  the whole one does.
* **EveryStubCanAlwaysBeUndone**, **RegistryTypesHold** and **ExpectedCreationsAlwaysHaveInstances**
  (`MoxProofs`): from
  `~OverFactories`. The property is inductive with the types (a Mox is registered once) and
  with `SlotsHoldMocks`. `LogsAreKept` serves the actions that leave slots and logs alone,
  `LogsAreEmptied` those that unset the stubs of some Mox instances, one or all; that the order
  in which `global_unset_stubs` takes them does not matter follows from each slot being in
  one log. Without the assumption the theorem is false (section 4). The two mocks of the run are one
  factory and one instance; the theorem about factories holds for any number of them,
  so also for what is recorded after a reset.
* **NoStubsAreLeftOver**, **BareBlocksReplayAll**, **GivenStubsAreAlwaysReplayed**,
  **OthersAlwaysGoOnRecording** and **OthersAlwaysKeepTheirCalls** (`MoxProofs`): all
  properties of expect blocks, for any nesting. The one object `mox.expect` does not know
  whose stubs it has; `StubsOfSingle` says it: they are those of the innermost
  open block with stubs, unless something that is not a mock was passed. `MocksExist` says that
  the mocks a Mox lists were made. The converse is not assumed: a mock may be in no Mox, or in a
  forgotten one, and then a global_replay does not reach it, as `GivenStubsAreReplayed` says.
* **TestsRestoreStubs**, **NoMockOutlivesItsTest**, **PassedTestsWereVerified** and
  **SessionStubsCanBeUndone** (`MoxProofs`): from `~OverFactories`, and the first from
  `Harness = "pytest" \/ ClassSlot = {}`, without which it is false (section 4). `SessionInv` adds
  to `RegistryInv` who refers to a Mox at which time (`HarnessInv`), that no mock of the current
  fixture has left its Mox, that mocks are made by Mox instances and that only modules' Stubout objects outlive a test
  with mocks (`OwnMocks`), and that a log with entries belongs to a registered Mox
  of a running test (`OwnLogs`, for pytest). The steps of a test body are many and alike:
  `Effect(makers, classes, stubbers)` bounds what one of them does, each operation has a lemma
  that says what its effect is, and one lemma (`EffectKeeps`) carries the invariant
  through all of them. Under unittest the restoring is done by collecting: a stub that
  is left between tests would keep its Mox from being collected only by a reference,
  and there is none but the fixture's, whose log is empty, and the modules'.
* **VerifyMeansAllAnswered** and **ValuesComeFromAnswers** (`RememberedValuesProofs`): from
  `CarefulClient`, no liberties and `ComparatorsAreCareful`, for any comparators that do what
  it says; without either they are false (section 4). The hard part is what one call does:
  `WhileSteady` says of any series of comparisons that goes on only while nothing is stored what
  it comes to, and is used three times, for the places of a tuple (`CarefulParams`), the
  methods of a group (`CarefulScan`) and the elements of the queue (`CarefulServed`). `FoundAgain`
  is why `list.remove` does no harm: what the first scan stored is read by none of the group, so
  the second one finds the same method, and stores the same. `ValuesInv` adds to the two
  properties that the queue is sound (`IsQueue`) and that what is not answered is owed by an
  element of it (`AreOwed`), as for mocks without a memory.

Only model-checked: `IterationEnds` (liveness under fairness is out of the prover's reach),
and that the comparators of `MC_RememberedValues` are careful (`Equals` is recursive over
the comparator, and so out of reach as well).

## 6. Not modelled

* Comparators nested in others (`In`, `ContainsKeyValue`, `ContainsAttributeValue`,
  `SameElementsAs`), and several Values at a time; the predicates on an argument alone stand for
  the set of arguments they hold for.
* Setting public attributes of a MockObject (it raises for unknown ones and changes nothing else of
  the mock), and the descriptions of mocks.
* What the signature checker cannot inspect, which it does not check.
* Expected calls of a class through its factory (`factory.class_method()`): the calls that a factory
  expects are creations in `MoxRegistry`.
* Several mocks at a time with their queues: each has a queue of its own, and no order among
  them is enforced; what the README (252) says of several stubs holds for the calls of each.
  `MoxRegistry` has several mocks, with the number of calls they expect.
* Mocks made without a Mox within `TestSession`: no harness knows them, and the test verifies them.
* `StubOutForTesting` objects of clients that are not in a Mox, within `TestSession`
  (`self.stubs` of MoxTestBase): the module of that name has them on their own.
* `resolve_object` and `import_object`: a string becomes an object by imports, no state is kept.
  Likewise the aliases of `pymox`, the release tools and the documentation build.
* Threads: ruled out by the documentation (`mox.py` 36-39).

## 7. Plan

Done, in the order of importance: mock and groups, the promise, stubbing, registry, harnesses,
expect blocks; then answers and side effects, comparators with state, the signature checker,
failing setattr; and the theorems of section 5. Left:

1. `Factories`: a class factory with the real queue of each instance, and with expected calls of the
   class itself.
2. Refinements: the mocks of `MoxRegistry` by `MockAnything` (a count by a queue), its undo by the
   logs of `StubOutForTesting`.
3. Theorems: that the mock of `RememberedValues` with comparators that store nothing is the one of
   `FluentMock`.
