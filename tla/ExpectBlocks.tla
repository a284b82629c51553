----------------------------- MODULE ExpectBlocks -----------------------------
(***************************************************************************)
(* "with mox.expect", "with mox.expect(stub, ...)", "with m.expect" for a  *)
(* Mox m and "with stub._expect" (contextmanagers.py): entering a block    *)
(* resets its mocks, leaving it puts them in replay mode; leaving a bare   *)
(* block puts the mocks of all registered Mox instances in replay mode.    *)
(* mox.expect is one object for all its blocks; the other two make an      *)
(* object for each.                                                        *)
(***************************************************************************)
EXTENDS MoxRegistry

CONSTANTS NotAMock,    \* anything without _reset, passed to mox.expect
          MaxNesting   \* bound on the blocks that are open at a time

ASSUME ExpectAssumption ==
  NotAMock \notin MockIds /\ MaxNesting \in Nat

VARIABLES single, \* the stubs of the object mox.expect
          blocks  \* the open blocks, as the client wrote them

expectVars == <<moxes, registry, held, mocks, slots, raised, single, blocks>>

ExpectInit == Init /\ single = {} /\ blocks = <<>>

Bare       == [kind |-> "bare",  ids |-> {},  of |-> {}]
Given(ids) == [kind |-> "given", ids |-> ids, of |-> {}]
Own(k)     == [kind |-> "own",   ids |-> {k}, of |-> {}]
OfMox(a)   == [kind |-> "mox",   ids |-> {},  of |-> {a}]

MocksOfBlock(block) == block.ids \cup UNION {MocksOf(a) : a \in block.of}

OpenResettingAll(block, stubs) ==
  /\ Len(blocks) < MaxNesting
  /\ mocks' = AfterReset(IF stubs = {} THEN DOMAIN mocks ELSE stubs)
  /\ blocks' = Append(blocks, block)
  /\ raised' = "none"
  /\ UNCHANGED <<moxes, registry, held, slots>>

\* __enter__ of an object with these stubs.
Open(block, stubs) ==
  /\ Len(blocks) < MaxNesting
  /\ mocks' = AfterReset(stubs)
  /\ blocks' = Append(blocks, block)
  /\ raised' = "none"
  /\ UNCHANGED <<moxes, registry, held, slots>>

\* The object has no stubs of its own, only what another block left there.
EnterBare ==
  /\ NotAMock \notin single
  /\ Open(Bare, single)
  /\ UNCHANGED single

\* The mutated forms of a definition stand before it.
EnterGivenAdding(ids) == Open(Given(ids), ids) /\ single' = single \cup ids

\* The call mox.expect(stub, ...) sets the stubs, then the block is entered.
EnterGiven(ids) == Open(Given(ids), ids) /\ single' = ids

EnterOther(block) ==
  /\ block.kind \in {"own", "mox"}
  /\ Open(block, MocksOfBlock(block))
  /\ UNCHANGED single

\* The reset raises at what is not a mock; the block is not entered.
ResetRaises(stubs) ==
  /\ NotAMock \in stubs
  /\ \E done \in SUBSET (stubs \ {NotAMock}) : mocks' = AfterReset(done)
  /\ raised' = "AttributeError"
  /\ UNCHANGED <<moxes, registry, held, slots, blocks>>

EnterGivenFails(ids) ==
  /\ ResetRaises(ids \cup {NotAMock})
  /\ single' = ids \cup {NotAMock}

EnterBareFails == ResetRaises(single) /\ UNCHANGED single

-----------------------------------------------------------------------------
OfSingle == blocks # <<>> /\ Last(blocks).kind \in {"bare", "given"}

KeptStubs == single

\* __exit__ of mox.expect drops its stubs, whatever happens.
StubsAfterExit == {}

ReplayedOnExitOnlyGiven == single

ReplayedOnExit == IF single = {} THEN UNION {MocksOf(a) : a \in Registered} ELSE single

ExitSingle ==
  /\ OfSingle
  /\ NotAMock \notin single
  /\ mocks' = Replayed(ReplayedOnExit)
  /\ single' = StubsAfterExit
  /\ blocks' = Front(blocks)
  /\ raised' = "none"
  /\ UNCHANGED <<moxes, registry, held, slots>>

ExitSingleFails ==
  /\ OfSingle
  /\ NotAMock \in single
  /\ \E done \in SUBSET (single \ {NotAMock}) : mocks' = Replayed(done)
  /\ single' = StubsAfterExit
  /\ blocks' = Front(blocks)
  /\ raised' = "AttributeError"
  /\ UNCHANGED <<moxes, registry, held, slots>>

\* __exit__ of the others; a Mox may have got more mocks inside of the block.
ExitOther ==
  /\ blocks # <<>> /\ ~OfSingle
  /\ mocks' = Replayed(MocksOfBlock(Last(blocks)))
  /\ blocks' = Front(blocks)
  /\ raised' = "none"
  /\ UNCHANGED <<moxes, registry, held, slots, single>>

-----------------------------------------------------------------------------
\* A client makes a mock without a Mox, which no registry entry leads to.
MakeFreeMock ==
  /\ Len(mocks) < MaxMocks
  /\ mocks' = Append(mocks, NewMock(NoMox, "anything"))
  /\ raised' = "none"
  /\ UNCHANGED <<moxes, registry, held, slots>>

\* What happens inside and outside of blocks.
Body ==
  /\ \/ \E a \in Address : NewMox(a)
     \/ \E a \in held : CreateMock(a, "anything") \/ Forget(a)
     \/ MakeFreeMock
     \/ \E k \in DOMAIN mocks : MockCall(k)
  /\ UNCHANGED <<single, blocks>>

ExpectNext ==
  \/ EnterBare
  \/ \E ids \in SUBSET (DOMAIN mocks) \ {{}} : EnterGiven(ids) \/ EnterGivenFails(ids)
  \/ EnterGivenFails({})
  \/ EnterBareFails
  \/ \E k \in DOMAIN mocks : EnterOther(Own(k))
  \/ \E a \in held : EnterOther(OfMox(a))
  \/ ExitSingle
  \/ ExitSingleFails
  \/ ExitOther
  \/ Body

ExpectSpec == ExpectInit /\ [][ExpectNext]_expectVars

-----------------------------------------------------------------------------
Entered == Len(blocks') > Len(blocks)
Left(kind) == Len(blocks') < Len(blocks) /\ Last(blocks).kind = kind /\ raised' = "none"

\* Some block around the last one of these set the stubs of mox.expect.
InsideGiven(open) == \E i \in 1..(Len(open) - 1) : open[i].kind = "given"

\* "Reset them so a later bare 'with mox.expect' is not poisoned by leftover stubs"
\* (__exit__): outside of all blocks mox.expect has no stubs, whatever blocks were
\* nested and failed before; only what is not a mock may keep it from being entered.
NoLeftoverStubs == blocks = <<>> /\ NotAMock \notin single => single = {}

\* "... which would skip the global replay": after a bare block the mocks of every
\* registered Mox are in replay mode, whatever blocks there were before and inside.
\* A bare block inside of "with mox.expect(stub)" shares its stubs.
BareBlockReplaysAll ==
  [][Left("bare") /\ ~InsideGiven(blocks) =>
       \A a \in Registered : \A k \in MocksOf(a) : mocks'[k].replaying]_expectVars

\* A mock that global_replay reaches: not one made without a Mox, nor one whose Mox
\* was forgotten.
OfRegistered(k) == \E a \in Registered : k \in MocksOf(a)

\* After "with mox.expect(stub, ...)" the given stubs are in replay mode.  When a block
\* inside took the stubs of mox.expect, the exit is a global_replay, and that much
\* holds of the mocks of registered Mox instances only.
GivenStubsAreReplayed ==
  [][Left("given") =>
       \A k \in Last(blocks).ids :
         mocks'[k].replaying \/ (single = {} /\ ~OfRegistered(k))]_expectVars

\* Leaving "with mox.expect(stub, ...)" puts nothing but the given stubs in replay mode,
\* so that a block around it goes on recording, whatever blocks were left or failed
\* before.  The exception is the block whose stubs a block inside took.
OthersGoOnRecording ==
  [][Left("given") /\ single # {} =>
       \A k \in DOMAIN mocks \ WithInstances(Last(blocks).ids) :
         mocks'[k] = mocks[k]]_expectVars

\* Entering a block resets no mock but those of the block: what was recorded for the
\* others stays recorded.  The exception is the bare block that shares stubs.
OthersKeepTheirCalls ==
  [][Entered /\ ~(Last(blocks').kind = "bare" /\ InsideGiven(blocks')) =>
       \A k \in DOMAIN mocks \ MocksOfBlock(Last(blocks')) : mocks'[k] = mocks[k]]_expectVars

=============================================================================
