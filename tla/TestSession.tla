----------------------------- MODULE TestSession -----------------------------
(***************************************************************************)
(* Tests that use Mox one after another, and what the test harnesses do    *)
(* before and after each: the pytest plugin with its mox fixture,          *)
(* MoxTestBase for unittest, and the mox.patch decorators, which may be    *)
(* stacked in either.                                                      *)
(*                                                                         *)
(* A Mox lives in a harness's fixture, in a decorator, in the test itself  *)
(* (Mox() and "with mox.stubout(...)"), or at module level: mox.create has *)
(* one, and a Stubout object that several tests share (Shared).            *)
(***************************************************************************)
EXTENDS MoxRegistry

CONSTANTS Harness,  \* "pytest" or "unittest"
          Creator,  \* the address of the Mox of mox.create
          Shared    \* the addresses of Stubout objects made at import

ASSUME SessionAssumption ==
  /\ Harness \in {"pytest", "unittest"}
  /\ Creator \in Address /\ Shared \subseteq Address \ {Creator} /\ IsFiniteSet(Shared)

VARIABLES phase,    \* a test is "running", or the session is "idle"
          fixture,  \* the Mox of the harness in the current or the last test
          patches,  \* the Mox instances of the decorators being executed, in order
          failing,  \* an exception propagates through the decorators
          first,    \* the number of mocks before the current or the last test
          report    \* of the last test

sessionVars == <<moxes, registry, held, mocks, slots, raised,
                 phase, fixture, patches, failing, first, report>>

AtImport == Shared \cup {Creator}

\* The modules are imported in any order.
SessionInit ==
  /\ moxes = [a \in Address |-> EmptyMox]
  /\ registry \in SetToSeqs(AtImport)
  /\ held = AtImport
  /\ mocks = <<>>
  /\ slots = [s \in Slot |-> Original]
  /\ raised = "none"
  /\ phase = "idle"
  /\ fixture = NoMox
  /\ patches = <<>>
  /\ failing = FALSE
  /\ first = 0
  /\ report = "none"

HarnessVars == <<phase, fixture, patches, failing, first, report>>

-----------------------------------------------------------------------------
Free(a) == ~Referenced(a) /\ moxes[a] = EmptyMox

\* setUp of MoxTestBase makes a Mox; the fixture is made for the tests that ask
\* for it.  Objects that nothing refers to any more are gone.
BeginTest ==
  /\ phase = "idle"
  /\ \A a \in Address : ~Collectable(a)
  /\ \/ \E a \in Address : NewMox(a) /\ fixture' = a
     \/ Harness = "pytest" /\ fixture' = NoMox /\ UNCHANGED vars
  /\ phase' = "running"
  /\ first' = Len(mocks)
  /\ report' = "none"
  /\ UNCHANGED <<patches, failing>>

Collected ==
  /\ \E a \in Address : Collect(a)
  /\ UNCHANGED HarnessVars

\* What the body of a test does, and the code under test.
TestStep ==
  /\ phase = "running" /\ ~failing
  /\ \/ \E a \in Address : NewMox(a)
     \/ \E a \in held \ (AtImport \cup ToSet(patches)) : MoxCall(a)
     \/ \E k \in DOMAIN mocks : Usable(k) /\ MockCall(k)
     \/ GlobalReplay
     \/ GlobalVerify
  /\ UNCHANGED HarnessVars

\* mox.create(...): the shared Mox is registered again on every use.
Create ==
  /\ phase = "running" /\ ~failing
  /\ \E kind \in {"object", "anything"} : MakeMock(Creator, kind)
  /\ registry' = Tracked(Creator)
  /\ UNCHANGED held
  /\ UNCHANGED HarnessVars

\* Entering a shared Stubout object stubs, leaving it replays; neither registers it
\* again.
SharedBlock ==
  /\ phase = "running" /\ ~failing
  /\ \E a \in Shared :
       \/ \E s \in Slot, kind \in {"object", "anything"} : Stubout(a, s, kind)
       \/ ReplayAll(a)
  /\ UNCHANGED HarnessVars

-----------------------------------------------------------------------------
(***************************************************************************)
(* The wrapper of mox.patch and mox.patch_class.                           *)
(***************************************************************************)
EnterPatch(a, s, kind) ==
  /\ phase = "running" /\ ~failing
  /\ Free(a)
  /\ Replace(a, s, kind)
  /\ registry' = Append(registry, a)
  /\ held' = held \cup {a}
  /\ patches' = Append(patches, a)
  /\ UNCHANGED <<phase, fixture, failing, first, report>>

\* stubout raises outside of the try statement: the Mox stays registered.
EnterPatchTurnedDown(a, s, kind) ==
  /\ phase = "running" /\ ~failing
  /\ Free(a)
  /\ ~Stubbable(s, kind)
  /\ registry' = Append(registry, a)
  /\ raised' = "TypeError"
  /\ failing' = TRUE
  /\ UNCHANGED <<moxes, held, mocks, slots, phase, fixture, patches, first, report>>

\* The decorated function returns or raises; verify_all raises when it returned and
\* the mock was not called as expected.  The stubs are unset and the Mox forgotten
\* in every case.
ExitPatch ==
  /\ patches # <<>>
  /\ LET a == Last(patches) IN
       /\ failing' \in BOOLEAN
       /\ failing \/ ~Fulfilled(a) => failing'
       /\ slots' = Unset(<<a>>)
       /\ moxes' = WithoutLogs(<<a>>)
       /\ registry' = Untracked(a)
       /\ held' = held \ {a}
  /\ patches' = Front(patches)
  /\ raised' = "none"
  /\ UNCHANGED <<mocks, phase, fixture, first, report>>

-----------------------------------------------------------------------------
OfFixture == IF fixture = NoMox THEN <<>> ELSE <<fixture>>

FixtureFulfilled == fixture # NoMox => Fulfilled(fixture)

ReportUnverified(failed) == IF failed THEN "failed" ELSE "passed"

Report(failed) ==
  IF failed THEN "failed" ELSE IF FixtureFulfilled THEN "passed" ELSE "error"

\* The mutated forms of the end of a test: the fixture alone cleans up, and a test
\* that failed is not cleaned up.
EndPytestFixtureOnly(failed) ==
  /\ Harness = "pytest"
  /\ slots' = Unset(OfFixture)
  /\ moxes' = [a \in Address |-> IF a = fixture THEN [moxes[a] EXCEPT !.log = <<>>]
                                 ELSE moxes[a]]

EndUnittestIfPassed(failed) ==
  /\ Harness = "unittest"
  /\ slots' = IF failed THEN slots ELSE Unset(OfFixture)
  /\ moxes' = [a \in Address |->
                 [mocks |-> IF a \in Registered THEN <<>> ELSE moxes[a].mocks,
                  log   |-> IF a = fixture /\ ~failed THEN <<>> ELSE moxes[a].log]]

\* The pytest plugin.  The fixture unsets the stubs of its Mox, verifies it when the
\* test did not fail, and forgets it; then the hook unsets the stubs of all that are
\* still registered and resets the registry.
EndPytest(failed) ==
  /\ Harness = "pytest"
  /\ slots' = Unset(OfFixture \o Untracked(fixture))
  /\ moxes' = [a \in Address |->
                 CASE a = fixture    -> [moxes[a] EXCEPT !.log = <<>>]
                   [] a # fixture /\ a \in Registered -> EmptyMox
                   [] OTHER          -> moxes[a]]

\* The test method of a MoxTestBase.  The stubs of self.mox are unset, self.mox is
\* verified when the test did not fail, and the registry is reset; the stubs of other
\* Mox instances are left to the garbage collector.
EndUnittest(failed) ==
  /\ Harness = "unittest"
  /\ slots' = Unset(OfFixture)
  /\ moxes' = [a \in Address |->
                 [mocks |-> IF a \in Registered THEN <<>> ELSE moxes[a].mocks,
                  log   |-> IF a = fixture THEN <<>> ELSE moxes[a].log]]

\* Of the Mox instances of a test only self.mox may outlive it, with the TestCase.
EndTest ==
  /\ phase = "running" /\ patches = <<>>
  /\ \E failed \in BOOLEAN :
       /\ failing => failed
       /\ EndPytest(failed) \/ EndUnittest(failed)
       /\ report' = Report(failed)
  /\ registry' = <<>>
  /\ held' = AtImport \cup IF Harness = "unittest" THEN ToSet(OfFixture) ELSE {}
  /\ phase' = "idle"
  /\ failing' = FALSE
  /\ raised' = "none"
  /\ UNCHANGED <<mocks, fixture, patches, first>>

-----------------------------------------------------------------------------
TestCaseReleased ==
  /\ phase = "idle"
  /\ \E a \in held \ AtImport : Release(a)
  /\ UNCHANGED HarnessVars

SessionNext ==
  \/ BeginTest
  \/ Collected
  \/ TestStep
  \/ Create
  \/ SharedBlock
  \/ \E a \in Address, s \in Slot, kind \in StuboutKind :
       EnterPatch(a, s, kind) \/ EnterPatchTurnedDown(a, s, kind)
  \/ ExitPatch
  \/ EndTest
  \/ TestCaseReleased

SessionSpec == SessionInit /\ [][SessionNext]_sessionVars

-----------------------------------------------------------------------------
BetweenTests == phase = "idle" /\ \A a \in Address : ~Collectable(a)

StubbedByShared(s) == slots[s] \in DOMAIN mocks /\ mocks[slots[s]].mox \in Shared

\* "Stubs are always restored when the test finishes" (the mox fixture), "Always
\* unsets stubs after a test" (clean_up_test): between tests every attribute is the
\* original, whichever Mox instances stubbed it and however the test method ended (one
\* whose setUp returned).  Only a Stubout object made at import may leave its own
\* stubs behind.
StubsAreRestored ==
  BetweenTests => \A s \in Slot : slots[s] = Original \/ StubbedByShared(s)

\* reset_instances is there so that "a prior test's leftover expectations can't be
\* re-verified": between tests the Mox of mox.create, which outlives every test, has
\* no mock of an earlier test.
MocksStayInTheirTest == BetweenTests => moxes[Creator].mocks = <<>>

MocksOfTest == {k \in DOMAIN mocks : k > first}

\* A test passes only when the mocks of the harness's Mox were called as expected:
\* they are verified before reset_instances clears the Mox (pytest_runtest_teardown).
PassedMeansVerified ==
  report = "passed" => \A k \in MocksOfTest : mocks[k].mox = fixture => ~Unmet(k)

=============================================================================
