----------------------------- MODULE MockHistory -----------------------------
(***************************************************************************)
(* MockAnything with what its client remembers: the calls recorded and the *)
(* calls answered since the last reset.  The history is read by no action. *)
(*                                                                         *)
(* FluentSpec is the use every example of the README and of the tests has: *)
(* m.name(args) calls the MockMethod at once, and any_order or             *)
(* multiple_times is chained to the recorded call before anything else is  *)
(* done with the mock.                                                     *)
(***************************************************************************)
EXTENDS MockAnything

CONSTANTS Passed,    \* the arguments that the code under test passes
          MaxCalls   \* bound on the calls answered between two resets

ASSUME HistoryAssumption == Passed \subseteq Args /\ MaxCalls \in Nat

VARIABLES recorded,  \* the calls recorded since the last reset
          answered   \* the calls answered since the last reset, in order

historyVars == <<methods, queues, replaying, thrown, outcome, recorded, answered>>

Call == [name : Name, args : Args]

CallOf(n, a) == [name |-> n, args |-> a]

Fits(expected, call) ==
  expected.name = call.name /\ call.args \in Matches[expected.args]

HistoryInit == Init /\ recorded = {} /\ answered = <<>>

-----------------------------------------------------------------------------
FluentRecord(name, args) ==
  /\ RecordCall(name, args)
  /\ recorded' = recorded \cup {CallOf(name, args)}
  /\ UNCHANGED answered

FluentReject(name, args) ==
  /\ RejectCall(name, args)
  /\ UNCHANGED <<recorded, answered>>

FluentAnswer(name, args) ==
  /\ args \in Passed
  /\ Len(answered) < MaxCalls
  /\ \E m \in DOMAIN methods : AnswerCall(name, args, m)
  /\ answered' = Append(answered, CallOf(name, args))
  /\ UNCHANGED recorded

FluentRefuse(name, args) ==
  /\ args \in Passed
  /\ RefuseCall(name, args)
  /\ UNCHANGED <<recorded, answered>>

FluentUnknown == AccessUnknown /\ UNCHANGED <<recorded, answered>>

\* The modifier is chained to the call that was recorded last.
FluentRegroup(kind, g) ==
  /\ ~replaying
  /\ CurrentQueue # <<>>
  /\ \E h \in DOMAIN methods :
       /\ Last(CurrentQueue) = Single(h)
       /\ Regroup(h, kind, g)
  /\ UNCHANGED <<recorded, answered>>

FluentReplay == Replay /\ UNCHANGED <<recorded, answered>>

FluentReset == Reset /\ recorded' = {} /\ answered' = <<>>

FluentVerify == Verify /\ UNCHANGED <<recorded, answered>>

FluentNext ==
  \/ \E name \in Name, args \in Args :
       \/ FluentRecord(name, args)
       \/ FluentReject(name, args)
       \/ FluentAnswer(name, args)
       \/ FluentRefuse(name, args)
  \/ FluentUnknown
  \/ \E kind \in GroupKind, g \in Group : FluentRegroup(kind, g)
  \/ FluentReplay
  \/ FluentReset
  \/ FluentVerify

FluentSpec == HistoryInit /\ [][FluentNext]_historyVars

-----------------------------------------------------------------------------
\* The histories have their types.
HistoryTypeOK ==
  /\ recorded \subseteq Call
  /\ answered \in Seq(Call) /\ Len(answered) <= MaxCalls

WasMade(r) == \E i \in DOMAIN answered : Fits(r, answered[i])

IsOwed(r) ==
  \E k \in DOMAIN CurrentQueue : \E m \in Owed(CurrentQueue[k]) :
    methods[m].name = r.name /\ methods[m].args = r.args

\* Until a call is refused no expectation gets lost on its way through the queue
\* and its groups (_pop_next_method, method_called, get_possible_group): each
\* recorded call was made or is still owed.
NoExpectationIsLost ==
  thrown \/ \A r \in recorded : WasMade(r) \/ IsOwed(r)

\* "The verify phase ensures that every expected method was called" (mox.py,
\* lines 31 to 34): when verify passes, every call that was recorded has been
\* made, whatever groups it went through and whatever calls came in between.
EveryExpectedCallWasMade ==
  outcome = "verified" => \A r \in recorded : WasMade(r)

=============================================================================
