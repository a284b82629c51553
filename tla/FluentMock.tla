------------------------------ MODULE FluentMock ------------------------------
(***************************************************************************)
(* The mock in fluent use keeps the promise of CallScript.  The script is  *)
(* what the client wrote down, phase by phase; the trace is what the mock  *)
(* answered.                                                               *)
(***************************************************************************)
EXTENDS MockHistory

VARIABLE script

fluentVars == <<methods, queues, replaying, thrown, outcome, recorded, answered, script>>

Verdict == CASE outcome = "verified" -> "passed"
             [] outcome = "UnknownMethodCallError" -> "unknown"
             [] outcome \in {"SwallowedExceptionError", "ExpectedMethodCallsError"} -> "failed"
             [] OTHER -> "none"

Promise == INSTANCE CallScript WITH trace <- answered, broken <- thrown, verdict <- Verdict

ScriptedInit == HistoryInit /\ script = <<>>

Extended(call) ==
  Append(script, [kind |-> "method", name |-> NoGroup, calls |-> <<call>>])

RegroupedScript(kind, g) ==
  LET rest == Front(script)
  IN IF rest # <<>> /\ Last(rest).kind = kind /\ Last(rest).name = g
     THEN [rest EXCEPT ![Len(rest)].calls = @ \o Last(script).calls]
     ELSE Append(rest, [kind |-> kind, name |-> g, calls |-> Last(script).calls])

ScriptedNext ==
  \/ \E name \in Name, args \in Args :
       \/ FluentRecord(name, args) /\ script' = Extended(CallOf(name, args))
       \/ FluentReject(name, args) /\ UNCHANGED script
       \/ FluentAnswer(name, args) /\ UNCHANGED script
       \/ FluentRefuse(name, args) /\ UNCHANGED script
  \/ FluentUnknown /\ UNCHANGED script
  \/ \E kind \in GroupKind, g \in Group :
       FluentRegroup(kind, g) /\ script' = RegroupedScript(kind, g)
  \/ FluentReplay /\ UNCHANGED script
  \/ FluentReset /\ script' = <<>>
  \/ FluentVerify /\ UNCHANGED script

ScriptedSpec == ScriptedInit /\ [][ScriptedNext]_fluentVars

\* In fluent use a mock accepts the runs of its script and no other calls, and
\* verify passes exactly for complete runs without a refused call (MockMethod,
\* MethodGroup and MockAnything._verify together).
KeepsPromise == Promise!Spec

=============================================================================
