----------------------------- MODULE CallScript -----------------------------
(***************************************************************************)
(* What a mock promises its user, without queues and without MockMethods.  *)
(*                                                                         *)
(* The user writes a script: a sequence of phases, each a single call, a   *)
(* set of calls in any order, or a set of calls made once or more.  In     *)
(* replay mode the mock accepts a call exactly when the calls so far can   *)
(* still be the beginning of a run of the script, and verify passes        *)
(* exactly when no call was refused and the script was run to its end.     *)
(* The promise is loosened only for scripts in which one call may stand    *)
(* for several expected ones: there a mock may refuse what another way of  *)
(* counting would accept, never the other way round.                       *)
(***************************************************************************)
EXTENDS Naturals, SequencesExt

CONSTANTS Name, Args, Matches, Group, NoGroup

VARIABLES script,   \* the phases recorded since the last reset
          trace,    \* the calls accepted since the last reset
          replaying,
          broken,   \* a call was refused, now or before a reset
          verdict   \* of the verify that was the last operation, or "unknown"

scriptVars == <<script, trace, replaying, broken, verdict>>

Call == [name : Name, args : Args]

Fits(expected, call) ==
  expected.name = call.name /\ call.args \in Matches[expected.args]

\* The expected calls of a script, by phase and position in the phase.
Places(s) == UNION {{i} \X (DOMAIN s[i].calls) : i \in DOMAIN s}

Expected(s, p) == s[p[1]].calls[p[2]]

Repeatable(s, p) == s[p[1]].kind = "multiple"

\* f assigns the calls of t to expected calls: the phases in order, each
\* finished before the next begins, and an expected call made twice only in a
\* phase that allows it.
Explains(s, t, f) ==
  /\ \A i \in DOMAIN t : Fits(Expected(s, f[i]), t[i])
  /\ \A i, j \in DOMAIN t :
       i < j => /\ f[i][1] <= f[j][1]
                /\ f[i] = f[j] => Repeatable(s, f[i])
  /\ t # <<>> => \A p \in Places(s) : p[1] < f[Len(t)][1] => p \in Range(f)

Assignments(s, t) == [DOMAIN t -> Places(s)]

\* t is the beginning of a run of s.
Allowed(s, t) == \E f \in Assignments(s, t) : Explains(s, t, f)

\* t is a complete run of s.
Fulfilled(s, t) ==
  \E f \in Assignments(s, t) : Places(s) \subseteq Range(f) /\ Explains(s, t, f)

\* Some call may stand for two expected ones, and which of them it is counted
\* for makes a difference later.
Ambiguous(s) ==
  \E p, q \in Places(s), c \in Call :
    /\ p # q
    /\ Fits(Expected(s, p), c) /\ Fits(Expected(s, q), c)
    /\ \/ p[1] = q[1] /\ (Repeatable(s, p) \/ Expected(s, p) # Expected(s, q))
       \/ p[1] < q[1] /\ Repeatable(s, p)

-----------------------------------------------------------------------------
Init ==
  /\ script = <<>>
  /\ trace = <<>>
  /\ replaying = FALSE
  /\ broken = FALSE
  /\ verdict = "none"

Record(c) ==
  /\ ~replaying
  /\ script' = Append(script, [kind |-> "method", name |-> NoGroup, calls |-> <<c>>])
  /\ verdict' = "none"
  /\ UNCHANGED <<trace, replaying, broken>>

\* The call recorded last becomes part of a group: of the one recorded just
\* before it when kind and name agree, of a new one otherwise.
Regroup(kind, g) ==
  LET rest == Front(script)
      calls == Last(script).calls
  IN /\ ~replaying
     /\ script # <<>> /\ Last(script).kind = "method"
     /\ script' = IF rest # <<>> /\ Last(rest).kind = kind /\ Last(rest).name = g
                  THEN [rest EXCEPT ![Len(rest)].calls = @ \o calls]
                  ELSE Append(rest, [kind |-> kind, name |-> g, calls |-> calls])
     /\ verdict' = "none"
     /\ UNCHANGED <<trace, replaying, broken>>

Accept(c) ==
  /\ replaying
  /\ trace' = Append(trace, c)
  /\ broken \/ Allowed(script, trace')
  /\ verdict' = "none"
  /\ UNCHANGED <<script, replaying, broken>>

Refuse(c) ==
  /\ replaying
  /\ broken' = TRUE
  /\ verdict' = "none"
  /\ UNCHANGED <<script, trace, replaying>>
  /\ broken \/ Ambiguous(script) \/ ~Allowed(script, Append(trace, c))

Replay ==
  /\ replaying' = TRUE
  /\ verdict' = "none"
  /\ UNCHANGED <<script, trace, broken>>

Reset ==
  /\ script' = <<>>
  /\ trace' = <<>>
  /\ replaying' = FALSE
  /\ verdict' = "none"
  /\ UNCHANGED broken

Verify ==
  /\ verdict' \in {"passed", "failed"}
  /\ UNCHANGED <<script, trace, replaying, broken>>
  /\ verdict' = "passed" => ~broken /\ Fulfilled(script, trace)
  /\ verdict' = "failed" => broken \/ Ambiguous(script) \/ ~Fulfilled(script, trace)

\* Something was asked for that the mock does not know at all.
Stray ==
  /\ broken' = TRUE
  /\ verdict' = "unknown"
  /\ UNCHANGED <<script, trace, replaying>>

\* An operation that raised before it changed anything.
Reject ==
  /\ verdict' = "none"
  /\ UNCHANGED <<script, trace, replaying, broken>>

Next ==
  \/ \E c \in Call : Record(c) \/ Accept(c) \/ Refuse(c)
  \/ \E kind \in {"unordered", "multiple"}, g \in Group : Regroup(kind, g)
  \/ Replay
  \/ Reset
  \/ Verify
  \/ Stray
  \/ Reject

Spec == Init /\ [][Next]_scriptVars

=============================================================================
