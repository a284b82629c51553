----------------------------- MODULE MockAnswers -----------------------------
(***************************************************************************)
(* What a mock answers with: returns, raises and with_side_effects of a    *)
(* MockMethod, and the iteration of a MockObject by subscripts (mox.py).   *)
(*                                                                         *)
(* The side effects of an expected method are the client's code.  They run *)
(* inside of the call, after the expectation has been taken off the queue  *)
(* and before the answer is read, and may call the mock again.  "running"  *)
(* is the stack of what has begun and not ended: the side effects, and the *)
(* loops of MockObject.__iter__.                                           *)
(***************************************************************************)
EXTENDS MockAnything

CONSTANTS Provides,  \* the container methods that the mocked class has
          Recorded,  \* the arguments that are recorded
          Value,     \* what returns is given, and what side effects return; None is one
          Unset,     \* _UNSET
          Exceptions,\* what raises is given, and what side effects raise
          NoException,
          MaxDepth   \* bound on what the client begins while something is running

Container == {"__getitem__", "__setitem__", "__contains__", "__iter__"}

ASSUME AnswersAssumption ==
  /\ "None" \in Value /\ Unset \notin Value /\ NoException \notin Exceptions
  /\ Provides \subseteq Container /\ Provides \subseteq Name /\ 0 \in Args
  /\ MaxDepth \in Nat

VARIABLES answers,    \* answers[m]: the answer of the m-th MockMethod
          running,    \* side effects and iterations, the innermost last
          configured, \* configured[m]: what returns was last given, read by no action
          returned    \* returned[m]: what m has returned since it was last told how to
                      \* answer, read by no action

answersVars == <<methods, queues, replaying, thrown, outcome,
                 answers, running, configured, returned>>

Answer == [value : Value \cup {Unset}, exception : Exceptions \cup {NoException},
           effects : BOOLEAN]

NoAnswer == [value |-> Unset, exception |-> NoException, effects |-> FALSE]

\* A side effect of method m, and an iteration that is about to ask for an index.
Effects(m) == [kind |-> "effects", at |-> m]

Iteration(index) == [kind |-> "iteration", at |-> index]

TopIs(kind) == running # <<>> /\ Last(running).kind = kind

\* The client's code has the control: the code under test, or a side effect.
ClientsTurn == ~TopIs("iteration")

AnswersInit ==
  /\ Init
  /\ answers = <<>> /\ running = <<>> /\ configured = <<>> /\ returned = <<>>

-----------------------------------------------------------------------------
(***************************************************************************)
(* Recording, with the modifiers and the answer chained to the call.       *)
(***************************************************************************)
\* The answer may be set at any time on a MockMethod that the client kept.
Tellable(m) == ClientsTurn /\ m \in DOMAIN methods

Supported(name) == name \in Container => name \in Provides

Expect(name, args) ==
  /\ args \in Recorded /\ Supported(name)
  /\ RecordCall(name, args)
  /\ answers' = Append(answers, NoAnswer)
  /\ configured' = Append(configured, Unset)
  /\ returned' = Append(returned, {})
  /\ UNCHANGED running

ExpectInGroup(kind, g) ==
  /\ ~replaying /\ CurrentQueue # <<>>
  /\ \E h \in DOMAIN methods : Last(CurrentQueue) = Single(h) /\ Regroup(h, kind, g)
  /\ UNCHANGED <<answers, running, configured, returned>>

MockUnchanged == UNCHANGED <<methods, queues, replaying, thrown, outcome>>

Told(m) ==
  /\ returned' = [returned EXCEPT ![m] = {}]
  /\ UNCHANGED running /\ MockUnchanged

Returns(m, v) ==
  /\ Tellable(m)
  /\ answers' = [answers EXCEPT ![m].value = v]
  /\ configured' = [configured EXCEPT ![m] = v]
  /\ Told(m)

Raises(m, e) ==
  /\ Tellable(m)
  /\ answers' = [answers EXCEPT ![m].exception = e]
  /\ Told(m)
  /\ UNCHANGED configured

WithSideEffects(m) ==
  /\ Tellable(m)
  /\ answers' = [answers EXCEPT ![m].effects = TRUE]
  /\ Told(m)
  /\ UNCHANGED configured

StartReplay == ~replaying /\ Replay /\ UNCHANGED <<answers, running, configured, returned>>

-----------------------------------------------------------------------------
(***************************************************************************)
(* How a call ends.  Within an iteration the next index is asked for, an   *)
(* IndexError ends it, and any other exception goes through it to its      *)
(* caller.                                                                 *)
(***************************************************************************)
AfterValueSameIndex(stack) == stack

AfterValue(stack) ==
  IF stack # <<>> /\ Last(stack).kind = "iteration"
  THEN Append(Front(stack), Iteration(Last(stack).at + 1))
  ELSE stack

AfterException(stack) ==
  IF stack # <<>> /\ Last(stack).kind = "iteration" THEN Front(stack) ELSE stack

\* The end of MockMethod.__call__: the exception, or else the value.
Conclude(m, answer, stack) ==
  IF answer.exception # NoException
  THEN /\ running' = AfterException(stack)
       /\ UNCHANGED returned
  ELSE /\ running' = AfterValue(stack)
       /\ returned' = [returned EXCEPT ![m] = @ \cup
                         {IF answer.value = Unset THEN "None" ELSE answer.value}]

\* self.name(args) in replay mode: the expectation is off the queue before the side
\* effects begin.
Answered(name, args, m) ==
  /\ AnswerCall(name, args, m)
  /\ IF answers[m].effects
     THEN running' = Append(running, Effects(m)) /\ UNCHANGED returned
     ELSE Conclude(m, answers[m], running)
  /\ UNCHANGED <<answers, configured>>

Refused(name, args) ==
  /\ RefuseCall(name, args)
  /\ running' = AfterException(running)
  /\ UNCHANGED <<answers, configured, returned>>

CallOrRefuse(name, args) ==
  \/ \E m \in DOMAIN methods : Answered(name, args, m)
  \/ Refused(name, args)

Call(name, args) ==
  /\ ClientsTurn /\ Len(running) < MaxDepth
  /\ Supported(name)
  /\ CallOrRefuse(name, args)

\* The class does not have the container method: nothing is recorded or kept for verify.
NotSupported(name) ==
  /\ ClientsTurn
  /\ ~Supported(name)
  /\ name = "__iter__" => "__getitem__" \notin Provides \/ ~replaying
  /\ outcome' = "TypeError"
  /\ UNCHANGED <<methods, queues, replaying, thrown, answers, running, configured, returned>>

-----------------------------------------------------------------------------
CachedAlways(m, v) == [answers[m] EXCEPT !.value = v]

\* A result counts as the value when none is there by the time the side effects end.
Cached(m, v) == [answers[m] EXCEPT !.value = IF @ = Unset THEN v ELSE @]

OwnResult(m, v) == [answers[m] EXCEPT !.value = IF configured[m] = Unset THEN v ELSE @]

\* The answer is read from the expected method, not from the side effects.
AnswerAfter(m, v) == Cached(m, v)

EffectsReturn(v) ==
  /\ TopIs("effects")
  /\ LET m == Last(running).at IN
       /\ answers' = [answers EXCEPT ![m] = Cached(m, v)]
       /\ Conclude(m, AnswerAfter(m, v), Front(running))
  /\ UNCHANGED configured /\ MockUnchanged

\* Nothing is stored, and the exception is not kept for verify.
EffectsRaise ==
  /\ TopIs("effects")
  /\ running' = AfterException(Front(running))
  /\ UNCHANGED <<answers, configured, returned>> /\ MockUnchanged

-----------------------------------------------------------------------------
(***************************************************************************)
(* MockObject.__iter__ of a class that has only __getitem__.               *)
(***************************************************************************)
Iterate ==
  /\ ClientsTurn /\ Len(running) < MaxDepth
  /\ replaying
  /\ "__iter__" \notin Provides /\ "__getitem__" \in Provides
  /\ running' = Append(running, Iteration(0))
  /\ UNCHANGED <<answers, configured, returned>> /\ MockUnchanged

NextItem ==
  /\ TopIs("iteration")
  /\ CallOrRefuse("__getitem__", Last(running).at)

AnswersNext ==
  \/ \E name \in Name, args \in Args : Expect(name, args)
  \/ \E kind \in GroupKind, g \in Group : ExpectInGroup(kind, g)
  \/ \E m \in DOMAIN methods : WithSideEffects(m)
  \/ \E m \in DOMAIN methods, v \in Value : Returns(m, v)
  \/ \E m \in DOMAIN methods, e \in Exceptions : Raises(m, e)
  \/ StartReplay
  \/ \E name \in Name, args \in Args : Call(name, args)
  \/ \E name \in Container : NotSupported(name)
  \/ \E v \in Value : EffectsReturn(v)
  \/ EffectsRaise
  \/ Iterate
  \/ NextItem

\* The loop of __iter__ is the library's; all other steps are the client's.
AnswersSpec == AnswersInit /\ [][AnswersNext]_answersVars /\ WF_answersVars(NextItem)

-----------------------------------------------------------------------------
\* "So a side effect's return value does not silently override an intended None"
\* (docstring of _Unset): whatever side effects return, and however their calls
\* are nested, what returns was given stays the answer.
ConfiguredValueStays ==
  \A m \in DOMAIN configured : configured[m] # Unset => answers[m].value = configured[m]

\* One expected method answers all its calls with one value until it is told another
\* answer, also when one of the calls is made by the side effects of another.
AnswersAgree ==
  \A m \in DOMAIN returned : \A v, w \in returned[m] : v = w

\* list(mock) ends: an iteration goes on for ever only if side effects are called
\* (or do not return) for ever.
IterationEnds ==
  <>[](\E i \in DOMAIN running : running[i].kind = "iteration") => []<>TopIs("effects")

=============================================================================
