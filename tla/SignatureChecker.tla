--------------------------- MODULE SignatureChecker ---------------------------
(***************************************************************************)
(* MethodSignatureChecker (mox.py): is a call that a client records one    *)
(* that the mocked method would accept?  One behaviour is one execution of *)
(* check, the turns of its loops being the steps.                          *)
(*                                                                         *)
(* The values of the parameters play no part but for the first, which the  *)
(* checker takes for the receiver of an unbound method when it is equal to *)
(* the class or an instance of it.                                         *)
(***************************************************************************)
EXTENDS Naturals, Sequences

CONSTANTS Parameter, \* names of parameters
          Methods,   \* the methods that are mocked
          Calls      \* the calls that are recorded

(***************************************************************************)
(* A method by what Python knows of it, its receiver left out:             *)
(*   route   how it is found: a "function" of a module; a "method" of a    *)
(*           class of a module; a "bound" method (of an instance, or a     *)
(*           classmethod); a "static" method; a method of a "local" class, *)
(*           one that is not found in the globals of its module            *)
(*   needed  the first positional parameters, those without a default      *)
(*   slashed the first positional parameters, those that no keyword fills  *)
(*   named, namedNeeded  the keyword-only ones, those without a default    *)
(***************************************************************************)
Route == {"function", "method", "bound", "static", "local"}

MethodSignature ==
  [route : Route, positional : Seq(Parameter), needed : Nat, slashed : Nat,
   varargs : BOOLEAN, varkw : BOOLEAN,
   named : SUBSET Parameter, namedNeeded : SUBSET Parameter]

\* A recorded call: how many positional parameters it has, what the first one is,
\* and the keywords by order.
RecordedCall ==
  [given : Nat, first : {"plain", "instance", "comparator"}, keywords : Seq(Parameter)]

Distinct(names) == \A i, j \in DOMAIN names : names[i] = names[j] => i = j

ASSUME MethodsAssumption ==
  /\ Methods \subseteq MethodSignature
  /\ \A m \in Methods : Distinct(m.positional) /\ m.needed <= Len(m.positional)

ASSUME CallsAssumption ==
  /\ Calls \subseteq RecordedCall
  /\ \A c \in Calls : Distinct(c.keywords)

VARIABLES method,  \* the method of the checker
          call,    \* the parameters handed to check
          params,  \* how many of the positional ones are left after the receiver
          turn,    \* turns done of the loop over the params and of that over the keywords
          status,  \* arg_status
          verdict  \* "none" until check returns or raises

vars == <<method, call, params, turn, status, verdict>>

Names(names) == {names[i] : i \in DOMAIN names}

\* inspect.ismethod, or a dot in the repr: every function that is defined in a class.
InAClass(m) == m.route # "function"

\* The mutated forms of a definition stand before it.
ArgsWithReceiver(m) ==
  IF m.route = "bound" /\ m.positional # <<>> THEN Tail(m.positional) ELSE m.positional

\* _args.  What stands first in a class is skipped as the receiver, which a
\* static method does not have.
Args(m) ==
  IF m.route = "static" /\ m.positional # <<>> THEN Tail(m.positional) ELSE m.positional

Defaults(m) == Len(m.positional) - m.needed

\* How many of _args are _required_args; the others are _default_args.
Required(m) == IF Len(Args(m)) > Defaults(m) THEN Len(Args(m)) - Defaults(m) ELSE 0

InitialStatus(m) ==
  [a \in Names(Args(m)) |->
     IF \E i \in 1..Required(m) : Args(m)[i] = a THEN "needed" ELSE "default"]

Init ==
  /\ method \in Methods
  /\ call \in Calls
  /\ params = 0
  /\ turn = 0
  /\ status = InitialStatus(method)
  /\ verdict = "none"

-----------------------------------------------------------------------------
(***************************************************************************)
(* "Suspect hack ahead."  Is the first parameter the receiver?             *)
(***************************************************************************)
Suspicious == InAClass(method) /\ call.given > Required(method)

Begin(n) ==
  /\ verdict = "none" /\ turn = 0
  /\ params' = n
  /\ turn' = 1
  /\ UNCHANGED <<method, call, status, verdict>>

KeepParams == ~Suspicious /\ Begin(call.given)

KeepFirst == Suspicious /\ method.route # "local" /\ call.first = "plain" /\ Begin(call.given)

DropFirst == Suspicious /\ method.route # "local" /\ call.first # "plain" /\ Begin(call.given - 1)

\* The class is neither in the globals of the method, nor has a function a __self__.
ClassNotFound ==
  /\ Suspicious /\ method.route = "local"
  /\ verdict = "none" /\ turn = 0
  /\ verdict' = "KeyError"
  /\ UNCHANGED <<method, call, params, turn, status>>

-----------------------------------------------------------------------------
\* What the turn-th turn is about: the params first, then the keywords.
OnParam == verdict = "none" /\ turn \in 1..params

OnKeyword == verdict = "none" /\ turn > params /\ turn - params \in DOMAIN call.keywords

Keyword == call.keywords[turn - params]

Refuse ==
  /\ verdict' = "AttributeError"
  /\ UNCHANGED <<method, call, params, turn, status>>

NextTurn == turn' = turn + 1 /\ UNCHANGED <<method, call, params, verdict>>

GivenWhateverBefore(a) == FALSE

IsGiven(a) == a \in DOMAIN status /\ status[a] = "given"

MarkGiven(a) ==
  /\ status' = [b \in DOMAIN status \cup {a} |-> IF b = a THEN "given" ELSE status[b]]
  /\ NextTurn

\* _record_argument_given raises when the argument was given before.
RecordGiven(a) ==
  \/ IsGiven(a) /\ Refuse
  \/ ~IsGiven(a) /\ MarkGiven(a)

CheckParam ==
  /\ OnParam
  /\ turn \in DOMAIN Args(method)
  /\ RecordGiven(Args(method)[turn])

\* Beyond _args.
CheckSurplus ==
  /\ OnParam
  /\ turn \notin DOMAIN Args(method)
  /\ \/ ~method.varargs /\ Refuse
     \/ method.varargs /\ NextTurn /\ UNCHANGED status

CheckKeyword ==
  /\ OnKeyword
  /\ \/ Keyword \notin DOMAIN status /\ ~method.varkw /\ Refuse
     \/ (Keyword \in DOMAIN status \/ method.varkw) /\ RecordGiven(Keyword)

StillNeeded == {a \in DOMAIN status : status[a] = "needed"}

Conclude ==
  /\ verdict = "none" /\ turn > params + Len(call.keywords) /\ turn > 0
  /\ verdict' = IF StillNeeded = {} THEN "accepted" ELSE "AttributeError"
  /\ UNCHANGED <<method, call, params, turn, status>>

Next ==
  \/ KeepParams \/ KeepFirst \/ DropFirst \/ ClassNotFound
  \/ CheckParam \/ CheckSurplus \/ CheckKeyword
  \/ Conclude

Spec == Init /\ [][Next]_vars

-----------------------------------------------------------------------------
(***************************************************************************)
(* What Python makes of a call with n positional parameters.               *)
(***************************************************************************)
Binds(m, n, keywords) ==
  /\ n <= Len(m.positional) \/ m.varargs
  /\ \A k \in keywords :
       \/ k \in m.named
       \/ \E i \in DOMAIN m.positional : i > n /\ i > m.slashed /\ m.positional[i] = k
       \/ m.varkw /\ \A i \in DOMAIN m.positional : i > m.slashed => m.positional[i] # k
  /\ \A i \in 1..m.needed :
       i <= n \/ (i > m.slashed /\ m.positional[i] \in keywords)
  /\ m.namedNeeded \subseteq keywords

BindsAsCalled == Binds(method, call.given, Names(call.keywords))

\* C.method(instance, ...) on the mock of a class C.
BindsUnbound ==
  /\ InAClass(method) /\ call.given > 0 /\ call.first # "plain"
  /\ Binds(method, call.given - 1, Names(call.keywords))

\* The methods the checker reads right.
WellRead(m) ==
  /\ m.route \notin {"static", "local"}
  /\ m.slashed = 0 /\ m.named = {} /\ m.namedNeeded = {}

\* Type correctness.
TypeOK ==
  /\ method \in Methods /\ call \in Calls
  /\ params \in 0..call.given
  /\ turn \in 0..(params + Len(call.keywords) + 1)
  /\ DOMAIN status \subseteq Parameter
  /\ \A a \in DOMAIN status : status[a] \in {"needed", "default", "given"}
  /\ verdict \in {"none", "accepted", "AttributeError", "KeyError"}

\* A call that the method would accept can be recorded, whatever its first
\* parameter is taken for: looking for a receiver never turns down a right call.
NoRightCallIsRefused ==
  verdict \notin {"none", "accepted"} /\ WellRead(method) => ~BindsAsCalled

\* A call that can be recorded is one that the method accepts, either as it is or
\* with its first parameter for the receiver.
NoWrongCallIsRecorded ==
  verdict = "accepted" /\ WellRead(method) => BindsAsCalled \/ BindsUnbound

\* "AttributeError: the given parameters don't work with the given method" (the
\* docstring of check): nothing is raised when they do.
RaisesOnlyIfWrong == verdict \notin {"none", "accepted"} => ~BindsAsCalled

=============================================================================
