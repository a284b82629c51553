--------------------------- MODULE RememberedValues ---------------------------
(***************************************************************************)
(* Calls of a mock whose expected parameters are compared one by one, with *)
(* comparators that have a memory (Comparators): a call is compared with   *)
(* several expected ones, up to twice with each, and what one comparison   *)
(* stores the next one reads.                                              *)
(*                                                                         *)
(* One method of one mock in fluent use, and one Value.  The queue is that *)
(* of MethodGroups.                                                        *)
(***************************************************************************)
EXTENDS MethodGroups, Comparison

CONSTANTS Equal(_, _, _), \* comparator == argument, with what the Value has
          Argument,   \* what the code under test passes
          Class,      \* the mocked class
          Expected,   \* the expected parameters: sequences of comparators
          Storing,    \* those of Expected that have a Remember somewhere
          Reading,    \* those of Expected that have the Value somewhere
          Passed,     \* the parameters that are passed: sequences of arguments
          Careful,    \* those of Expected whose memory goes by their answers
          Optional,   \* how many parameters the signature has a default for
          Liberties,  \* what else the client does, see below
          MaxMethods  \* bound on the calls expected

(***************************************************************************)
(* The liberties a client may take beyond the careful use:                 *)
(*   "careless" expected parameters that store before all of them matched, *)
(*              or that raise                                              *)
(*   "mixed"    Remember and Value in one UnorderedGroup                   *)
(***************************************************************************)
ASSUME RememberAssumption ==
  /\ Passed \subseteq Seq(Argument) /\ Class \notin Argument
  /\ Argument \cup {Class} \subseteq Storable \ {Nothing}
  /\ \A params \in Expected : params \in Seq(ToSet(params))
  /\ Careful \subseteq Expected
  /\ Storing \cup Reading \subseteq Expected \ {<<>>}
  /\ Optional \in Nat /\ MaxMethods \in Nat
  /\ Liberties \subseteq {"careless", "mixed"}

VARIABLES expected,   \* the parameters of the methods, by order of creation
          queue,      \* _expected_calls_queue
          replaying,  \* _replay_mode
          thrown,     \* _exceptions_thrown is not empty
          stored,     \* what the Value has
          outcome,    \* what the last operation returned or raised
          answered,   \* the methods that calls were answered by, read by no action
          remembered  \* what the last call answered by a Remember was given, read by none

vars == <<expected, queue, replaying, thrown, stored, outcome, answered, remembered>>

-----------------------------------------------------------------------------
\* expected._params == called._params: tuples are compared place by place, and only
\* then by their lengths.
ParamsEqual(comparators, args, v) ==
  LET places == While("yes", [i \in DOMAIN comparators \cap DOMAIN args |->
                                [w \in Storable |-> Equal(comparators[i], args[i], w)]],
                      Verdict(TRUE, v))
  IN IF places.verdict = "yes"
     THEN Verdict(Len(comparators) = Len(args), places.stored)
     ELSE places

\* What comes of comparing a call with the i-th method.
FoundAt(i, here) == [verdict |-> here.verdict, stored |-> here.stored, at |-> i]

\* The mutated forms of a definition stand before it.
ScanThroughout(methods, args, v) ==
  FoldLeft(LAMBDA found, i :
             LET here == ParamsEqual(expected[methods[i]], args, found.stored) IN
               IF found.verdict = "no"
               THEN FoundAt(i, here)
               ELSE [found EXCEPT !.stored = here.stored],
           FoundAt(0, Verdict(FALSE, v)), [i \in DOMAIN methods |-> i])

\* The loop of method_called over the methods of a group, and that of list.remove: the
\* first method that is equal to the call is "at" a place, or one raises, or none is.
Scan(methods, args, v) ==
  While("no", [i \in DOMAIN methods |->
                 [w \in Storable |-> FoundAt(i, ParamsEqual(expected[methods[i]], args, w))]],
        FoundAt(0, Verdict(FALSE, v)))

-----------------------------------------------------------------------------
(***************************************************************************)
(* How a call ends: what it returns or raises, the method that answers it  *)
(* (0 for none), the queue and the Value it leaves.                        *)
(***************************************************************************)
Ends(how, m, q, v) ==
  [verdict |-> "ended", outcome |-> how, method |-> m, queue |-> q, stored |-> v]

\* A group gives way to the rest of the queue; when there is none the call is refused.
GivesWay(q, v) ==
  [verdict |-> "given way", outcome |-> "UnexpectedMethodCallError", method |-> 0,
   queue |-> q, stored |-> v]

LastRemoved(item, found, args, rest) ==
  Ends("returned", item.methods[found.at],
       Remaining(item, Len(item.methods)) \o rest, found.stored)

\* list.remove compares once more, with what the first loop stored.  It raises when
\* nothing is equal any more, and then the group is gone.
Removed(item, found, args, rest) ==
  LET again == Scan(item.methods, args, found.stored) IN
    CASE again.verdict = "yes" ->
           Ends("returned", item.methods[found.at], Remaining(item, again.at) \o rest, again.stored)
      [] again.verdict = "no" -> Ends("ValueError", 0, rest, again.stored)
      [] OTHER -> Ends("client's exception", 0, rest, again.stored)

\* The call meets an element of the queue that is followed by rest.
ServedBy(item, rest, args, v) ==
  LET found == Scan(item.methods, args, v) IN
    CASE found.verdict = "raises" -> Ends("client's exception", 0, rest, found.stored)
      [] found.verdict = "yes" /\ item.kind = "unordered" -> Removed(item, found, args, rest)
      [] found.verdict = "yes" /\ item.kind # "unordered" ->
           Ends("returned", item.methods[found.at],
                Remaining(item, found.at) \o rest, found.stored)
      [] found.verdict = "no" /\ item.kind = "multiple" /\ item.left = {} ->
           GivesWay(rest, found.stored)
      [] OTHER -> Ends("UnexpectedMethodCallError", 0, rest, found.stored)

Served(q, args, v) ==
  While("given way",
        [i \in DOMAIN q |->
           [w \in Storable |-> ServedBy(q[i], SubSeq(q, i + 1, Len(q)), args, w)]],
        GivesWay(<<>>, v))

-----------------------------------------------------------------------------
Stores(m) == expected[m] \in Storing

Reads(m) == expected[m] \in Reading

May(liberty, careful) == liberty \in Liberties \/ careful

Init ==
  /\ expected = <<>>
  /\ queue = <<>>
  /\ replaying = FALSE
  /\ thrown = FALSE
  /\ stored = Nothing
  /\ outcome = "none"
  /\ answered = {}
  /\ remembered = Nothing

\* Is the first parameter the receiver?  The signature checker compares it with the
\* class, and takes an exception for a no.
LookedAt(params) ==
  IF Optional > 0 /\ Len(params) > 0
  THEN Equal(Head(params), Class, stored).stored
  ELSE stored

Record(params) ==
  /\ ~replaying
  /\ May("careless", params \in Careful)
  /\ Len(expected) < MaxMethods
  /\ stored' = LookedAt(params)
  /\ expected' = Append(expected, params)
  /\ queue' = Append(queue, Single(Len(expected) + 1))
  /\ outcome' = "recorded"
  /\ UNCHANGED <<replaying, thrown, answered, remembered>>

\* The queue with its last method in a group.
Grouped(m, kind, g) ==
  LET rest == Front(queue) IN
    IF rest # <<>> /\ IsGroup(Last(rest), kind, g)
    THEN {Append(Front(rest), group) : group \in WithMethod(Last(rest), m)}
    ELSE {Append(rest, group) : group \in WithMethod(EmptyGroup(kind, g), m)}

Unmixed(item) ==
  item.kind = "unordered" =>
    ~\E m, n \in ToSet(item.methods) : Stores(m) /\ Reads(n)

ChainModifier(kind, g) ==
  /\ ~replaying
  /\ queue # <<>> /\ Last(queue).kind = "method"
  /\ queue' \in Grouped(Last(queue).methods[1], kind, g)
  /\ May("mixed", Unmixed(Last(queue')))
  /\ outcome' = "recorded"
  /\ UNCHANGED <<expected, replaying, thrown, stored, answered, remembered>>

Replay ==
  /\ ~replaying
  /\ replaying' = TRUE
  /\ outcome' = "none"
  /\ UNCHANGED <<expected, queue, thrown, stored, answered, remembered>>

\* Only an UnexpectedMethodCallError is kept for verify.
Call(args) ==
  /\ replaying
  /\ LET end == Served(queue, args, stored) IN
       /\ queue' = end.queue
       /\ stored' = end.stored
       /\ outcome' = end.outcome
       /\ thrown' = (thrown \/ end.outcome = "UnexpectedMethodCallError")
       /\ answered' = answered \cup ({end.method} \ {0})
       /\ remembered' = IF end.method # 0 /\ Stores(end.method) THEN Last(args) ELSE remembered
  /\ UNCHANGED <<expected, replaying>>

NothingExpected ==
  queue = <<>> \/ (Len(queue) = 1 /\ queue[1].kind = "multiple" /\ queue[1].left = {})

Verify ==
  /\ outcome' = IF thrown THEN "SwallowedExceptionError"
                ELSE IF NothingExpected THEN "verified" ELSE "ExpectedMethodCallsError"
  /\ UNCHANGED <<expected, queue, replaying, thrown, stored, answered, remembered>>

Next ==
  \/ \E params \in Expected : Record(params)
  \/ \E kind \in GroupKind, g \in Group : ChainModifier(kind, g)
  \/ Replay
  \/ \E args \in Passed : Call(args)
  \/ Verify

Spec == Init /\ [][Next]_vars

-----------------------------------------------------------------------------
(***************************************************************************)
(* What careful expected parameters do: each comparator answers and does   *)
(* not raise, and the last one alone stores, what it is given and only if  *)
(* it matches.  Those without the Value answer without regard to what it   *)
(* has.  A call that is longer than those that store does not reach them,  *)
(* and the signature checker makes nothing be stored.                      *)
(***************************************************************************)
ComparatorsAreCareful ==
  \A params \in Careful :
    /\ \A i \in DOMAIN params, arg \in Argument, v \in Storable :
         LET here == Equal(params[i], arg, v) IN
           /\ here.verdict \in {"yes", "no"}
           /\ here.stored = IF params \in Storing /\ i = Len(params) /\ here.verdict = "yes"
                            THEN arg
                            ELSE v
           /\ params \notin Reading =>
                \A w \in Storable : Equal(params[i], arg, w).verdict = here.verdict
    /\ params \in Storing => \A args \in Passed : Len(args) <= Len(params)
    /\ Optional > 0 /\ params # <<>> =>
         \A v \in Storable : Equal(Head(params), Class, v).stored = v

\* "Verify that all the expected calls have been made" (docstring of _verify): when
\* verify passes each expected method has answered a call.  Comparators may store and
\* read in groups of both kinds, unless the client takes a liberty: stores what did not
\* match in full, raises, or mixes Remember and Value in one any_order group.
VerifiedMeansAnswered == outcome = "verified" => answered = DOMAIN expected

\* "In the send call its value [...] will go to myvalue" (README, Remember/Value): until
\* a call is refused, the Value has what the last call answered by a Remember was given,
\* and nothing from calls that others answered.
StoredByAnsweredCalls == thrown \/ stored = remembered

=============================================================================
