---------------------------- MODULE MethodGroups ----------------------------
(***************************************************************************)
(* The elements of a mock's queue of expected calls (groups.py).           *)
(*                                                                         *)
(* A queue element is a single expected method, an UnorderedGroup or a     *)
(* MultipleTimesGroup.  All three are records of one shape:                *)
(*   kind     which of the three it is                                     *)
(*   name     the group name, NoGroup for a single method                  *)
(*   methods  the methods in the order in which method_called scans them   *)
(*   left     _methods_left of a MultipleTimesGroup, {} otherwise          *)
(*                                                                         *)
(* Methods are identifiers; which of them a call is equal to is decided by *)
(* the caller and handed in as the set "hits".                             *)
(***************************************************************************)
EXTENDS Naturals, SequencesExt

CONSTANTS Group,    \* the names any_order and multiple_times are called with
          NoGroup   \* the name of what is not a group

ASSUME GroupAssumption == NoGroup \notin Group

GroupKind == {"unordered", "multiple"}

Item(Method) == [kind    : {"method"} \cup GroupKind,
                 name    : Group \cup {NoGroup},
                 methods : Seq(Method),
                 left    : SUBSET Method]

Single(m) == [kind |-> "method", name |-> NoGroup, methods |-> <<m>>, left |-> {}]

EmptyGroup(kind, g) == [kind |-> kind, name |-> g, methods |-> <<>>, left |-> {}]

IsGroup(item, kind, g) == item.kind = kind /\ item.name = g

\* The mutated forms of a definition stand before it.
WithMethodNotLeft(item, m) ==
  {[item EXCEPT !.methods = Append(@, m)]}

(***************************************************************************)
(* add_method.  An UnorderedGroup keeps a list, a MultipleTimesGroup two   *)
(* sets.  A set is scanned in the order of its hash table, which depends   *)
(* on the addresses of the methods and may change whenever one is added:   *)
(* any order of the new set is an outcome.                                 *)
(***************************************************************************)
WithMethod(item, m) ==
  IF item.kind = "unordered"
  THEN {[item EXCEPT !.methods = Append(@, m)]}
  ELSE {[item EXCEPT !.methods = order, !.left = @ \cup {m}] :
           order \in SetToSeqs(ToSet(item.methods) \cup {m})}

\* The methods of an item that must still be called before verify accepts it.
Owed(item) == IF item.kind = "multiple" THEN item.left ELSE ToSet(item.methods)

NoHit(item, hits) == ToSet(item.methods) \cap hits = {}

\* The scan of method_called stops at the i-th method.
FirstHit(item, hits, i) ==
  /\ i \in DOMAIN item.methods
  /\ item.methods[i] \in hits
  /\ \A j \in 1..(i - 1) : item.methods[j] \notin hits

\* MultipleTimesGroup.method_called gives way to the next element of the queue:
\* no method of the group is called and all were called before.
PassedOver(item, hits) ==
  /\ item.kind = "multiple"
  /\ item.left = {}
  /\ NoHit(item, hits)

RemainingEvenIfEmpty(item, i) ==
  CASE item.kind = "multiple"  -> <<[item EXCEPT !.left = @ \ {item.methods[i]}]>>
    [] item.kind = "unordered" -> <<[item EXCEPT !.methods = RemoveAt(@, i)]>>
    [] OTHER                   -> <<>>

\* What stays at the head of the queue when the i-th method of item is called:
\* a MultipleTimesGroup always, an UnorderedGroup while it is not empty.
Remaining(item, i) ==
  IF item.kind = "multiple"
  THEN <<[item EXCEPT !.left = @ \ {item.methods[i]}]>>
  ELSE IF Len(item.methods) = 1
       THEN <<>>
       ELSE <<[item EXCEPT !.methods = RemoveAt(@, i)]>>

=============================================================================
