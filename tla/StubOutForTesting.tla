-------------------------- MODULE StubOutForTesting --------------------------
(***************************************************************************)
(* StubOutForTesting (stubbingout.py): an attribute is replaced on objects *)
(* by set and smart_set, and put back by unset_all and smart_unset_all,    *)
(* from one undo log for each of the two.                                  *)
(*                                                                         *)
(* One attribute name is modelled, on modules, classes with base classes   *)
(* and instances.  What is stored in the dictionary of an object is a      *)
(* function, a staticmethod, a classmethod or a method bound to "self";    *)
(* what getattr returns is computed from it (Lookup).  A replacement is a  *)
(* plain function, as in the docstring's example.                          *)
(***************************************************************************)
EXTENDS Naturals, SequencesExt

CONSTANTS Object,    \* the modules, classes and instances
          Kind,      \* Kind[o]: "module", "class" or "instance"
          Mro,       \* Mro[o]: o and the classes it is looked up in after o
          NoObject,
          ReadOnly,  \* the objects on which setattr raises TypeError
          Stub,      \* the replacements
          Smart,     \* the objects stubbed with smart_set, the others with set
          Liberties, \* what else the client does, see below
          MaxLog     \* bound on the entries of the two logs

ASSUME ObjectAssumption ==
  /\ NoObject \notin Object
  /\ Object \cap Stub = {}
  /\ Kind \in [Object -> {"module", "class", "instance"}]
  /\ Mro \in [Object -> Seq(Object)]
  /\ \A o \in Object : Mro[o] # <<>> /\ Mro[o][1] = o
  /\ \A o \in Object : \A i \in 2..Len(Mro[o]) : Kind[Mro[o][i]] = "class"
  /\ \A o \in Object : Kind[o] = "instance" <=> Kind[o] # "class" /\ Len(Mro[o]) > 1
  /\ ReadOnly \subseteq Object /\ Smart \subseteq Object

ASSUME BoundAssumption == MaxLog \in Nat

(***************************************************************************)
(* The liberties a client may take beyond the careful use:                 *)
(*   "inherited"   set on an object that only inherits the attribute       *)
(*   "mixed"       set and smart_set on the same object                    *)
(*   "classmethod" smart_set of a classmethod                              *)
(*   "instance"    smart_set on an instance, replacing on its class        *)
(*   "readonly"    stubbing an object on which setattr raises              *)
(***************************************************************************)
ASSUME LibertiesAssumption ==
  Liberties \subseteq {"inherited", "mixed", "classmethod", "instance", "readonly"}

VARIABLES own,      \* own[o]: the entry of o's __dict__
          original, \* what own was before anything was stubbed
          cache,    \* the undo log of set
          stubs,    \* the undo log of smart_set
          raised,   \* the exception of the last operation
          lost      \* __del__ has swallowed an exception, read by no action

vars == <<own, original, cache, stubs, raised, lost>>

Absent == [kind |-> "absent", fn |-> NoObject, self |-> NoObject]

Function(f) == [kind |-> "function", fn |-> f, self |-> NoObject]

Attribute ==
  [kind : {"absent", "function", "staticmethod", "classmethod", "bound"},
   fn   : Object \cup Stub \cup {NoObject},
   self : Object \cup {NoObject}]

HasAttribute(o) == \E i \in DOMAIN Mro[o] : own[Mro[o][i]] # Absent

\* The object that getattr(o, name) finds the attribute in.
Definer(o) == Mro[o][SelectInSeq(Mro[o], LAMBDA d : own[d] # Absent)]

ClassOf(o) == IF Kind[o] = "instance" THEN Mro[o][2] ELSE o

\* getattr(o, name).
Lookup(o) ==
  LET found == own[Definer(o)] IN
    CASE found.kind = "staticmethod" -> Function(found.fn)
      [] found.kind = "classmethod"  -> [found EXCEPT !.kind = "bound", !.self = ClassOf(o)]
      [] found.kind = "function" /\ Kind[o] = "instance" /\ Definer(o) # o
                                     -> [found EXCEPT !.kind = "bound", !.self = o]
      [] OTHER                       -> found

-----------------------------------------------------------------------------
\* What an object may define: a class any kind of function, modules and instances
\* plain ones.
Definitions(o) ==
  {Absent, Function(o)} \cup
    (IF Kind[o] = "class"
     THEN {[Function(o) EXCEPT !.kind = k] : k \in {"staticmethod", "classmethod"}}
     ELSE {})

Init ==
  /\ original \in {d \in [Object -> UNION {Definitions(o) : o \in Object}] :
                     \A o \in Object : d[o] \in Definitions(o)}
  /\ own = original
  /\ cache = <<>>
  /\ stubs = <<>>
  /\ raised = "none"
  /\ lost = FALSE

\* setattr(o, name, value), at the end of set and of smart_set.
Assign(o, value) ==
  IF o \in ReadOnly
  THEN raised' = "TypeError on set" /\ UNCHANGED own
  ELSE raised' = "none" /\ own' = [own EXCEPT ![o] = value]

Logged == Len(cache) + Len(stubs)

-----------------------------------------------------------------------------
PlainChild(o) == Lookup(o)

\* The value set puts into its log: staticmethods and classmethods that o
\* defines itself are wrapped again.
OldChild(o) ==
  CASE own[o].kind = "staticmethod" -> [Lookup(o) EXCEPT !.kind = "staticmethod"]
    [] own[o].kind = "classmethod"  -> [Function(Lookup(o).fn) EXCEPT !.kind = "classmethod"]
    [] OTHER                        -> Lookup(o)

Set(o, stub) ==
  /\ HasAttribute(o)
  /\ Logged < MaxLog
  /\ cache' = Append(cache, [object |-> o, old |-> OldChild(o)])
  /\ Assign(o, Function(stub))
  /\ UNCHANGED <<original, stubs, lost>>

\* The object smart_set replaces the attribute on.
SmartTarget(o) == IF own[o] = Absent THEN ClassOf(o) ELSE o

\* The value smart_set logs: only a staticmethod in the dictionary of o itself is
\* wrapped again.
OrigAttr(o) ==
  IF own[o].kind = "staticmethod"
  THEN [Lookup(o) EXCEPT !.kind = "staticmethod"]
  ELSE Lookup(o)

SmartEntryWithoutHadOwn(o) == [object |-> SmartTarget(o), old |-> OrigAttr(o)]

\* hadOwn: the attribute was not inherited by the object it is replaced on.
SmartEntry(o) == [object |-> SmartTarget(o), old |-> OrigAttr(o),
                  hadOwn |-> own[SmartTarget(o)] # Absent]

SmartSet(o, stub) ==
  /\ HasAttribute(o)
  /\ Logged < MaxLog
  /\ stubs' = Append(stubs, SmartEntry(o))
  /\ Assign(SmartTarget(o), Function(stub))
  /\ UNCHANGED <<original, cache, lost>>

\* Both raise before anything is logged when the attribute is not found.
NotFound(o) ==
  /\ ~HasAttribute(o)
  /\ raised' = "AttributeError"
  /\ UNCHANGED <<own, original, cache, stubs, lost>>

-----------------------------------------------------------------------------
\* One turn of the loop of unset_all.
PutBack(attributes, entry) == [attributes EXCEPT ![entry.object] = entry.old]

\* One turn of the loop of smart_unset_all: an attribute that was inherited is
\* deleted again; deleting what is not there falls back to setattr.
SmartPutBack(attributes, entry) ==
  [attributes EXCEPT ![entry.object] =
     IF entry.hadOwn \/ @ = Absent THEN entry.old ELSE Absent]

\* The entries of a log in the order in which they are undone.
Backwards(log) == Reverse(log)

\* The entries undone before one raises; all of them when none does.
Undone(log) ==
  LET order == Backwards(log)
      bad == {i \in DOMAIN order : order[i].object \in ReadOnly}
  IN SubSeq(order, 1, IF bad = {} THEN Len(order) ELSE Min(bad) - 1)

Fails(log) == \E i \in DOMAIN log : log[i].object \in ReadOnly

LogEmptied(log) == <<>>

\* The log was reversed in place before the loop, and is emptied only after it.
LogAfter(log) == IF Fails(log) THEN Backwards(log) ELSE <<>>

UnsetAll ==
  /\ own' = FoldLeft(PutBack, own, Undone(cache))
  /\ cache' = LogAfter(cache)
  /\ raised' = IF Fails(cache) THEN "TypeError on unset" ELSE "none"
  /\ UNCHANGED <<original, stubs, lost>>

SmartUnsetAll ==
  /\ own' = FoldLeft(SmartPutBack, own, Undone(stubs))
  /\ stubs' = LogAfter(stubs)
  /\ raised' = IF Fails(stubs) THEN "TypeError on unset" ELSE "none"
  /\ UNCHANGED <<original, cache, lost>>

\* __del__ swallows what is raised; the logs are lost with the object.  A new
\* StubOutForTesting takes its place.
Del ==
  /\ own' = LET smart == FoldLeft(SmartPutBack, own, Undone(stubs))
            IN IF Fails(stubs) THEN smart ELSE FoldLeft(PutBack, smart, Undone(cache))
  /\ cache' = <<>>
  /\ stubs' = <<>>
  /\ raised' = "none"
  /\ lost' = (lost \/ Fails(stubs) \/ Fails(cache))
  /\ UNCHANGED original

-----------------------------------------------------------------------------
May(liberty, careful) == liberty \in Liberties \/ careful

SetAsIntended(o) ==
  /\ May("inherited", own[o] # Absent)
  /\ May("mixed", o \notin Smart)
  /\ May("readonly", o \notin ReadOnly)

SmartSetAsIntended(o) ==
  /\ May("mixed", SmartTarget(o) \in Smart)
  /\ May("classmethod", HasAttribute(o) => own[Definer(o)].kind # "classmethod")
  /\ May("instance", SmartTarget(o) = o)
  /\ May("readonly", SmartTarget(o) \notin ReadOnly)

Next ==
  \/ \E o \in Object, stub \in Stub : SetAsIntended(o) /\ Set(o, stub)
  \/ \E o \in Object, stub \in Stub : SmartSetAsIntended(o) /\ SmartSet(o, stub)
  \/ \E o \in Object : NotFound(o)
  \/ UnsetAll
  \/ SmartUnsetAll
  \/ Del

Spec == Init /\ [][Next]_vars

-----------------------------------------------------------------------------
\* Type correctness.
TypeOK ==
  /\ own \in [Object -> Attribute] /\ original \in [Object -> Attribute]
  /\ cache \in Seq([object : Object, old : Attribute])
  /\ stubs \in Seq([object : Object, old : Attribute, hadOwn : BOOLEAN])
  /\ Logged <= MaxLog
  /\ raised \in {"none", "AttributeError", "TypeError on set", "TypeError on unset"}
  /\ lost \in BOOLEAN

Unset == cache = <<>> /\ stubs = <<>> /\ ~lost

\* "Reverses all the set() calls, restoring things to their original definition"
\* (docstrings of unset_all and smart_unset_all): with both logs undone every
\* dictionary is what it was, whatever was stubbed, how often, and through which
\* class of a hierarchy.
RestoredToOriginal == Unset => own = original

BringsBack(entry) == entry.old = original[entry.object]

SmartBringsBack(entry) ==
  original[entry.object] = IF entry.hadOwn THEN entry.old ELSE Absent

\* Whatever fails, a set half done or an undo that raises in the middle of its loop
\* and is tried again later: what is not as it was is still in a log, with its
\* original (the loops of unset_all and smart_unset_all empty their log in the end).
OriginalsAreKept ==
  lost \/ \A o \in Object :
    own[o] # original[o] =>
      \/ \E i \in DOMAIN cache : cache[i].object = o /\ BringsBack(cache[i])
      \/ \E i \in DOMAIN stubs : stubs[i].object = o /\ SmartBringsBack(stubs[i])

=============================================================================
