------------------------ MODULE SignatureCheckerProofs ------------------------
(***************************************************************************)
(* Proof that the verdict of the checker is right, for methods and calls   *)
(* of any size.  The invariant says what arg_status stands for after every *)
(* turn: an argument is given when a parameter or a keyword checked so far *)
(* fills it.  What the verdict means is first stated in terms of what the  *)
(* checker reads of a method (ReadBinds), and then compared with Python.   *)
(***************************************************************************)
EXTENDS SignatureChecker, TLAPS

\* The j-th keyword was checked, and the i-th parameter was.
KeywordDone(j) == j \in DOMAIN call.keywords /\ j + params < turn

ParamDone(i) == i \in 1..params /\ i < turn

GivenByParam(a) == \E i \in DOMAIN Args(method) : ParamDone(i) /\ Args(method)[i] = a

GivenByKeyword(a) == \E j \in DOMAIN call.keywords : KeywordDone(j) /\ call.keywords[j] = a

\* What the checker decides: a call with n positional parameters fits _args.
FilledByKeyword(n, k) == \E i \in DOMAIN Args(method) : i > n /\ Args(method)[i] = k

KeywordFits(n, k) ==
  FilledByKeyword(n, k) \/ (method.varkw /\ k \notin Names(Args(method)))

ParamsFit(n) == n <= Len(Args(method)) \/ method.varargs

NothingNeeded(n) ==
  \A i \in DOMAIN Args(method) :
    i <= Required(method) => i <= n \/ Args(method)[i] \in Names(call.keywords)

ReadBinds(n) ==
  /\ ParamsFit(n)
  /\ \A k \in Names(call.keywords) : KeywordFits(n, k)
  /\ NothingNeeded(n)

ParamsInv ==
  turn > 0 =>
    \/ params = call.given
    \/ /\ InAClass(method) /\ call.first # "plain" /\ call.given > Required(method)
       /\ params = call.given - 1

StatusInv ==
  /\ \A a \in DOMAIN status :
       /\ status[a] = "given" <=> GivenByParam(a) \/ GivenByKeyword(a)
       /\ status[a] # "given" => a \in Names(Args(method)) /\ status[a] = InitialStatus(method)[a]
  /\ Names(Args(method)) \subseteq DOMAIN status
  /\ \A a \in DOMAIN status : a \in Names(Args(method)) \/ GivenByKeyword(a)

CheckedInv ==
  /\ \A i \in 1..params : ParamDone(i) => i \in DOMAIN Args(method) \/ method.varargs
  /\ \A j \in DOMAIN call.keywords : KeywordDone(j) => KeywordFits(params, call.keywords[j])

VerdictInv ==
  /\ verdict = "accepted" => turn > 0 /\ ReadBinds(params)
  /\ verdict = "AttributeError" => turn > 0 /\ ~ReadBinds(params)
  /\ verdict = "KeyError" => method.route = "local"

CheckerInv == TypeOK /\ ParamsInv /\ StatusInv /\ CheckedInv /\ VerdictInv

-----------------------------------------------------------------------------
\* What is known of the method and the call.
LEMMA InputTypes ==
  ASSUME TypeOK
  PROVE  /\ method \in MethodSignature /\ call \in RecordedCall
         /\ Distinct(method.positional) /\ Distinct(call.keywords)
         /\ method.positional \in Seq(Parameter) /\ call.keywords \in Seq(Parameter)
         /\ Len(method.positional) \in Nat /\ Len(call.keywords) \in Nat
         /\ DOMAIN method.positional = 1..Len(method.positional)
         /\ DOMAIN call.keywords = 1..Len(call.keywords)
         /\ method.needed \in Nat /\ method.needed <= Len(method.positional)
         /\ call.given \in Nat /\ method.varargs \in BOOLEAN /\ method.varkw \in BOOLEAN
BY MethodsAssumption, CallsAssumption DEF TypeOK, MethodSignature, RecordedCall

\* _args and _required_args.
LEMMA ArgsTypes ==
  ASSUME TypeOK
  PROVE  /\ Args(method) \in Seq(Parameter) /\ Len(Args(method)) \in Nat
         /\ DOMAIN Args(method) = 1..Len(Args(method))
         /\ Distinct(Args(method))
         /\ Required(method) \in 0..Len(Args(method))
<1>1. CASE method.route = "static" /\ method.positional # <<>>
  <2>1. /\ Args(method) \in Seq(Parameter)
        /\ Len(Args(method)) = Len(method.positional) - 1
        /\ \A i \in 1..Len(Args(method)) : Args(method)[i] = method.positional[i + 1]
    BY <1>1, InputTypes DEF Args
  <2>2. Len(Args(method)) \in Nat /\ DOMAIN Args(method) = 1..Len(Args(method))
    BY <2>1
  <2>3. Distinct(Args(method))
    <3>1. SUFFICES ASSUME NEW i \in 1..Len(Args(method)), NEW j \in 1..Len(Args(method)),
                          Args(method)[i] = Args(method)[j]
                   PROVE  i = j
      BY <2>2 DEF Distinct
    <3>2. method.positional[i + 1] = method.positional[j + 1]
      BY <2>1, <3>1
    <3>3. i + 1 \in DOMAIN method.positional /\ j + 1 \in DOMAIN method.positional
      BY <2>1, InputTypes
    <3>4. i + 1 = j + 1
      BY <3>2, <3>3, InputTypes DEF Distinct
    <3> QED
      BY <3>4
  <2> QED
    BY <2>1, <2>2, <2>3, InputTypes DEF Required, Defaults
<1>2. CASE ~(method.route = "static" /\ method.positional # <<>>)
  <2>1. Args(method) = method.positional
    BY <1>2 DEF Args
  <2> QED
    BY <2>1, InputTypes DEF Required, Defaults
<1> QED
  BY <1>1, <1>2

\* The invariant does not look at anything but the variables below.
LEMMA SameTurn ==
  ASSUME CheckerInv, UNCHANGED <<method, call, params, turn, status>>
  PROVE  /\ ParamsInv' /\ StatusInv' /\ CheckedInv'
         /\ \A n : ReadBinds(n)' <=> ReadBinds(n)
<1>1. /\ Args(method)' = Args(method) /\ Required(method)' = Required(method)
      /\ InitialStatus(method)' = InitialStatus(method)
  BY DEF Args, Required, Defaults, InitialStatus
<1>2. ParamsInv'
  BY <1>1 DEF CheckerInv, ParamsInv
<1>3. StatusInv'
  BY <1>1 DEF CheckerInv, StatusInv, GivenByParam, GivenByKeyword, ParamDone, KeywordDone
<1>4. CheckedInv'
  BY <1>1 DEF CheckerInv, CheckedInv, ParamDone, KeywordDone, KeywordFits, FilledByKeyword
<1>5. \A n : ReadBinds(n)' <=> ReadBinds(n)
  BY <1>1 DEF ReadBinds, ParamsFit, NothingNeeded, KeywordFits, FilledByKeyword
<1> QED
  BY <1>2, <1>3, <1>4, <1>5

-----------------------------------------------------------------------------
LEMMA InitEstablishes == Init => CheckerInv
<1> SUFFICES ASSUME Init PROVE CheckerInv
  OBVIOUS
<1>1. DOMAIN status = Names(Args(method))
  BY DEF Init, InitialStatus
<1>2. \A a \in DOMAIN status : status[a] \in {"needed", "default"} /\ status[a] = InitialStatus(method)[a]
  BY DEF Init, InitialStatus
<1>3. TypeOK
  <2>1. /\ call.given \in Nat /\ Len(call.keywords) \in Nat
    BY CallsAssumption DEF Init, RecordedCall
  <2>2. Args(method) \in Seq(Parameter)
    BY MethodsAssumption DEF Init, MethodSignature, Args
  <2>3. Names(Args(method)) \subseteq Parameter
    BY <2>2 DEF Names
  <2> QED
    BY <1>1, <1>2, <2>1, <2>3 DEF Init, TypeOK
<1>4. \A a : ~GivenByParam(a) /\ ~GivenByKeyword(a)
  <2>1. \A i : ~ParamDone(i) /\ ~KeywordDone(i)
    BY <1>3, InputTypes DEF Init, ParamDone, KeywordDone
  <2> QED
    BY <2>1 DEF GivenByParam, GivenByKeyword
<1>5. ParamsInv /\ VerdictInv
  BY DEF Init, ParamsInv, VerdictInv
<1>6. CheckedInv
  BY <1>3, InputTypes DEF Init, CheckedInv, ParamDone, KeywordDone
<1>7. StatusInv
  BY <1>1, <1>2, <1>4 DEF StatusInv
<1> QED
  BY <1>3, <1>5, <1>6, <1>7 DEF CheckerInv

\* The first turn: nothing is given yet.
LEMMA BeginKeeps ==
  ASSUME CheckerInv, NEW n \in 0..call.given, Begin(n),
         \/ n = call.given
         \/ /\ InAClass(method) /\ call.first # "plain" /\ call.given > Required(method)
            /\ n = call.given - 1
  PROVE  CheckerInv'
<1> USE DEF CheckerInv
<1>1. /\ method' = method /\ call' = call /\ status' = status /\ verdict' = "none"
      /\ params' = n /\ turn' = 1 /\ turn = 0
  BY DEF Begin
<1>2. /\ Args(method)' = Args(method) /\ Required(method)' = Required(method)
      /\ InitialStatus(method)' = InitialStatus(method)
  BY <1>1 DEF Args, Required, Defaults, InitialStatus
<1>3. \A i : ~ParamDone(i) /\ ~KeywordDone(i)
  BY <1>1, InputTypes DEF ParamDone, KeywordDone, TypeOK
<1>4. \A i : ~ParamDone(i)' /\ ~KeywordDone(i)'
  BY <1>1, InputTypes DEF ParamDone, KeywordDone, TypeOK
<1>5. TypeOK'
  BY <1>1, InputTypes DEF TypeOK
<1>6. ParamsInv'
  BY <1>1, <1>2 DEF ParamsInv, InAClass
<1>7. StatusInv'
  BY <1>1, <1>2, <1>3, <1>4 DEF StatusInv, GivenByParam, GivenByKeyword
<1>8. CheckedInv'
  BY <1>1, <1>4 DEF CheckedInv
<1>9. VerdictInv'
  BY <1>1 DEF VerdictInv
<1> QED
  BY <1>5, <1>6, <1>7, <1>8, <1>9

\* A turn refuses only what does not fit.
LEMMA RefuseKeeps ==
  ASSUME CheckerInv, Refuse, turn > 0, ~ReadBinds(params)
  PROVE  CheckerInv'
<1>1. UNCHANGED <<method, call, params, turn, status>> /\ verdict' = "AttributeError"
  BY DEF Refuse
<1>2. TypeOK'
  BY <1>1 DEF CheckerInv, TypeOK
<1>3. VerdictInv'
  BY <1>1, SameTurn DEF VerdictInv
<1> QED
  BY <1>1, <1>2, <1>3, SameTurn DEF CheckerInv
-----------------------------------------------------------------------------
\* What a turn adds to what is done: its parameter, or its keyword.
LEMMA DoneAfterTurn ==
  ASSUME TypeOK, turn > 0, turn' = turn + 1, UNCHANGED <<method, call, params>>
  PROVE  /\ \A i : ParamDone(i)' <=> ParamDone(i) \/ (i = turn /\ turn \in 1..params)
         /\ \A j : KeywordDone(j)' <=>
                     KeywordDone(j) \/ (j \in DOMAIN call.keywords /\ j = turn - params)
         /\ turn <= params => \A j : ~KeywordDone(j) /\ ~KeywordDone(j)'
         /\ turn > params => \A i : ParamDone(i) <=> i \in 1..params
<1>1. turn \in Nat /\ params \in Nat /\ DOMAIN call.keywords = 1..Len(call.keywords)
  BY InputTypes DEF TypeOK
<1> QED
  BY <1>1 DEF ParamDone, KeywordDone

\* An argument is marked as given by the turn of its parameter or keyword.
LEMMA MarkGivenKeeps ==
  ASSUME CheckerInv, verdict = "none", turn > 0, NEW a \in Parameter, MarkGiven(a),
         turn <= params + Len(call.keywords),
         \A b : (GivenByParam(b) \/ GivenByKeyword(b))' <=>
                   GivenByParam(b) \/ GivenByKeyword(b) \/ b = a,
         a \in Names(Args(method)) \/ GivenByKeyword(a)',
         \A b : GivenByKeyword(b) => GivenByKeyword(b)',
         CheckedInv'
  PROVE  CheckerInv'
<1> USE DEF CheckerInv
<1>1. /\ UNCHANGED <<method, call, params, verdict>> /\ turn' = turn + 1
      /\ status' = [b \in DOMAIN status \cup {a} |-> IF b = a THEN "given" ELSE status[b]]
  BY DEF MarkGiven, NextTurn
<1>2. /\ DOMAIN status' = DOMAIN status \cup {a} /\ status'[a] = "given"
      /\ \A b \in DOMAIN status : b # a => status'[b] = status[b]
  BY <1>1
<1>3. /\ Args(method)' = Args(method) /\ InitialStatus(method)' = InitialStatus(method)
      /\ Required(method)' = Required(method)
  BY <1>1 DEF Args, Required, Defaults, InitialStatus
<1>4. TypeOK'
  BY <1>1, <1>2, InputTypes DEF TypeOK
<1>5. ParamsInv'
  BY <1>1, <1>3, InputTypes DEF ParamsInv, InAClass, TypeOK
<1>6. StatusInv'
  <2>1. \A b \in DOMAIN status' :
          /\ status'[b] = "given" <=> (GivenByParam(b) \/ GivenByKeyword(b))'
          /\ status'[b] # "given" => b \in Names(Args(method)) /\ status'[b] = InitialStatus(method)[b]
    BY <1>2 DEF StatusInv
  <2>2. Names(Args(method)) \subseteq DOMAIN status'
    BY <1>2 DEF StatusInv
  <2>3. \A b \in DOMAIN status' : b \in Names(Args(method)) \/ GivenByKeyword(b)'
    BY <1>2 DEF StatusInv
  <2> QED
    BY <1>3, <2>1, <2>2, <2>3 DEF StatusInv
<1>7. VerdictInv'
  BY <1>1 DEF VerdictInv
<1> QED
  BY <1>4, <1>5, <1>6, <1>7

\* A positional parameter that _args has a name for.
LEMMA CheckParamKeeps == CheckerInv /\ CheckParam => CheckerInv'
<1> SUFFICES ASSUME CheckerInv, CheckParam PROVE CheckerInv'
  OBVIOUS
<1> DEFINE a == Args(method)[turn]
<1> USE DEF CheckerInv
<1>1. verdict = "none" /\ turn \in 1..params /\ turn \in DOMAIN Args(method) /\ RecordGiven(a)
  BY DEF CheckParam, OnParam
<1>2. turn \in Nat /\ params \in Nat /\ turn > 0 /\ turn <= params
  BY <1>1, InputTypes DEF TypeOK
<1>3. a \in Parameter /\ a \in Names(Args(method)) /\ a \in DOMAIN status
  BY <1>1, ArgsTypes DEF Names, StatusInv
<1>4. ~IsGiven(a)
  <2>1. \A j : ~KeywordDone(j)
    BY <1>2, InputTypes DEF KeywordDone
  <2>2. \A i \in DOMAIN Args(method) : Args(method)[i] = a => i = turn
    BY <1>1, ArgsTypes DEF Distinct
  <2>3. ~ParamDone(turn)
    BY <1>2 DEF ParamDone
  <2>4. ~GivenByParam(a) /\ ~GivenByKeyword(a)
    BY <2>1, <2>2, <2>3 DEF GivenByParam, GivenByKeyword
  <2> QED
    BY <1>3, <2>4 DEF StatusInv, IsGiven
<1>5. MarkGiven(a)
  BY <1>1, <1>4 DEF RecordGiven
<1>6. /\ UNCHANGED <<method, call, params>> /\ turn' = turn + 1
      /\ Args(method)' = Args(method)
  BY <1>5 DEF MarkGiven, NextTurn, Args
<1>7. /\ \A i : ParamDone(i)' <=> ParamDone(i) \/ i = turn
      /\ \A j : ~KeywordDone(j) /\ ~KeywordDone(j)'
  BY <1>1, <1>2, <1>6, DoneAfterTurn
<1>8. \A b : GivenByParam(b)' <=> GivenByParam(b) \/ b = a
  BY <1>1, <1>6, <1>7 DEF GivenByParam
<1>9. \A b : ~GivenByKeyword(b) /\ ~GivenByKeyword(b)'
  BY <1>7 DEF GivenByKeyword
<1>10. CheckedInv'
  BY <1>1, <1>6, <1>7 DEF CheckedInv
<1>11. turn <= params + Len(call.keywords)
  BY <1>2, InputTypes
<1> HIDE DEF a
<1> QED
  BY <1>1, <1>2, <1>3, <1>5, <1>8, <1>9, <1>10, <1>11, MarkGivenKeeps

\* A positional parameter beyond _args.
LEMMA CheckSurplusKeeps == CheckerInv /\ CheckSurplus => CheckerInv'
<1> SUFFICES ASSUME CheckerInv, CheckSurplus PROVE CheckerInv'
  OBVIOUS
<1> USE DEF CheckerInv
<1>1. /\ verdict = "none" /\ turn \in 1..params /\ turn \notin DOMAIN Args(method)
      /\ turn \in Nat /\ params \in Nat /\ turn > 0 /\ turn <= params
  BY InputTypes DEF CheckSurplus, OnParam, TypeOK
<1>2. CASE ~method.varargs /\ Refuse
  <2>1. ~ParamsFit(params)
    BY <1>1, <1>2, ArgsTypes DEF ParamsFit
  <2> QED
    BY <1>1, <1>2, <2>1, RefuseKeeps DEF ReadBinds
<1>3. CASE method.varargs /\ NextTurn /\ UNCHANGED status
  <2>1. /\ UNCHANGED <<method, call, params, status, verdict>> /\ turn' = turn + 1
        /\ Args(method)' = Args(method) /\ InitialStatus(method)' = InitialStatus(method)
        /\ Required(method)' = Required(method)
    BY <1>3 DEF NextTurn, Args, Required, Defaults, InitialStatus
  <2>2. /\ \A i : ParamDone(i)' <=> ParamDone(i) \/ i = turn
        /\ \A j : ~KeywordDone(j) /\ ~KeywordDone(j)'
    BY <1>1, <2>1, DoneAfterTurn
  <2>3. \A b : /\ GivenByParam(b)' <=> GivenByParam(b)
               /\ GivenByKeyword(b)' <=> GivenByKeyword(b)
    BY <1>1, <2>1, <2>2 DEF GivenByParam, GivenByKeyword
  <2>4. TypeOK'
    BY <1>1, <2>1, InputTypes DEF TypeOK
  <2>5. ParamsInv'
    BY <1>1, <2>1 DEF ParamsInv, InAClass
  <2>6. StatusInv'
    BY <2>1, <2>3 DEF StatusInv
  <2>7. CheckedInv'
    BY <1>3, <2>1, <2>2 DEF CheckedInv
  <2>8. VerdictInv'
    BY <1>1, <2>1 DEF VerdictInv
  <2> QED
    BY <2>4, <2>5, <2>6, <2>7, <2>8
<1> QED
  BY <1>2, <1>3 DEF CheckSurplus

\* A keyword.
LEMMA CheckKeywordKeeps == CheckerInv /\ CheckKeyword => CheckerInv'
<1> SUFFICES ASSUME CheckerInv, CheckKeyword PROVE CheckerInv'
  OBVIOUS
<1> USE DEF CheckerInv
<1> DEFINE j0 == turn - params
<1>1. /\ verdict = "none" /\ turn > params /\ j0 \in DOMAIN call.keywords
      /\ Keyword = call.keywords[j0]
  BY DEF CheckKeyword, OnKeyword, Keyword
<1>2. /\ turn \in Nat /\ params \in Nat /\ turn > 0 /\ turn <= params + Len(call.keywords)
      /\ Keyword \in Parameter /\ Keyword \in Names(call.keywords) /\ ~KeywordDone(j0)
  BY <1>1, InputTypes DEF TypeOK, Names, KeywordDone
<1>3. \A i : ParamDone(i) <=> i \in 1..params
  BY <1>2, <1>1 DEF ParamDone
<1>4. Keyword \notin DOMAIN status => Keyword \notin Names(Args(method)) /\ ~FilledByKeyword(params, Keyword)
  BY ArgsTypes DEF StatusInv, Names, FilledByKeyword
<1>5. CASE Refuse
  <2>1. ~KeywordFits(params, Keyword)
    <3>1. CASE Keyword \notin DOMAIN status /\ ~method.varkw
      BY <3>1, <1>4 DEF KeywordFits
    <3>2. CASE IsGiven(Keyword)
      <4>1. ~GivenByKeyword(Keyword)
        <5>1. \A j \in DOMAIN call.keywords : call.keywords[j] = Keyword => j = j0
          BY <1>1, InputTypes DEF Distinct
        <5> QED
          BY <5>1, <1>2 DEF GivenByKeyword
      <4>2. PICK i \in DOMAIN Args(method) : ParamDone(i) /\ Args(method)[i] = Keyword
        BY <3>2, <4>1 DEF IsGiven, StatusInv, GivenByParam
      <4>3. i \in 1..params /\ Keyword \in Names(Args(method))
        BY <4>2, <1>3 DEF Names
      <4>4. \A n \in DOMAIN Args(method) : Args(method)[n] = Keyword => n = i
        BY <4>2, ArgsTypes DEF Distinct
      <4>5. ~FilledByKeyword(params, Keyword)
        BY <4>3, <4>4, <1>2 DEF FilledByKeyword
      <4> QED
        BY <4>3, <4>5 DEF KeywordFits
    <3>3. verdict' # verdict
      BY <1>1, <1>5 DEF Refuse
    <3>4. ~MarkGiven(Keyword)
      BY <3>3 DEF MarkGiven, NextTurn
    <3> QED
      BY <3>1, <3>2, <3>4 DEF CheckKeyword, RecordGiven
  <2> QED
    BY <1>2, <1>5, <2>1, RefuseKeeps DEF ReadBinds
<1>6. CASE /\ ~IsGiven(Keyword) /\ MarkGiven(Keyword)
           /\ Keyword \in DOMAIN status \/ method.varkw
  <2>1. /\ UNCHANGED <<method, call, params>> /\ turn' = turn + 1
        /\ Args(method)' = Args(method)
    BY <1>6 DEF MarkGiven, NextTurn, Args
  <2>2. /\ \A i : ParamDone(i)' <=> ParamDone(i)
        /\ \A j : KeywordDone(j)' <=> KeywordDone(j) \/ j = j0
    BY <1>1, <1>2, <2>1, DoneAfterTurn
  <2>3. \A b : GivenByParam(b)' <=> GivenByParam(b)
    BY <2>1, <2>2 DEF GivenByParam
  <2>4. \A b : GivenByKeyword(b)' <=> GivenByKeyword(b) \/ b = Keyword
    BY <1>1, <2>1, <2>2 DEF GivenByKeyword
  <2>5. KeywordFits(params, Keyword)
    <3>1. CASE Keyword \in DOMAIN status
      <4>1. Keyword \in Names(Args(method)) /\ ~GivenByParam(Keyword)
        BY <3>1, <1>6 DEF StatusInv, IsGiven
      <4>2. PICK i \in DOMAIN Args(method) : Args(method)[i] = Keyword
        BY <4>1 DEF Names
      <4>3. i > params
        BY <4>1, <4>2, <1>2, <1>3, ArgsTypes DEF GivenByParam
      <4> QED
        BY <4>2, <4>3 DEF KeywordFits, FilledByKeyword
    <3>2. CASE Keyword \notin DOMAIN status
      BY <3>2, <1>4, <1>6 DEF KeywordFits
    <3> QED
      BY <3>1, <3>2
  <2>6. CheckedInv'
    <3>1. \A n, k : KeywordFits(n, k)' <=> KeywordFits(n, k)
      BY <2>1 DEF KeywordFits, FilledByKeyword
    <3> QED
      BY <1>1, <2>1, <2>2, <2>5, <3>1 DEF CheckedInv
  <2> QED
    BY <1>1, <1>2, <1>6, <2>3, <2>4, <2>6, MarkGivenKeeps
<1> QED
  BY <1>5, <1>6 DEF CheckKeyword, RecordGiven

\* The end of check.
LEMMA ConcludeKeeps == CheckerInv /\ Conclude => CheckerInv'
<1> SUFFICES ASSUME CheckerInv, Conclude PROVE CheckerInv'
  OBVIOUS
<1> USE DEF CheckerInv
<1>1. /\ verdict = "none" /\ turn > params + Len(call.keywords) /\ turn > 0
      /\ UNCHANGED <<method, call, params, turn, status>>
      /\ turn \in Nat /\ params \in Nat /\ Len(call.keywords) \in Nat
  BY InputTypes DEF Conclude, TypeOK
<1>2. /\ \A i : ParamDone(i) <=> i \in 1..params
      /\ \A j : KeywordDone(j) <=> j \in DOMAIN call.keywords
  BY <1>1, InputTypes DEF ParamDone, KeywordDone
<1>3. \A a : GivenByKeyword(a) <=> a \in Names(call.keywords)
  BY <1>2 DEF GivenByKeyword, Names
<1>4. CASE StillNeeded = {}
  <2>1. verdict' = "accepted"
    BY <1>4 DEF Conclude
  <2>2. ParamsFit(params)
    <3>1. CASE params = 0
      BY <3>1, ArgsTypes DEF ParamsFit
    <3>2. CASE params > 0
      <4>1. params \in DOMAIN Args(method) \/ method.varargs
        BY <3>2, <1>1, <1>2 DEF CheckedInv
      <4> QED
        BY <4>1, ArgsTypes DEF ParamsFit
    <3> QED
      BY <1>1, <3>1, <3>2
  <2>3. \A k \in Names(call.keywords) : KeywordFits(params, k)
    BY <1>2 DEF CheckedInv, Names
  <2>4. NothingNeeded(params)
    <3>1. SUFFICES ASSUME NEW i \in DOMAIN Args(method), i <= Required(method)
                   PROVE  i <= params \/ Args(method)[i] \in Names(call.keywords)
      BY DEF NothingNeeded
    <3> DEFINE a == Args(method)[i]
    <3>2. a \in Names(Args(method)) /\ a \in DOMAIN status
      BY DEF Names, StatusInv
    <3>3. InitialStatus(method)[a] = "needed"
      <4>1. i \in 1..Required(method)
        BY <3>1, ArgsTypes
      <4> QED
        BY <3>2, <4>1 DEF InitialStatus
    <3>4. status[a] = "given"
      BY <1>4, <3>2, <3>3 DEF StatusInv, StillNeeded
    <3>5. CASE GivenByKeyword(a)
      BY <1>3, <3>5
    <3>6. CASE GivenByParam(a)
      <4>1. PICK n \in DOMAIN Args(method) : ParamDone(n) /\ Args(method)[n] = a
        BY <3>6 DEF GivenByParam
      <4>2. n = i
        BY <4>1, ArgsTypes DEF Distinct
      <4> QED
        BY <4>1, <4>2, <1>2
    <3> QED
      BY <3>2, <3>4, <3>5, <3>6 DEF StatusInv
  <2>5. ReadBinds(params)
    BY <2>2, <2>3, <2>4 DEF ReadBinds
  <2>6. VerdictInv'
    BY <1>1, <2>1, <2>5, SameTurn DEF VerdictInv
  <2>7. TypeOK'
    BY <1>1, <2>1 DEF TypeOK
  <2> QED
    BY <1>1, <2>6, <2>7, SameTurn
<1>5. CASE StillNeeded # {}
  <2>1. verdict' = "AttributeError"
    BY <1>5 DEF Conclude
  <2>2. PICK a \in DOMAIN status : status[a] = "needed"
    BY <1>5 DEF StillNeeded
  <2>3. /\ ~GivenByParam(a) /\ ~GivenByKeyword(a)
        /\ a \in Names(Args(method)) /\ InitialStatus(method)[a] = "needed"
    BY <2>2 DEF StatusInv
  <2>4. PICK i \in 1..Required(method) : Args(method)[i] = a
    BY <2>3 DEF InitialStatus
  <2>5. i \in DOMAIN Args(method) /\ i <= Required(method) /\ i > params
    BY <2>3, <2>4, <1>1, <1>2, ArgsTypes DEF GivenByParam
  <2>6. ~(i <= params) /\ Args(method)[i] \notin Names(call.keywords)
    BY <2>3, <2>4, <2>5, <1>1, <1>3, ArgsTypes
  <2>7. ~ReadBinds(params)
    BY <2>5, <2>6 DEF ReadBinds, NothingNeeded
  <2>8. Refuse
    BY <1>1, <2>1 DEF Refuse
  <2> QED
    BY <1>1, <2>7, <2>8, RefuseKeeps
<1> QED
  BY <1>4, <1>5

\* Every step keeps the invariant.
LEMMA StepKeeps == CheckerInv /\ [Next]_vars => CheckerInv'
<1> SUFFICES ASSUME CheckerInv, [Next]_vars PROVE CheckerInv'
  OBVIOUS
<1>1. call.given \in Nat /\ Required(method) \in Nat
  BY InputTypes, ArgsTypes DEF CheckerInv
<1>2. CASE KeepParams
  BY <1>1, <1>2, BeginKeeps DEF KeepParams
<1>3. CASE KeepFirst
  BY <1>1, <1>3, BeginKeeps DEF KeepFirst
<1>4. CASE DropFirst
  BY <1>1, <1>4, BeginKeeps DEF DropFirst, Suspicious
<1>5. CASE ClassNotFound
  <2>1. UNCHANGED <<method, call, params, turn, status>> /\ verdict' = "KeyError" /\ method.route = "local"
    BY <1>5 DEF ClassNotFound
  <2>2. TypeOK' /\ VerdictInv'
    BY <2>1 DEF CheckerInv, TypeOK, VerdictInv
  <2> QED
    BY <2>1, <2>2, SameTurn DEF CheckerInv
<1>6. CASE UNCHANGED vars
  <2>1. UNCHANGED <<method, call, params, turn, status>> /\ verdict' = verdict
    BY <1>6 DEF vars
  <2>2. TypeOK'
    BY <2>1 DEF CheckerInv, TypeOK
  <2>3. VerdictInv'
    BY <2>1, SameTurn DEF CheckerInv, VerdictInv
  <2> QED
    BY <2>1, <2>2, <2>3, SameTurn DEF CheckerInv
<1> QED
  BY <1>2, <1>3, <1>4, <1>5, <1>6, CheckParamKeeps, CheckSurplusKeeps, CheckKeywordKeeps,
     ConcludeKeeps DEF Next

-----------------------------------------------------------------------------
\* For a method that is read right, the checker asks what Python asks.
LEMMA ReadBindsIsBinds ==
  ASSUME TypeOK, WellRead(method), NEW n \in Nat
  PROVE  ReadBinds(n) <=> Binds(method, n, Names(call.keywords))
<1>1. Args(method) = method.positional /\ Required(method) = method.needed
  BY InputTypes DEF WellRead, Args, Required, Defaults
<1>2. \A k \in Names(call.keywords) :
        KeywordFits(n, k) <=>
          \/ k \in method.named
          \/ \E i \in DOMAIN method.positional :
               i > n /\ i > method.slashed /\ method.positional[i] = k
          \/ method.varkw /\ \A i \in DOMAIN method.positional :
                              i > method.slashed => method.positional[i] # k
  BY <1>1, InputTypes DEF KeywordFits, FilledByKeyword, WellRead, Names
<1>3. NothingNeeded(n) <=>
        \A i \in 1..method.needed :
          i <= n \/ (i > method.slashed /\ method.positional[i] \in Names(call.keywords))
  BY <1>1, InputTypes DEF NothingNeeded, WellRead
<1>4. method.namedNeeded \subseteq Names(call.keywords)
  BY DEF WellRead
<1> QED
  BY <1>1, <1>2, <1>3, <1>4 DEF ReadBinds, ParamsFit, Binds

\* Taking the first parameter for the receiver loses nothing when more are given
\* than are needed.
LEMMA DroppingIsLenient ==
  ASSUME TypeOK, NEW n \in Nat, n > Required(method), ReadBinds(n)
  PROVE  ReadBinds(n - 1)
<1>1. ParamsFit(n - 1)
  BY ArgsTypes DEF ReadBinds, ParamsFit
<1>2. \A k \in Names(call.keywords) : KeywordFits(n - 1, k)
  BY ArgsTypes DEF ReadBinds, KeywordFits, FilledByKeyword
<1>3. NothingNeeded(n - 1)
  BY ArgsTypes DEF NothingNeeded
<1> QED
  BY <1>1, <1>2, <1>3 DEF ReadBinds

\* The verdict of an execution of check, in terms of the call as it was made.
LEMMA VerdictIsRight == CheckerInv => NoRightCallIsRefused /\ NoWrongCallIsRecorded
<1> SUFFICES ASSUME CheckerInv, WellRead(method)
             PROVE  /\ verdict \notin {"none", "accepted"} => ~BindsAsCalled
                    /\ verdict = "accepted" => BindsAsCalled \/ BindsUnbound
  BY DEF NoRightCallIsRefused, NoWrongCallIsRecorded
<1>1. TypeOK /\ call.given \in Nat /\ params \in Nat /\ Required(method) \in Nat
  BY InputTypes, ArgsTypes DEF CheckerInv, TypeOK
<1>2. \/ params = call.given
      \/ /\ InAClass(method) /\ call.first # "plain" /\ call.given > Required(method)
         /\ params = call.given - 1
      \/ turn = 0 /\ verdict \notin {"accepted", "AttributeError"}
  BY <1>1 DEF CheckerInv, ParamsInv, VerdictInv, TypeOK
<1>3. \A n \in Nat : ReadBinds(n) <=> Binds(method, n, Names(call.keywords))
  BY <1>1, ReadBindsIsBinds
<1>4. verdict # "KeyError"
  BY DEF CheckerInv, VerdictInv, WellRead
<1>5. ASSUME verdict = "accepted" PROVE BindsAsCalled \/ BindsUnbound
  BY <1>1, <1>2, <1>3, <1>5 DEF CheckerInv, VerdictInv, BindsAsCalled, BindsUnbound
<1>6. ASSUME verdict = "AttributeError" PROVE ~BindsAsCalled
  <2>1. ~ReadBinds(params)
    BY <1>6 DEF CheckerInv, VerdictInv
  <2>2. CASE params = call.given
    BY <1>1, <1>3, <2>1, <2>2 DEF BindsAsCalled
  <2>3. CASE call.given > Required(method) /\ params = call.given - 1
    <3>1. ~ReadBinds(call.given)
      BY <1>1, <2>1, <2>3, DroppingIsLenient
    <3> QED
      BY <1>1, <1>3, <3>1 DEF BindsAsCalled
  <2> QED
    BY <1>2, <1>6, <2>2, <2>3
<1> QED
  BY <1>1, <1>4, <1>5, <1>6 DEF TypeOK

-----------------------------------------------------------------------------
\* No call that the method would accept is turned down when it is recorded, whatever
\* its first parameter is taken for.
THEOREM RightCallsCanBeRecorded == Spec => []NoRightCallIsRefused
<1>1. CheckerInv => NoRightCallIsRefused
  BY VerdictIsRight
<1> QED
  BY <1>1, InitEstablishes, StepKeeps, PTL DEF Spec

\* Every call that is recorded is one that the method accepts, as it is or unbound.
THEOREM RecordedCallsAreRight == Spec => []NoWrongCallIsRecorded
<1>1. CheckerInv => NoWrongCallIsRecorded
  BY VerdictIsRight
<1> QED
  BY <1>1, InitEstablishes, StepKeeps, PTL DEF Spec

=============================================================================
