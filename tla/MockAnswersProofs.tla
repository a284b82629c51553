-------------------------- MODULE MockAnswersProofs --------------------------
(***************************************************************************)
(* Proofs that a mock keeps to the answers it was configured with.  What   *)
(* an expected method has returned is related to the answer it has now,    *)
(* and that can change while side effects of the same method are running:  *)
(* the invariant says that only a method with side effects is ever found   *)
(* on the stack of what is running.                                        *)
(***************************************************************************)
EXTENDS MockAnswers, SequenceTheorems, TLAPS

-----------------------------------------------------------------------------
IsSeq(s) == \E S : s \in Seq(S)

\* A sequence over something has a length.
LEMMA IsSeqLen ==
  ASSUME NEW s, IsSeq(s)
  PROVE  Len(s) \in Nat /\ DOMAIN s = 1..Len(s)
BY LenProperties DEF IsSeq

\* Anything can be appended to a sequence.
LEMMA AppendIsSeq ==
  ASSUME NEW s, IsSeq(s), NEW x
  PROVE  /\ IsSeq(Append(s, x)) /\ Len(Append(s, x)) = Len(s) + 1
         /\ \A i \in 1..Len(s) : Append(s, x)[i] = s[i]
         /\ Append(s, x)[Len(s) + 1] = x
<1>1. PICK S : s \in Seq(S)
  BY DEF IsSeq
<1>2. s \in Seq(S \cup {x})
  BY <1>1, SeqMonotonic
<1> QED
  BY <1>2, AppendProperties DEF IsSeq

\* A sequence without its last element is one.
LEMMA FrontIsSeq ==
  ASSUME NEW s, IsSeq(s), s # <<>>
  PROVE  /\ IsSeq(Front(s)) /\ Len(Front(s)) = Len(s) - 1
         /\ \A i \in 1..(Len(s) - 1) : Front(s)[i] = s[i]
         /\ Len(s) \in DOMAIN s /\ Last(s) = s[Len(s)]
<1>1. PICK S : s \in Seq(S)
  BY DEF IsSeq
<1>2. PICK last \in Nat : Len(s) = last + 1
  <2>1. Len(s) \in Nat \ {0}
    BY <1>1, EmptySeq
  <2>2. Len(s) - 1 \in Nat /\ Len(s) = (Len(s) - 1) + 1
    BY <2>1
  <2> QED
    BY <2>2
<1>3. \A n \in 1..last : s[n] \in S
  BY <1>1, <1>2, ElementOfSeq
<1>4. /\ SubSeq(s, 1, last) \in Seq(S)
      /\ Len(SubSeq(s, 1, last)) = IF 1 <= last THEN last - 1 + 1 ELSE 0
      /\ \A n \in 1..(last - 1 + 1) : SubSeq(s, 1, last)[n] = s[1 + n - 1]
  BY <1>3, SubSeqProperties
<1>5. Len(s) - 1 = last /\ Front(s) = SubSeq(s, 1, last) /\ Last(s) = s[Len(s)]
  BY <1>2 DEF Front, Last
<1>6. Len(SubSeq(s, 1, last)) = last
  BY <1>4
<1>7. \A n \in 1..last : SubSeq(s, 1, last)[n] = s[n]
  BY <1>4
<1>8. Len(s) \in DOMAIN s
  BY <1>1, <1>2, LenProperties
<1> QED
  BY <1>4, <1>5, <1>6, <1>7, <1>8 DEF IsSeq

-----------------------------------------------------------------------------
\* What is running fits the answers: side effects belong to a method that has some.
FrameFits(frame, how) ==
  frame.kind = "effects" => frame.at \in DOMAIN how /\ how[frame.at].effects = TRUE

Fits(stack, how) == IsSeq(stack) /\ \A i \in DOMAIN stack : FrameFits(stack[i], how)

\* Ending what is innermost keeps the rest.
LEMMA FitsFront ==
  ASSUME NEW stack, NEW how, Fits(stack, how), stack # <<>>
  PROVE  Fits(Front(stack), how)
<1>1. /\ IsSeq(stack) /\ IsSeq(Front(stack)) /\ Len(Front(stack)) = Len(stack) - 1
      /\ \A i \in 1..(Len(stack) - 1) : Front(stack)[i] = stack[i]
  BY FrontIsSeq DEF Fits
<1>2. /\ Len(stack) \in Nat /\ DOMAIN stack = 1..Len(stack)
      /\ DOMAIN Front(stack) = 1..(Len(stack) - 1)
  BY <1>1, IsSeqLen
<1>3. \A i \in DOMAIN Front(stack) : i \in DOMAIN stack /\ Front(stack)[i] = stack[i]
  BY <1>1, <1>2
<1> QED
  BY <1>1, <1>3 DEF Fits

\* Beginning something that fits.
LEMMA FitsAppend ==
  ASSUME NEW stack, NEW how, Fits(stack, how), NEW frame, FrameFits(frame, how)
  PROVE  Fits(Append(stack, frame), how)
<1>1. /\ IsSeq(stack) /\ IsSeq(Append(stack, frame))
      /\ Len(Append(stack, frame)) = Len(stack) + 1
      /\ \A i \in 1..Len(stack) : Append(stack, frame)[i] = stack[i]
      /\ Append(stack, frame)[Len(stack) + 1] = frame
  BY AppendIsSeq DEF Fits
<1>2. /\ Len(stack) \in Nat /\ DOMAIN stack = 1..Len(stack)
      /\ DOMAIN Append(stack, frame) = 1..(Len(stack) + 1)
  BY <1>1, IsSeqLen
<1>3. ASSUME NEW i \in DOMAIN Append(stack, frame)
      PROVE  FrameFits(Append(stack, frame)[i], how)
  <2>1. CASE i = Len(stack) + 1
    BY <1>1, <2>1
  <2>2. CASE i # Len(stack) + 1
    <3>1. i \in 1..Len(stack)
      BY <1>2, <2>2
    <3> QED
      BY <1>1, <1>2, <3>1 DEF Fits
  <2> QED
    BY <2>1, <2>2
<1> QED
  BY <1>1, <1>3 DEF Fits

\* An iteration fits whatever the answers are.
LEMMA IterationFits ==
  ASSUME NEW how, NEW index
  PROVE  FrameFits(Iteration(index), how)
BY DEF FrameFits, Iteration

\* The end of a call leaves a stack that fits.
LEMMA FitsAfter ==
  ASSUME NEW stack, NEW how, Fits(stack, how)
  PROVE  Fits(AfterValue(stack), how) /\ Fits(AfterException(stack), how)
<1>1. CASE stack # <<>> /\ Last(stack).kind = "iteration"
  BY <1>1, FitsFront, FitsAppend, IterationFits DEF AfterValue, AfterException
<1>2. CASE ~(stack # <<>> /\ Last(stack).kind = "iteration")
  BY <1>2 DEF AfterValue, AfterException
<1> QED
  BY <1>1, <1>2

\* A stack that fits some answers fits others that have side effects where those do.
LEMMA FitsMore ==
  ASSUME NEW stack, NEW how, NEW more, Fits(stack, how),
         \A m \in DOMAIN how :
           m \in DOMAIN more /\ (how[m].effects = TRUE => more[m].effects = TRUE)
  PROVE  Fits(stack, more)
BY DEF Fits, FrameFits

-----------------------------------------------------------------------------
(***************************************************************************)
(* The inductive invariant: what a method was configured with is its       *)
(* answer, and what it has returned is its answer, too.  A method that has *)
(* no answer yet has returned None, and only if it has no side effects:    *)
(* their result would be its answer otherwise.                             *)
(***************************************************************************)
Kept(answer, conf, ret) ==
  /\ conf # Unset => answer.value = conf
  /\ \A v \in ret : IF answer.value = Unset
                    THEN v = "None" /\ answer.effects = FALSE
                    ELSE v = answer.value

AnswersHold(number, how, conf, ret) ==
  /\ how \in Seq(Answer) /\ Len(how) = number
  /\ conf \in Seq(Value \cup {Unset}) /\ Len(conf) = number
  /\ ret \in Seq(SUBSET Value) /\ Len(ret) = number
  /\ \A m \in 1..number : Kept(how[m], conf[m], ret[m])

AnswersInv ==
  /\ IsSeq(methods)
  /\ AnswersHold(Len(methods), answers, configured, returned)
  /\ Fits(running, answers)

\* The invariant has both properties.
LEMMA AnswersInvImplies ==
  AnswersInv => ConfiguredValueStays /\ AnswersAgree
<1> SUFFICES ASSUME AnswersInv PROVE ConfiguredValueStays /\ AnswersAgree
  OBVIOUS
<1>1. /\ DOMAIN configured = 1..Len(methods) /\ DOMAIN returned = 1..Len(methods)
      /\ \A m \in 1..Len(methods) : Kept(answers[m], configured[m], returned[m])
  BY LenProperties DEF AnswersInv, AnswersHold
<1>2. ConfiguredValueStays
  BY <1>1 DEF ConfiguredValueStays, Kept
<1>3. AnswersAgree
  BY <1>1 DEF AnswersAgree, Kept
<1> QED
  BY <1>2, <1>3

\* A new MockMethod has no answer and has returned nothing.
LEMMA HoldsForNew ==
  ASSUME NEW number, NEW how, NEW conf, NEW ret, AnswersHold(number, how, conf, ret)
  PROVE  /\ AnswersHold(number + 1, Append(how, NoAnswer), Append(conf, Unset),
                        Append(ret, {}))
         /\ \A m \in DOMAIN how : m \in DOMAIN Append(how, NoAnswer)
                                  /\ Append(how, NoAnswer)[m] = how[m]
<1> DEFINE T == Value \cup {Unset}
<1>1. NoAnswer \in Answer /\ Unset \in T /\ {} \in SUBSET Value
  BY DEF NoAnswer, Answer
<1>2. /\ how \in Seq(Answer) /\ conf \in Seq(T) /\ ret \in Seq(SUBSET Value)
      /\ Len(how) = number /\ Len(conf) = number /\ Len(ret) = number
  BY DEF AnswersHold
<1>3. number \in Nat /\ DOMAIN how = 1..number
  BY <1>2, LenProperties
<1> HIDE DEF T
<1>4. /\ Append(how, NoAnswer) \in Seq(Answer) /\ Len(Append(how, NoAnswer)) = number + 1
      /\ \A m \in 1..number : Append(how, NoAnswer)[m] = how[m]
      /\ Append(how, NoAnswer)[number + 1] = NoAnswer
  BY <1>1, <1>2, AppendProperties
<1>5. /\ Append(conf, Unset) \in Seq(T) /\ Len(Append(conf, Unset)) = number + 1
      /\ \A m \in 1..number : Append(conf, Unset)[m] = conf[m]
      /\ Append(conf, Unset)[number + 1] = Unset
  BY <1>1, <1>2, AppendProperties
<1>6. /\ Append(ret, {}) \in Seq(SUBSET Value) /\ Len(Append(ret, {})) = number + 1
      /\ \A m \in 1..number : Append(ret, {})[m] = ret[m]
      /\ Append(ret, {})[number + 1] = {}
  BY <1>1, <1>2, AppendProperties
<1>7. ASSUME NEW m \in 1..(number + 1)
      PROVE  Kept(Append(how, NoAnswer)[m], Append(conf, Unset)[m], Append(ret, {})[m])
  <2>1. CASE m = number + 1
    BY <1>4, <1>5, <1>6, <2>1 DEF Kept
  <2>2. CASE m # number + 1
    <3>1. m \in 1..number
      BY <1>3, <2>2
    <3>2. Kept(how[m], conf[m], ret[m])
      BY <3>1 DEF AnswersHold
    <3> QED
      BY <1>4, <1>5, <1>6, <3>1, <3>2
  <2> QED
    BY <2>1, <2>2
<1>8. DOMAIN Append(how, NoAnswer) = 1..(number + 1) /\ 1..number \subseteq 1..(number + 1)
  BY <1>3, <1>4, LenProperties
<1>9. AnswersHold(number + 1, Append(how, NoAnswer), Append(conf, Unset), Append(ret, {}))
  BY <1>4, <1>5, <1>6, <1>7 DEF AnswersHold, T
<1> QED
  BY <1>3, <1>4, <1>8, <1>9

\* A method is told, or answers: the others keep what they have.
LEMMA HoldsForOne ==
  ASSUME NEW number, NEW how, NEW conf, NEW ret, AnswersHold(number, how, conf, ret),
         NEW m \in 1..number, NEW answer \in Answer, NEW value \in Value \cup {Unset},
         NEW values \in SUBSET Value, Kept(answer, value, values)
  PROVE  AnswersHold(number, [how EXCEPT ![m] = answer], [conf EXCEPT ![m] = value],
                     [ret EXCEPT ![m] = values])
<1> DEFINE T == Value \cup {Unset}
<1>1. /\ how \in Seq(Answer) /\ conf \in Seq(T) /\ ret \in Seq(SUBSET Value)
      /\ Len(how) = number /\ Len(conf) = number /\ Len(ret) = number
      /\ \A other \in 1..number : Kept(how[other], conf[other], ret[other])
  BY DEF AnswersHold
<1>2. value \in T
  OBVIOUS
<1> HIDE DEF T
<1>3. /\ [how EXCEPT ![m] = answer] \in Seq(Answer)
      /\ Len([how EXCEPT ![m] = answer]) = number
      /\ \A j \in 1..number : [how EXCEPT ![m] = answer][j] = IF j = m THEN answer ELSE how[j]
  BY <1>1, ExceptSeq
<1>4. /\ [conf EXCEPT ![m] = value] \in Seq(T)
      /\ Len([conf EXCEPT ![m] = value]) = number
      /\ \A j \in 1..number : [conf EXCEPT ![m] = value][j] = IF j = m THEN value ELSE conf[j]
  BY <1>1, <1>2, ExceptSeq
<1>5. /\ [ret EXCEPT ![m] = values] \in Seq(SUBSET Value)
      /\ Len([ret EXCEPT ![m] = values]) = number
      /\ \A j \in 1..number : [ret EXCEPT ![m] = values][j] = IF j = m THEN values ELSE ret[j]
  BY <1>1, ExceptSeq
<1>6. ASSUME NEW j \in 1..number
      PROVE  Kept([how EXCEPT ![m] = answer][j], [conf EXCEPT ![m] = value][j],
                  [ret EXCEPT ![m] = values][j])
  <2>1. CASE j = m
    BY <1>3, <1>4, <1>5, <2>1
  <2>2. CASE j # m
    BY <1>1, <1>3, <1>4, <1>5, <2>2
  <2> QED
    BY <2>1, <2>2
<1> QED
  BY <1>3, <1>4, <1>5, <1>6 DEF AnswersHold, T

\* Replacing an element of a sequence by itself.
LEMMA SameElement ==
  ASSUME NEW S, NEW s \in Seq(S), NEW m \in 1..Len(s)
  PROVE  s = [s EXCEPT ![m] = s[m]]
<1>1. s \in [1..Len(s) -> S]
  BY LenProperties
<1> QED
  BY <1>1

-----------------------------------------------------------------------------
\* Nothing is told and nothing is answered.
LEMMA NothingAnswered ==
  ASSUME AnswersInv, UNCHANGED <<methods, answers, configured, returned>>,
         Fits(running', answers)
  PROVE  AnswersInv'
BY DEF AnswersInv

\* One method is told, or answers.
LEMMA OneAnswers ==
  ASSUME AnswersInv, UNCHANGED methods, NEW m \in 1..Len(methods), NEW answer \in Answer,
         NEW value \in Value \cup {Unset}, NEW values \in SUBSET Value,
         answers' = [answers EXCEPT ![m] = answer],
         configured' = [configured EXCEPT ![m] = value],
         returned' = [returned EXCEPT ![m] = values],
         Kept(answer, value, values),
         answers[m].effects = TRUE => answer.effects = TRUE,
         Fits(running', answers)
  PROVE  AnswersInv'
<1>1. AnswersHold(Len(methods), answers', configured', returned')
  BY HoldsForOne DEF AnswersInv
<1>2. answers \in Seq(Answer) /\ Len(answers) = Len(methods)
  BY DEF AnswersInv, AnswersHold
<1>3. DOMAIN answers = 1..Len(methods) /\ DOMAIN answers' = 1..Len(methods)
  BY <1>2, LenProperties
<1>4. \A j \in 1..Len(methods) : answers'[j] = IF j = m THEN answer ELSE answers[j]
  BY <1>3
<1>5. \A j \in DOMAIN answers :
        j \in DOMAIN answers' /\ (answers[j].effects = TRUE => answers'[j].effects = TRUE)
  BY <1>3, <1>4
<1>6. Fits(running', answers')
  BY <1>5, FitsMore
<1> QED
  BY <1>1, <1>6 DEF AnswersInv

\* What the invariant says of one method.
LEMMA OneMethod ==
  ASSUME AnswersInv, NEW m \in DOMAIN methods
  PROVE  /\ m \in 1..Len(methods) /\ DOMAIN answers = 1..Len(methods)
         /\ answers[m] \in Answer /\ configured[m] \in Value \cup {Unset}
         /\ returned[m] \in SUBSET Value
         /\ Kept(answers[m], configured[m], returned[m])
         /\ answers = [answers EXCEPT ![m] = answers[m]]
         /\ configured = [configured EXCEPT ![m] = configured[m]]
         /\ returned = [returned EXCEPT ![m] = returned[m]]
<1> DEFINE T == Value \cup {Unset}
<1>1. m \in 1..Len(methods)
  BY IsSeqLen DEF AnswersInv
<1>2. /\ answers \in Seq(Answer) /\ configured \in Seq(T) /\ returned \in Seq(SUBSET Value)
      /\ Len(answers) = Len(methods) /\ Len(configured) = Len(methods)
      /\ Len(returned) = Len(methods)
      /\ Kept(answers[m], configured[m], returned[m])
  BY <1>1 DEF AnswersInv, AnswersHold
<1> HIDE DEF T
<1>3. /\ answers[m] \in Answer /\ configured[m] \in T /\ returned[m] \in SUBSET Value
      /\ DOMAIN answers = 1..Len(methods)
  BY <1>1, <1>2, ElementOfSeq, LenProperties
<1>4. /\ answers = [answers EXCEPT ![m] = answers[m]]
      /\ configured = [configured EXCEPT ![m] = configured[m]]
      /\ returned = [returned EXCEPT ![m] = returned[m]]
  BY <1>1, <1>2, SameElement
<1> QED
  BY <1>1, <1>2, <1>3, <1>4 DEF T

\* The end of a call of m, when its answer is, or has become, "answer".
LEMMA Concluded ==
  ASSUME AnswersInv, UNCHANGED <<methods, configured>>, NEW m \in DOMAIN methods,
         NEW answer \in Answer, answers' = [answers EXCEPT ![m] = answer],
         NEW stack, Fits(stack, answers), Conclude(m, answer, stack),
         Kept(answer, configured[m], returned[m]),
         answers[m].effects = TRUE => answer.effects = TRUE,
         answer.value = Unset => answer.effects = FALSE
  PROVE  AnswersInv'
<1>1. /\ m \in 1..Len(methods) /\ configured[m] \in Value \cup {Unset}
      /\ returned[m] \in SUBSET Value
      /\ configured = [configured EXCEPT ![m] = configured[m]]
      /\ returned = [returned EXCEPT ![m] = returned[m]]
  BY OneMethod
<1>2. Fits(AfterValue(stack), answers) /\ Fits(AfterException(stack), answers)
  BY FitsAfter
<1>3. CASE answer.exception # NoException
  <2>1. running' = AfterException(stack) /\ returned' = returned
    BY <1>3 DEF Conclude
  <2>2. returned' = [returned EXCEPT ![m] = returned[m]]
    BY <1>1, <2>1
  <2>3. configured' = [configured EXCEPT ![m] = configured[m]]
    BY <1>1
  <2>4. Fits(running', answers)
    BY <1>2, <2>1
  <2> QED
    BY <1>1, <2>2, <2>3, <2>4, OneAnswers
<1>4. CASE answer.exception = NoException
  <2> DEFINE value == IF answer.value = Unset THEN "None" ELSE answer.value
             values == returned[m] \cup {value}
  <2>1. running' = AfterValue(stack) /\ returned' = [returned EXCEPT ![m] = values]
    BY <1>4 DEF Conclude
  <2>2. value \in Value /\ values \in SUBSET Value
    BY <1>1, AnswersAssumption DEF Answer
  <2>3. Kept(answer, configured[m], values)
    BY DEF Kept
  <2>4. configured' = [configured EXCEPT ![m] = configured[m]]
    BY <1>1
  <2>5. Fits(running', answers)
    BY <1>2, <2>1
  <2> HIDE DEF values
  <2> QED
    BY <1>1, <2>1, <2>2, <2>3, <2>4, <2>5, OneAnswers
<1> QED
  BY <1>3, <1>4

-----------------------------------------------------------------------------
\* A call in replay mode, also one that an iteration makes.
LEMMA CallKeepsAnswers ==
  ASSUME AnswersInv, NEW name, NEW args, CallOrRefuse(name, args)
  PROVE  AnswersInv'
<1>1. ASSUME NEW m \in DOMAIN methods, Answered(name, args, m) PROVE AnswersInv'
  <2>1. UNCHANGED <<methods, answers, configured>> /\ Fits(running, answers)
    BY <1>1 DEF Answered, AnswerCall, AnswersInv
  <2>2. /\ m \in DOMAIN answers /\ answers[m] \in Answer
        /\ Kept(answers[m], configured[m], returned[m])
        /\ answers' = [answers EXCEPT ![m] = answers[m]]
    BY <2>1, OneMethod
  <2>3. CASE answers[m].effects
    <3>1. running' = Append(running, Effects(m)) /\ returned' = returned
      BY <1>1, <2>3 DEF Answered
    <3>2. FrameFits(Effects(m), answers)
      BY <2>2, <2>3 DEF FrameFits, Effects, Answer
    <3>3. Fits(running', answers)
      BY <2>1, <3>1, <3>2, FitsAppend
    <3> QED
      BY <2>1, <3>1, <3>3, NothingAnswered
  <2>4. CASE ~answers[m].effects
    <3>1. Conclude(m, answers[m], running)
      BY <1>1, <2>4 DEF Answered
    <3>2. answers[m].effects = FALSE
      BY <2>2, <2>4 DEF Answer
    <3> QED
      BY <2>1, <2>2, <3>1, <3>2, Concluded
  <2> QED
    BY <2>3, <2>4
<1>2. ASSUME Refused(name, args) PROVE AnswersInv'
  <2>1. /\ UNCHANGED <<methods, answers, configured, returned>>
        /\ running' = AfterException(running)
    BY <1>2 DEF Refused, RefuseCall
  <2>2. Fits(running', answers)
    BY <2>1, FitsAfter DEF AnswersInv
  <2> QED
    BY <2>1, <2>2, NothingAnswered
<1> QED
  BY <1>1, <1>2 DEF CallOrRefuse

\* A recorded call has a MockMethod without an answer.
LEMMA ExpectKeepsAnswers ==
  ASSUME AnswersInv, NEW name, NEW args, Expect(name, args)
  PROVE  AnswersInv'
<1>1. /\ methods' = Append(methods, NewMethod(name, args)) /\ running' = running
      /\ answers' = Append(answers, NoAnswer) /\ configured' = Append(configured, Unset)
      /\ returned' = Append(returned, {})
  BY DEF Expect, RecordCall
<1>2. IsSeq(methods') /\ Len(methods') = Len(methods) + 1
  BY <1>1, AppendIsSeq DEF AnswersInv
<1>3. /\ AnswersHold(Len(methods'), answers', configured', returned')
      /\ \A m \in DOMAIN answers : m \in DOMAIN answers' /\ answers'[m] = answers[m]
  BY <1>1, <1>2, HoldsForNew DEF AnswersInv
<1>4. Fits(running', answers')
  BY <1>1, <1>3, FitsMore DEF AnswersInv
<1> QED
  BY <1>2, <1>3, <1>4 DEF AnswersInv

\* Telling a method how to answer forgets what it has returned.
LEMMA TellingKeepsAnswers ==
  ASSUME AnswersInv, NEW m \in DOMAIN methods,
         \/ WithSideEffects(m)
         \/ \E v \in Value : Returns(m, v)
         \/ \E e \in Exceptions : Raises(m, e)
  PROVE  AnswersInv'
<1>1. /\ m \in 1..Len(methods) /\ answers[m] \in Answer
      /\ configured[m] \in Value \cup {Unset}
      /\ Kept(answers[m], configured[m], returned[m])
      /\ configured = [configured EXCEPT ![m] = configured[m]]
  BY OneMethod
<1>2. ASSUME WithSideEffects(m) \/ (\E v \in Value : Returns(m, v))
                 \/ (\E e \in Exceptions : Raises(m, e))
      PROVE  /\ methods' = methods /\ returned' = [returned EXCEPT ![m] = {}]
             /\ Fits(running', answers)
  BY <1>2 DEF WithSideEffects, Returns, Raises, Told, MockUnchanged, AnswersInv
<1>3. CASE WithSideEffects(m)
  <2> DEFINE answer == [answers[m] EXCEPT !.effects = TRUE]
  <2>1. answers' = [answers EXCEPT ![m] = answer] /\ configured' = configured
    BY <1>3 DEF WithSideEffects
  <2>2. answer \in Answer /\ Kept(answer, configured[m], {}) /\ answer.effects = TRUE
    BY <1>1 DEF Answer, Kept
  <2> HIDE DEF answer
  <2> QED
    BY <1>1, <1>2, <1>3, <2>1, <2>2, OneAnswers
<1>4. CASE \E v \in Value : Returns(m, v)
  <2>1. PICK v \in Value : Returns(m, v)
    BY <1>4
  <2> DEFINE answer == [answers[m] EXCEPT !.value = v]
  <2>2. /\ answers' = [answers EXCEPT ![m] = answer]
        /\ configured' = [configured EXCEPT ![m] = v]
    BY <2>1 DEF Returns
  <2>3. /\ answer \in Answer /\ Kept(answer, v, {})
        /\ (answers[m].effects = TRUE => answer.effects = TRUE)
    BY <1>1 DEF Answer, Kept
  <2> HIDE DEF answer
  <2> QED
    BY <1>1, <1>2, <1>4, <2>2, <2>3, OneAnswers
<1>5. CASE \E e \in Exceptions : Raises(m, e)
  <2>1. PICK e \in Exceptions : Raises(m, e)
    BY <1>5
  <2> DEFINE answer == [answers[m] EXCEPT !.exception = e]
  <2>2. answers' = [answers EXCEPT ![m] = answer] /\ configured' = configured
    BY <2>1 DEF Raises
  <2>3. /\ answer \in Answer /\ Kept(answer, configured[m], {})
        /\ (answers[m].effects = TRUE => answer.effects = TRUE)
    BY <1>1 DEF Answer, Kept
  <2> HIDE DEF answer
  <2> QED
    BY <1>1, <1>2, <1>5, <2>2, <2>3, OneAnswers
<1> QED
  BY <1>3, <1>4, <1>5

\* The result of the innermost side effects: it becomes the answer only when there
\* was none, and then the method has returned nothing.
LEMMA ResultKeepsAnswers ==
  ASSUME AnswersInv, NEW v \in Value, EffectsReturn(v)
  PROVE  AnswersInv'
<1> DEFINE m == Last(running).at
           answer == Cached(m, v)
<1>1. /\ UNCHANGED <<methods, configured>>
      /\ answers' = [answers EXCEPT ![m] = answer]
      /\ Conclude(m, answer, Front(running))
      /\ running # <<>> /\ Last(running).kind = "effects"
  BY DEF EffectsReturn, MockUnchanged, TopIs, AnswerAfter
<1>2. Fits(running, answers) /\ IsSeq(running)
  BY DEF AnswersInv, Fits
<1>3. FrameFits(Last(running), answers) /\ Fits(Front(running), answers)
  <2>1. Len(running) \in DOMAIN running /\ Last(running) = running[Len(running)]
    BY <1>1, <1>2, FrontIsSeq
  <2> QED
    BY <1>1, <1>2, <2>1, FitsFront DEF Fits
<1>4. m \in DOMAIN answers /\ answers[m].effects = TRUE
  BY <1>1, <1>3 DEF FrameFits
<1>5. m \in DOMAIN methods
  BY <1>4, IsSeqLen, LenProperties DEF AnswersInv, AnswersHold
<1>6. answers[m] \in Answer /\ Kept(answers[m], configured[m], returned[m])
  BY <1>5, OneMethod
<1>7. /\ answer \in Answer /\ answer.effects = TRUE /\ answer.value # Unset
      /\ (answers[m].value # Unset => answer.value = answers[m].value)
  BY <1>4, <1>6, AnswersAssumption DEF Cached, Answer
<1>8. Kept(answer, configured[m], returned[m])
  BY <1>4, <1>6, <1>7 DEF Kept
<1> HIDE DEF m, answer
<1> QED
  BY <1>1, <1>3, <1>5, <1>7, <1>8, Concluded

\* Every step.
LEMMA StepKeepsAnswers ==
  AnswersInv /\ [AnswersNext]_answersVars => AnswersInv'
<1> SUFFICES ASSUME AnswersInv, [AnswersNext]_answersVars PROVE AnswersInv'
  OBVIOUS
<1>1. Fits(running, answers)
  BY DEF AnswersInv
<1>2. CASE \E name \in Name, args \in Args : Expect(name, args)
  BY <1>2, ExpectKeepsAnswers
<1>3. CASE \E kind \in GroupKind, g \in Group : ExpectInGroup(kind, g)
  BY <1>1, <1>3, NothingAnswered DEF ExpectInGroup, Regroup
<1>4. CASE \E m \in DOMAIN methods :
             \/ WithSideEffects(m)
             \/ \E v \in Value : Returns(m, v)
             \/ \E e \in Exceptions : Raises(m, e)
  BY <1>4, TellingKeepsAnswers
<1>5. CASE StartReplay
  BY <1>1, <1>5, NothingAnswered DEF StartReplay, Replay
<1>6. CASE \E name \in Name, args \in Args : Call(name, args)
  BY <1>6, CallKeepsAnswers DEF Call
<1>7. CASE \E name \in Container : NotSupported(name)
  BY <1>1, <1>7, NothingAnswered DEF NotSupported
<1>8. CASE \E v \in Value : EffectsReturn(v)
  BY <1>8, ResultKeepsAnswers
<1>9. CASE EffectsRaise
  <2>1. /\ UNCHANGED <<methods, answers, configured, returned>>
        /\ running' = AfterException(Front(running)) /\ running # <<>>
    BY <1>9 DEF EffectsRaise, MockUnchanged, TopIs
  <2>2. Fits(running', answers)
    BY <1>1, <2>1, FitsFront, FitsAfter
  <2> QED
    BY <2>1, <2>2, NothingAnswered
<1>10. CASE Iterate
  <2>1. /\ UNCHANGED <<methods, answers, configured, returned>>
        /\ running' = Append(running, Iteration(0))
    BY <1>10 DEF Iterate, MockUnchanged
  <2>2. Fits(running', answers)
    BY <1>1, <2>1, IterationFits, FitsAppend
  <2> QED
    BY <2>1, <2>2, NothingAnswered
<1>11. CASE NextItem
  BY <1>11, CallKeepsAnswers DEF NextItem
<1>12. CASE UNCHANGED answersVars
  BY <1>1, <1>12, NothingAnswered DEF answersVars
<1> QED
  BY <1>2, <1>3, <1>4, <1>5, <1>6, <1>7, <1>8, <1>9, <1>10, <1>11, <1>12 DEF AnswersNext

\* At first there is no method.
LEMMA FirstAnswers == AnswersInit => AnswersInv
<1> SUFFICES ASSUME AnswersInit PROVE AnswersInv
  OBVIOUS
<1>1. /\ methods = <<>> /\ answers = <<>> /\ running = <<>>
      /\ configured = <<>> /\ returned = <<>>
  BY DEF AnswersInit, Init
<1>2. \A S : <<>> \in Seq(S) /\ Len(<<>>) = 0 /\ 1..0 = {} /\ DOMAIN <<>> = {}
  BY EmptySeq
<1>3. IsSeq(<<>>)
  BY <1>2 DEF IsSeq
<1> QED
  BY <1>1, <1>2, <1>3 DEF AnswersInv, AnswersHold, Fits

\* The invariant always holds.
LEMMA AnswersAlwaysHold == AnswersSpec => []AnswersInv
BY FirstAnswers, StepKeepsAnswers, PTL DEF AnswersSpec

\* Whatever side effects return, however their calls are nested and whenever a method
\* is told another answer, what returns was last given is the answer (_UNSET in
\* MockMethod.__call__).
THEOREM ConfiguredValueAlwaysStays == AnswersSpec => []ConfiguredValueStays
<1>1. AnswersInv => ConfiguredValueStays
  BY AnswersInvImplies
<1> QED
  BY <1>1, AnswersAlwaysHold, PTL

\* An expected method gives all its calls one answer until it is told another one,
\* also the calls that its own side effects make (the cache in MockMethod.__call__).
THEOREM AnswersAlwaysAgree == AnswersSpec => []AnswersAgree
<1>1. AnswersInv => AnswersAgree
  BY AnswersInvImplies
<1> QED
  BY <1>1, AnswersAlwaysHold, PTL

=============================================================================
