--------------------------- MODULE ScannerProofs ---------------------------
(***************************************************************************)
(* Lemmas about the operators of Scanner and of JsonGrammar, which the     *)
(* proofs about WalkAndNotify and about the recogniser rest on.            *)
(***************************************************************************)
EXTENDS JsonGrammar, SequenceTheorems, TLAPS

(***************************************************************************)
(* What a well formed scanner answers, whatever the byte.                  *)
(***************************************************************************)

Scanners == [step : Steps, parseState : Seq(Contexts), endTop : BOOLEAN, err : BOOLEAN,
             op : Opcodes]

StringStates == {"stateInString", "stateInStringEsc"} \cup HexStates

(* WellFormed without what depends on the state function.                  *)
Base(s) ==
  /\ s \in Scanners
  /\ \A n \in 1..Len(s.parseState) - 1 : s.parseState[n] # "parseObjectKey"

(* r is a proper answer of a scanner s: it is well formed, waits for a key *)
(* behind a string only if s did, or if the string begins with this byte,  *)
(* and reports a key only behind a string.                                 *)
Answers(s, r) ==
  /\ WellFormed(r)
  /\ InKey(r) /\ r.step \in StringStates
       => r.op = "scanBeginLiteral" \/ (InKey(s) /\ s.step \in StringStates)
  /\ InKey(r) /\ r.step = "stateEndValue"
       => InKey(s) /\ s.step \in StringStates \cup {"stateEndValue"} /\ r.op # "scanBeginLiteral"
  /\ r.op = "scanObjectKey"
       => InKey(s) /\ s.step = "stateEndValue" /\ r.parseState # <<>>

----------------------------------------------------------------------------
(* A stack that is not empty has a top.                                    *)
LEMMA HasTop ==
  ASSUME NEW stack \in Seq(Contexts), stack # <<>>
  PROVE  Len(stack) \in Nat \ {0} /\ stack[Len(stack)] \in Contexts
  BY EmptySeq, LenProperties, ElementOfSeq

LEMMA WellFormedBase == ASSUME NEW s, WellFormed(s) PROVE Base(s)
  BY DEF WellFormed, Base, Scanners

LEMMA PopLeaves ==
  ASSUME NEW s, Base(s), s.parseState # <<>>
  PROVE  /\ Base(Pop(s))
         /\ ~InKey(Pop(s))
         /\ Pop(s).step \in {"stateEndTop", "stateEndValue"}
<1> DEFINE stack == s.parseState
           rest == SubSeq(stack, 1, Len(stack) - 1)
<1>1. stack \in Seq(Contexts) /\ Len(stack) \in Nat \ {0}
  BY HasTop DEF Base, Scanners
<1>2. \A n \in 1..Len(stack) - 1 : stack[n] \in Contexts
  BY <1>1, ElementOfSeq
<1>3. /\ rest \in Seq(Contexts)
      /\ Len(rest) = Len(stack) - 1
      /\ \A n \in 1..Len(stack) - 1 : rest[n] = stack[n]
  <2>1. /\ rest \in Seq(Contexts)
        /\ Len(rest) = IF 1 <= Len(stack) - 1 THEN (Len(stack) - 1) - 1 + 1 ELSE 0
        /\ \A n \in 1..(Len(stack) - 1) - 1 + 1 : rest[n] = stack[1 + n - 1]
    BY <1>1, <1>2, SubSeqProperties
  <2> QED BY <1>1, <2>1
<1>4. \A n \in 1..Len(rest) : rest[n] # "parseObjectKey"
  BY <1>1, <1>3 DEF Base
<1>5. /\ Pop(s) \in Scanners
      /\ Pop(s).parseState = rest
      /\ Pop(s).step \in {"stateEndTop", "stateEndValue"}
  BY <1>3 DEF Pop, Base, Scanners, Steps
<1>6. \A n \in 1..Len(rest) - 1 : rest[n] # "parseObjectKey"  BY <1>1, <1>3, <1>4
<1> HIDE DEF stack, rest
<1>7. ASSUME rest # <<>> PROVE rest[Len(rest)] # "parseObjectKey"
  <2>1. Len(rest) \in Nat \ {0}  BY <1>3, <1>7, HasTop
  <2> QED  BY <1>4, <2>1
<1>8. Base(Pop(s))  BY <1>5, <1>6 DEF Base
<1>9. ~InKey(Pop(s))  BY <1>5, <1>7 DEF InKey, Top
<1> QED BY <1>5, <1>8, <1>9

LEMMA SetTopLeaves ==
  ASSUME NEW s, Base(s), s.parseState # <<>>, NEW context \in Contexts
  PROVE  /\ Base(SetTop(s, context))
         /\ SetTop(s, context).parseState # <<>>
         /\ Top(SetTop(s, context)) = context
<1> DEFINE stack == s.parseState
           new == [stack EXCEPT ![Len(stack)] = context]
<1>1. stack \in Seq(Contexts) /\ Len(stack) \in Nat \ {0}
  BY HasTop DEF Base, Scanners
<1>2. /\ new \in Seq(Contexts)
      /\ Len(new) = Len(stack)
      /\ \A n \in 1..Len(stack) : new[n] = IF n = Len(stack) THEN context ELSE stack[n]
  BY <1>1, ExceptSeq
<1>3. SetTop(s, context) \in Scanners /\ SetTop(s, context).parseState = new
  BY <1>2 DEF SetTop, Base, Scanners
<1>4. new # <<>> BY <1>1, <1>2, EmptySeq
<1> QED BY <1>1, <1>2, <1>3, <1>4 DEF Base, Top

LEMMA PushLeaves ==
  ASSUME NEW s, Base(s), ~InKey(s), NEW context \in Contexts
  PROVE  /\ Base(Push(s, context))
         /\ Push(s, context).parseState # <<>>
         /\ Top(Push(s, context)) = context
<1> DEFINE stack == s.parseState
           new == Append(stack, context)
<1>1. stack \in Seq(Contexts) BY DEF Base, Scanners
<1>2. /\ new \in Seq(Contexts)
      /\ new # <<>>
      /\ Len(new) = Len(stack) + 1
      /\ \A n \in 1..Len(stack) : new[n] = stack[n]
      /\ new[Len(stack) + 1] = context
  BY <1>1, AppendProperties
<1>3. Push(s, context) \in Scanners /\ Push(s, context).parseState = new
  BY <1>2 DEF Push, Base, Scanners
<1>4. \A n \in 1..Len(stack) : stack[n] # "parseObjectKey"
  <2>1. CASE stack = <<>> BY <2>1
  <2>2. CASE stack # <<>> BY <2>2, <1>1, HasTop DEF Base, InKey, Top
  <2> QED BY <2>1, <2>2
<1> QED BY <1>1, <1>2, <1>3, <1>4, LenProperties DEF Base, Top

----------------------------------------------------------------------------
(* The answers of the state functions.  To, Stay and Error change nothing  *)
(* that Base speaks of.                                                    *)
LEMMA ToLeaves ==
  ASSUME NEW s, Base(s), NEW step \in Steps, NEW op \in Opcodes
  PROVE  /\ Base(To(s, step, op))
         /\ To(s, step, op).parseState = s.parseState
         /\ To(s, step, op).step = step
         /\ To(s, step, op).op = op
         /\ InKey(To(s, step, op)) <=> InKey(s)
<1>1. /\ To(s, step, op) \in Scanners
      /\ To(s, step, op).parseState = s.parseState
      /\ To(s, step, op).step = step
      /\ To(s, step, op).op = op
  BY DEF Base, Scanners, To
<1> HIDE DEF To
<1> QED BY <1>1 DEF Base, InKey, Top

LEMMA StayIsTo ==
  ASSUME NEW s, Base(s), NEW op \in Opcodes
  PROVE  Stay(s, op) = To(s, s.step, op) /\ s.step \in Steps
  BY DEF Base, Scanners, Stay, To

(* A scanner t with the stack of the answer gives a proper one to s if it  *)
(* goes on in a state that agrees with its stack.                          *)
LEMMA ToAnswers ==
  ASSUME NEW s, NEW t, Base(t), NEW step \in Steps, NEW op \in Opcodes,
         step \in {"stateBeginString", "stateBeginStringOrEmpty"} => InKey(t),
         step \in {"stateBeginValue", "stateBeginValueOrEmpty"} \cup NumberStates \cup WordStates
           => ~InKey(t),
         InKey(t) /\ step \in StringStates
           => op = "scanBeginLiteral" \/ (InKey(s) /\ s.step \in StringStates),
         InKey(t) /\ step = "stateEndValue"
           => InKey(s) /\ s.step \in StringStates \cup {"stateEndValue"}
                /\ op # "scanBeginLiteral",
         op = "scanObjectKey"
           => InKey(s) /\ s.step = "stateEndValue" /\ t.parseState # <<>>
  PROVE  Answers(s, To(t, step, op))
<1> DEFINE r == To(t, step, op)
<1>1. /\ Base(r) /\ r.parseState = t.parseState /\ r.step = step /\ r.op = op
      /\ InKey(r) <=> InKey(t)
  BY ToLeaves
<1> HIDE DEF r
<1>2. WellFormed(r) BY <1>1 DEF WellFormed, Base, Scanners
<1> QED BY <1>1, <1>2 DEF Answers, r

LEMMA ErrorAnswers ==
  ASSUME NEW s, Base(s)
  PROVE  Answers(s, Error(s))
<1> DEFINE r == Error(s)
<1>1. /\ r \in Scanners /\ r.parseState = s.parseState
      /\ r.step = "stateError" /\ r.op = "scanError"
  BY DEF Base, Scanners, Error, Steps, Opcodes
<1> HIDE DEF r
<1>2. WellFormed(r)
  BY <1>1 DEF Base, WellFormed, Scanners, NumberStates, WordStates
<1> QED BY <1>1, <1>2 DEF Answers, StringStates, HexStates, r

(* What follows a value is an error, a space, or ends it.                  *)
LEMMA EndTopAnswers ==
  ASSUME NEW s, Base(s), s.step = "stateEndTop", NEW c
  PROVE  Answers(s, StateEndTop(s, c))
<1>1. CASE c \in Space
  <2>1. StateEndTop(s, c) = To(s, "stateEndTop", "scanEnd")
    BY <1>1, StayIsTo DEF StateEndTop, Opcodes
  <2> QED BY <2>1, ToAnswers
          DEF Steps, Opcodes, StringStates, HexStates, NumberStates, WordStates
<1>2. CASE c \notin Space
  <2> DEFINE r == StateEndTop(s, c)
  <2>1. /\ r \in Scanners /\ r.parseState = s.parseState
        /\ r.step = "stateError" /\ r.op = "scanEnd"
    BY <1>2 DEF Base, Scanners, StateEndTop, Error, Steps, Opcodes
  <2> HIDE DEF r
  <2>2. WellFormed(r)
    BY <2>1 DEF Base, WellFormed, Scanners, NumberStates, WordStates
  <2> QED BY <2>1, <2>2 DEF Answers, StringStates, HexStates, r
<1> QED BY <1>1, <1>2

LEMMA EndValueAnswers ==
  ASSUME NEW s, Base(s), s.step = "stateEndValue" \/ ~InKey(s), NEW c
  PROVE  Answers(s, StateEndValue(s, c))
<1> USE DEF StringStates, HexStates, NumberStates, WordStates
<1>1. CASE s.parseState = <<>>
  <2> DEFINE t == [s EXCEPT !.step = "stateEndTop", !.endTop = TRUE]
             r == StateEndTop(t, c)
  <2>1. Base(t) /\ t.step = "stateEndTop" /\ t.parseState = <<>>
    BY <1>1 DEF Base, Scanners, Steps
  <2>2. StateEndValue(s, c) = r BY <1>1 DEF StateEndValue
  <2>3. r.op = "scanEnd" /\ r.parseState = <<>>
    BY <2>1 DEF StateEndTop, Stay, Error, Base, Scanners
  <2> HIDE DEF t
  <2>4. Answers(t, r) BY <2>1, EndTopAnswers
  <2> HIDE DEF r
  <2> QED BY <2>2, <2>3, <2>4 DEF Answers, InKey
<1>2. CASE s.parseState # <<>>
  <2>1. CASE c \in Space
    <3>1. StateEndValue(s, c) = To(s, "stateEndValue", "scanSkipSpace")
      BY <1>2, <2>1 DEF StateEndValue, Space
    <3> QED BY <3>1, ToAnswers DEF Steps, Opcodes
  <2>2. CASE c = ":" /\ Top(s) = "parseObjectKey"
    <3> DEFINE t == SetTop(s, "parseObjectValue")
    <3>1. StateEndValue(s, c) = To(t, "stateBeginValue", "scanObjectKey")
      BY <1>2, <2>2 DEF StateEndValue, Space
    <3>2. Base(t) /\ t.parseState # <<>> /\ ~InKey(t)
      BY <1>2, SetTopLeaves DEF Contexts, InKey
    <3>3. InKey(s) /\ s.step = "stateEndValue" BY <1>2, <2>2 DEF InKey
    <3> HIDE DEF t
    <3> QED BY <3>1, <3>2, <3>3, ToAnswers DEF Steps, Opcodes
  <2>3. CASE c = "," /\ Top(s) = "parseObjectValue"
    <3> DEFINE t == SetTop(s, "parseObjectKey")
    <3>1. StateEndValue(s, c) = To(t, "stateBeginString", "scanObjectValue")
      BY <1>2, <2>3 DEF StateEndValue, Space
    <3>2. Base(t) /\ InKey(t)
      BY <1>2, SetTopLeaves DEF Contexts, InKey
    <3> HIDE DEF t
    <3> QED BY <3>1, <3>2, ToAnswers DEF Steps, Opcodes
  <2>4. CASE c = "," /\ Top(s) = "parseArrayValue"
    <3>1. StateEndValue(s, c) = To(s, "stateBeginValue", "scanArrayValue")
      BY <1>2, <2>4 DEF StateEndValue, Space
    <3>2. ~InKey(s) BY <2>4 DEF InKey
    <3> QED BY <3>1, <3>2, ToAnswers DEF Steps, Opcodes
  <2>5. CASE (c = "}" /\ Top(s) = "parseObjectValue") \/ (c = "]" /\ Top(s) = "parseArrayValue")
    <3> DEFINE t == Pop(s)
    <3>1. Base(t) /\ ~InKey(t) /\ t.step \in {"stateEndTop", "stateEndValue"}
      BY <1>2, PopLeaves
    <3>2. PICK op \in {"scanEndObject", "scanEndArray"} : StateEndValue(s, c) = Stay(t, op)
      BY <1>2, <2>5 DEF StateEndValue, Space
    <3> HIDE DEF t
    <3>3. StateEndValue(s, c) = To(t, t.step, op) BY <3>1, <3>2, StayIsTo DEF Opcodes
    <3> QED BY <3>1, <3>3, ToAnswers DEF Steps, Opcodes
  <2>6. CASE /\ c \notin Space
             /\ ~(c = ":" /\ Top(s) = "parseObjectKey")
             /\ ~(c = "," /\ Top(s) \in {"parseObjectValue", "parseArrayValue"})
             /\ ~(c = "}" /\ Top(s) = "parseObjectValue")
             /\ ~(c = "]" /\ Top(s) = "parseArrayValue")
    <3>1. StateEndValue(s, c) = Error(s) BY <1>2, <2>6 DEF StateEndValue
    <3> QED BY <3>1, ErrorAnswers
  <2> QED BY <2>1, <2>2, <2>3, <2>4, <2>5, <2>6
<1> QED BY <1>1, <1>2

(* The states before a value or a key.                                     *)
LEMMA BeginValueAnswers ==
  ASSUME NEW s, Base(s), ~InKey(s), s.step \in {"stateBeginValue", "stateBeginValueOrEmpty"},
         NEW c
  PROVE  Answers(s, StateBeginValue(s, c))
<1> USE DEF StringStates, HexStates, NumberStates, WordStates
<1>1. CASE c \in Space
  <2>1. StateBeginValue(s, c) = To(s, s.step, "scanSkipSpace") /\ s.step \in Steps
    BY <1>1, StayIsTo DEF StateBeginValue, Opcodes, Space, Literals
  <2> QED BY <2>1, ToAnswers DEF Opcodes
<1>2. CASE c = "{"
  <2> DEFINE t == Push(s, "parseObjectKey")
  <2>1. StateBeginValue(s, c) = To(t, "stateBeginStringOrEmpty", "scanBeginObject")
    BY <1>2 DEF StateBeginValue, Space, Literals
  <2>2. Base(t) /\ InKey(t) BY PushLeaves DEF Contexts, InKey
  <2> HIDE DEF t
  <2> QED BY <2>1, <2>2, ToAnswers DEF Steps, Opcodes
<1>3. CASE c = "["
  <2> DEFINE t == Push(s, "parseArrayValue")
  <2>1. StateBeginValue(s, c) = To(t, "stateBeginValueOrEmpty", "scanBeginArray")
    BY <1>3 DEF StateBeginValue, Space, Literals
  <2>2. Base(t) /\ ~InKey(t) BY PushLeaves DEF Contexts, InKey
  <2> HIDE DEF t
  <2> QED BY <2>1, <2>2, ToAnswers DEF Steps, Opcodes
<1>4. CASE c \in Literals
  <2>1. StateBeginValue(s, c) = To(s, BeginLiteral(c), "scanBeginLiteral")
    BY <1>4 DEF StateBeginValue, Space, Literals
  <2>2. BeginLiteral(c) \in {"stateInString", "stateNeg", "state0", "state1", "stateT",
                             "stateF", "stateN"}
    BY <1>4 DEF BeginLiteral, Literals
  <2> QED BY <2>1, <2>2, ToAnswers DEF Steps, Opcodes
<1>5. CASE c \notin Space \cup Literals \cup {"{", "["}
  <2>1. StateBeginValue(s, c) = Error(s) BY <1>5 DEF StateBeginValue
  <2> QED BY <2>1, ErrorAnswers
<1> QED BY <1>1, <1>2, <1>3, <1>4, <1>5

LEMMA BeginStringAnswers ==
  ASSUME NEW s, Base(s), InKey(s),
         s.step \in {"stateBeginString", "stateBeginStringOrEmpty"}, NEW c
  PROVE  Answers(s, StateBeginString(s, c))
<1> USE DEF StringStates, HexStates, NumberStates, WordStates
<1>1. CASE c \in Space
  <2>1. StateBeginString(s, c) = To(s, s.step, "scanSkipSpace") /\ s.step \in Steps
    BY <1>1, StayIsTo DEF StateBeginString, Opcodes, Space
  <2> QED BY <2>1, ToAnswers DEF Opcodes
<1>2. CASE c = "\""
  <2>1. StateBeginString(s, c) = To(s, "stateInString", "scanBeginLiteral")
    BY <1>2 DEF StateBeginString, Space
  <2> QED BY <2>1, ToAnswers DEF Steps, Opcodes
<1>3. CASE c \notin Space \cup {"\""}
  <2>1. StateBeginString(s, c) = Error(s) BY <1>3 DEF StateBeginString
  <2> QED BY <2>1, ErrorAnswers
<1> QED BY <1>1, <1>2, <1>3

(* An empty object: its context becomes that of a value before it is left. *)
LEMMA BeginStringOrEmptyAnswers ==
  ASSUME NEW s, Base(s), InKey(s), s.step = "stateBeginStringOrEmpty", NEW c
  PROVE  Answers(s, StateBeginStringOrEmpty(s, c))
<1>1. CASE c = "}"
  <2> DEFINE t == SetTop(s, "parseObjectValue")
             r == StateEndValue(t, c)
  <2>1. StateBeginStringOrEmpty(s, c) = r BY <1>1 DEF StateBeginStringOrEmpty
  <2>2. Base(t) /\ ~InKey(t) BY SetTopLeaves DEF Contexts, InKey
  <2> HIDE DEF t
  <2>3. Answers(t, r) BY <2>2, EndValueAnswers
  <2> HIDE DEF r
  <2> QED BY <2>1, <2>2, <2>3 DEF Answers
<1>2. CASE c # "}"
  <2>1. StateBeginStringOrEmpty(s, c) = StateBeginString(s, c)
    BY <1>2 DEF StateBeginStringOrEmpty
  <2> QED BY <2>1, BeginStringAnswers
<1> QED BY <1>1, <1>2

(* A string goes on, ends or is in error.                                  *)
LEMMA StringGoesOn ==
  ASSUME NEW s, Base(s), s.step \in StringStates, NEW r,
         \/ r = Error(s)
         \/ \E step \in StringStates \cup {"stateEndValue"} : r = To(s, step, "scanContinue")
  PROVE  Answers(s, r)
<1>1. ASSUME NEW step \in StringStates \cup {"stateEndValue"}
      PROVE  Answers(s, To(s, step, "scanContinue"))
  <2>1. step \in Steps BY DEF StringStates, Steps
  <2> QED BY <2>1, ToAnswers DEF Opcodes, StringStates, HexStates, NumberStates, WordStates
<1> QED BY <1>1, ErrorAnswers

(* The states inside of a string.                                          *)
LEMMA StringAnswers ==
  ASSUME NEW s, Base(s), s.step \in StringStates, NEW c
  PROVE  Answers(s, Step(s, c))
<1> DEFINE Proper(r) == \/ r = Error(s)
                        \/ \E step \in StringStates \cup {"stateEndValue"} :
                             r = To(s, step, "scanContinue")
<1> USE DEF StringStates, HexStates
<1>1. CASE s.step = "stateInString"
  <2>1. Step(s, c) = StateInString(s, c) BY <1>1 DEF Step, WordStates
  <2>2. Stay(s, "scanContinue") = To(s, "stateInString", "scanContinue")
    BY <1>1, StayIsTo DEF Opcodes
  <2>3. Proper(StateInString(s, c)) BY <2>2 DEF StateInString
  <2> QED BY <2>1, <2>3, StringGoesOn
<1>2. CASE s.step = "stateInStringEsc"
  <2>1. Step(s, c) = StateInStringEsc(s, c) BY <1>2 DEF Step, WordStates
  <2>2. Proper(StateInStringEsc(s, c)) BY DEF StateInStringEsc
  <2> QED BY <2>1, <2>2, StringGoesOn
<1>3. CASE s.step \in HexStates
  <2>1. Step(s, c) = StateInStringEscU(s, c) BY <1>3 DEF Step, WordStates
  <2>2. AfterHex[s.step] \in StringStates BY <1>3 DEF AfterHex
  <2>3. Proper(StateInStringEscU(s, c)) BY <2>2 DEF StateInStringEscU
  <2> QED BY <2>1, <2>3, StringGoesOn
<1> QED BY <1>1, <1>2, <1>3

(* The states inside of a number or a literal word go on in one of them,   *)
(* end the value or fail.                                                  *)
LEMMA ScalarAnswers ==
  ASSUME NEW s, Base(s), ~InKey(s), NEW c, NEW r,
         \/ r = Error(s)
         \/ r = StateEndValue(s, c)
         \/ \E step \in NumberStates \cup WordStates \cup {"stateEndValue"} :
              r = To(s, step, "scanContinue")
  PROVE  Answers(s, r)
<1>1. ASSUME NEW step \in NumberStates \cup WordStates \cup {"stateEndValue"}
      PROVE  Answers(s, To(s, step, "scanContinue"))
  <2>1. step \in Steps BY DEF Steps
  <2> QED BY <2>1, ToAnswers
          DEF Opcodes, StringStates, HexStates, NumberStates, WordStates
<1> QED BY <1>1, ErrorAnswers, EndValueAnswers

LEMMA NumberAnswers ==
  ASSUME NEW s, Base(s), ~InKey(s), s.step \in NumberStates, NEW c
  PROVE  Answers(s, Step(s, c))
<1> DEFINE Continues(r) == \E step \in NumberStates : r = To(s, step, "scanContinue")
           Proper(r) == r = Error(s) \/ r = StateEndValue(s, c) \/ Continues(r)
<1>1. Continues(Stay(s, "scanContinue")) BY StayIsTo DEF Opcodes
<1>2. ASSUME NEW step \in {"state0", "state1", "stateDot", "stateDot0", "stateE",
                           "stateESign", "stateE0"}
      PROVE  Continues(To(s, step, "scanContinue"))
  BY DEF NumberStates
<1> HIDE DEF Continues
<1>3. Proper(StateNeg(s, c)) BY <1>2 DEF StateNeg
<1>4. Proper(State0(s, c)) BY <1>2 DEF State0
<1>5. Proper(State1(s, c)) BY <1>1, <1>4 DEF State1
<1>6. Proper(StateDot(s, c)) BY <1>2 DEF StateDot
<1>7. Proper(StateDot0(s, c)) BY <1>1, <1>2 DEF StateDot0
<1>8. Proper(StateESign(s, c)) BY <1>2 DEF StateESign
<1>9. Proper(StateE(s, c)) BY <1>2, <1>8 DEF StateE
<1>10. Proper(StateE0(s, c)) BY <1>1 DEF StateE0
<1>11. Step(s, c) \in {StateNeg(s, c), State0(s, c), State1(s, c), StateDot(s, c),
                       StateDot0(s, c), StateE(s, c), StateESign(s, c), StateE0(s, c)}
  BY DEF Step, NumberStates, HexStates, WordStates
<1>12. Proper(Step(s, c))
  BY <1>3, <1>4, <1>5, <1>6, <1>7, <1>8, <1>9, <1>10, <1>11
<1> QED BY <1>12, ScalarAnswers DEF Continues

LEMMA WordAnswers ==
  ASSUME NEW s, Base(s), ~InKey(s), s.step \in WordStates, NEW c
  PROVE  Answers(s, Step(s, c))
<1>1. Step(s, c) = StateInWord(s, c) BY DEF Step, NumberStates, HexStates, WordStates
<1>2. AfterLetter[s.step] \in WordStates \cup {"stateEndValue"}
  BY DEF AfterLetter, WordStates
<1> QED BY <1>1, <1>2, ScalarAnswers DEF StateInWord

(* Whatever the byte, a well formed scanner gives a proper answer.         *)
LEMMA StepAnswers ==
  ASSUME NEW s, WellFormed(s), NEW c
  PROVE  Answers(s, Step(s, c))
<1> USE DEF HexStates, WordStates
<1>1. Base(s) BY WellFormedBase
<1>2. CASE s.step = "stateBeginValue"
  BY <1>1, <1>2, BeginValueAnswers DEF WellFormed, Step
<1>3. CASE s.step = "stateBeginValueOrEmpty"
  <2>1. Step(s, c) = StateBeginValueOrEmpty(s, c) /\ ~InKey(s)
    BY <1>3 DEF WellFormed, Step
  <2> QED BY <1>1, <1>3, <2>1, BeginValueAnswers, EndValueAnswers DEF StateBeginValueOrEmpty
<1>4. CASE s.step = "stateBeginString"
  BY <1>1, <1>4, BeginStringAnswers DEF WellFormed, Step
<1>5. CASE s.step = "stateBeginStringOrEmpty"
  BY <1>1, <1>5, BeginStringOrEmptyAnswers DEF WellFormed, Step
<1>6. CASE s.step = "stateEndValue" BY <1>1, <1>6, EndValueAnswers DEF Step
<1>7. CASE s.step = "stateEndTop" BY <1>1, <1>7, EndTopAnswers DEF Step
<1>8. CASE s.step \in StringStates BY <1>1, <1>8, StringAnswers
<1>9. CASE s.step \in NumberStates
  BY <1>1, <1>9, NumberAnswers DEF WellFormed
<1>10. CASE s.step \in WordStates
  BY <1>1, <1>10, WordAnswers DEF WellFormed
<1>11. CASE s.step = "stateError"
  <2>1. Step(s, c) = To(s, "stateError", "scanError")
    BY <1>1, <1>11, StayIsTo DEF Step, Opcodes
  <2> QED BY <1>1, <2>1, ToAnswers DEF Steps, Opcodes, StringStates, NumberStates
<1>12. s.step \in Steps BY <1>1 DEF Base, Scanners
<1> QED
  BY <1>2, <1>3, <1>4, <1>5, <1>6, <1>7, <1>8, <1>9, <1>10, <1>11, <1>12 DEF Steps, StringStates

----------------------------------------------------------------------------
(***************************************************************************)
(* The grammar.  A set of goals is written as what begins them and what    *)
(* follows, Before(x, rest), and each rule gets a name for the goals that  *)
(* it leaves behind the symbols it begins with; what Expand, and with it   *)
(* Predict, makes of them, and what Read leaves of them when a byte comes, *)
(* is then an equation for each, whatever the rest is.                     *)
(***************************************************************************)

Symbol == DOMAIN Rule \cup DOMAIN Class \cup Char
Goals == SUBSET Seq(Symbol)
Stable(g) == Expand(g) = g

(* Every goal of rest behind the symbol x, and behind a word of symbols.   *)
Before(x, rest) == {<<x>> \o goal : goal \in rest \cap Seq(Symbol)}
Preceded(word, rest) == {word \o goal : goal \in rest \cap Seq(Symbol)}

----------------------------------------------------------------------------
(* What the operators of the grammar are on sequences and sets of any kind.*)
LEMMA Prefixed ==
  ASSUME NEW S, NEW x \in S, NEW goal \in Seq(S)
  PROVE  /\ <<x>> \o goal \in Seq(S)
         /\ <<x>> \o goal # <<>>
         /\ Head(<<x>> \o goal) = x
         /\ Tail(<<x>> \o goal) = goal
  OBVIOUS

LEMMA BeforeType ==
  ASSUME NEW x \in Symbol, NEW rest
  PROVE  /\ Before(x, rest) \in Goals
         /\ <<>> \notin Before(x, rest)
<1>1. ASSUME NEW goal \in rest \cap Seq(Symbol)
      PROVE  <<x>> \o goal \in Seq(Symbol) /\ <<x>> \o goal # <<>>
  BY Prefixed
<1>2. Before(x, rest) \in Goals BY <1>1 DEF Goals, Before
<1>3. <<>> \notin Before(x, rest) BY <1>1 DEF Before
<1> QED BY <1>2, <1>3

LEMMA BeforeSome ==
  ASSUME NEW x, NEW rest \in Goals, rest # {}
  PROVE  Before(x, rest) # {}
  BY DEF Goals, Before

LEMMA BeforeUnion ==
  ASSUME NEW x, NEW g, NEW h
  PROVE  Before(x, g \cup h) = Before(x, g) \cup Before(x, h)
  BY DEF Before

LEMMA GoalsUnion ==
  ASSUME NEW g \in Goals, NEW h \in Goals
  PROVE  g \cup h \in Goals
  BY DEF Goals

LEMMA ExpandUnion ==
  ASSUME NEW g, NEW h
  PROVE  Expand(g \cup h) = Expand(g) \cup Expand(h)
  BY DEF Expand

LEMMA ReadUnion ==
  ASSUME NEW g, NEW h, NEW c
  PROVE  Read(g \cup h, c) = Read(g, c) \cup Read(h, c)
  BY DEF Read

LEMMA ReadBefore ==
  ASSUME NEW x \in Symbol, NEW rest \in Goals, NEW c
  PROVE  Read(Before(x, rest), c) = IF Matches(x, c) THEN rest ELSE {}
<1>1. \A goal \in rest :
        <<x>> \o goal # <<>> /\ Head(<<x>> \o goal) = x /\ Tail(<<x>> \o goal) = goal
  BY Prefixed DEF Goals
<1>2. rest \cap Seq(Symbol) = rest BY DEF Goals
<1>3. ASSUME NEW g PROVE g \in Read(Before(x, rest), c) <=> g \in rest /\ Matches(x, c)
  BY <1>1, <1>2 DEF Before, Read
<1> QED BY <1>3

LEMMA ExpandByte ==
  ASSUME NEW x \in Symbol, x \notin DOMAIN Rule, NEW rest
  PROVE  Expand(Before(x, rest)) = Before(x, rest)
<1> DEFINE typed == rest \cap Seq(Symbol)
<1>1. ASSUME NEW goal \in typed PROVE Expanded(<<x>> \o goal) = {<<x>> \o goal}
  BY Prefixed DEF Expanded
<1>2. Before(x, rest) = {<<x>> \o goal : goal \in typed} BY DEF Before
<1> HIDE DEF typed
<1>3. ASSUME NEW g PROVE g \in Expand(Before(x, rest)) <=> g \in Before(x, rest)
  <2>1. g \in Expand(Before(x, rest)) <=> \E goal \in typed : g \in Expanded(<<x>> \o goal)
    BY <1>2 DEF Expand
  <2> QED BY <1>1, <1>2, <2>1
<1> QED BY <1>3

LEMMA ExpandRule ==
  ASSUME NEW x \in Symbol, x \in DOMAIN Rule, NEW rest
  PROVE  Expand(Before(x, rest)) = UNION {Preceded(alternative, rest) : alternative \in Rule[x]}
<1> DEFINE alternatives == Rule[x]
           typed == rest \cap Seq(Symbol)
<1>1. ASSUME NEW goal \in typed
      PROVE  Expanded(<<x>> \o goal) = {alternative \o goal : alternative \in alternatives}
  BY Prefixed DEF Expanded
<1>2. /\ Before(x, rest) = {<<x>> \o goal : goal \in typed}
      /\ \A word : Preceded(word, rest) = {word \o goal : goal \in typed}
  BY DEF Before, Preceded
<1> HIDE DEF alternatives, typed
<1>3. ASSUME NEW g
      PROVE  g \in Expand(Before(x, rest)) <=> \E goal \in typed : g \in Expanded(<<x>> \o goal)
  BY <1>2 DEF Expand
<1>4. ASSUME NEW g
      PROVE  g \in Expand(Before(x, rest))
               <=> g \in UNION {Preceded(alternative, rest) : alternative \in alternatives}
  <2>1. g \in Expand(Before(x, rest))
          <=> \E goal \in typed, alternative \in alternatives : g = alternative \o goal
    BY <1>1, <1>3
  <2>2. \A alternative : g \in Preceded(alternative, rest) <=> \E goal \in typed : g = alternative \o goal
    BY <1>2
  <2> QED BY <2>1, <2>2
<1> QED BY <1>4 DEF alternatives

LEMMA PrecededAppend ==
  ASSUME NEW word \in Seq(Symbol), NEW x \in Symbol, NEW rest
  PROVE  Preceded(Append(word, x), rest) = Preceded(word, Before(x, rest))
<1> DEFINE typed == rest \cap Seq(Symbol)
           longer == Before(x, rest)
<1>1. ASSUME NEW goal \in typed PROVE Append(word, x) \o goal = word \o (<<x>> \o goal)
  <2>1. <<x>> \in Seq(Symbol) /\ goal \in Seq(Symbol) OBVIOUS
  <2> QED BY <2>1, AppendIsConcat, ConcatAssociative
<1>2. longer = {<<x>> \o goal : goal \in typed} BY DEF Before
<1>3. longer \cap Seq(Symbol) = longer BY BeforeType DEF Goals
<1> HIDE DEF typed, longer
<1>4. ASSUME NEW g
      PROVE  g \in Preceded(word, longer) <=> \E goal \in typed : g = word \o (<<x>> \o goal)
  BY <1>2, <1>3 DEF Preceded
<1>5. ASSUME NEW g
      PROVE  g \in Preceded(Append(word, x), rest)
               <=> \E goal \in typed : g = Append(word, x) \o goal
  BY DEF Preceded, typed
<1> QED BY <1>1, <1>4, <1>5 DEF longer

(* A word before goals: its symbols before them, one by one.               *)
LEMMA Word0 ==
  ASSUME NEW rest \in Goals
  PROVE  Preceded(<<>>, rest) = rest
<1>1. \A goal \in rest : <<>> \o goal = goal BY DEF Goals
<1>2. rest \cap Seq(Symbol) = rest BY DEF Goals
<1> QED BY <1>1, <1>2 DEF Preceded

LEMMA Word1 ==
  ASSUME NEW rest, NEW a \in Symbol
  PROVE  Preceded(<<a>>, rest) = Before(a, rest)
  BY DEF Preceded, Before

LEMMA Word2 ==
  ASSUME NEW rest, NEW a \in Symbol, NEW b \in Symbol
  PROVE  Preceded(<<a, b>>, rest) = Before(a, Before(b, rest))
<1> DEFINE word == <<a>>
           longer == <<a, b>>
<1>1. word \in Seq(Symbol) /\ longer = Append(word, b) OBVIOUS
<1>2. Preceded(word, Before(b, rest)) = Before(a, Before(b, rest))
  BY Word1
<1> HIDE DEF word, longer
<1>3. Preceded(longer, rest) = Preceded(word, Before(b, rest))
  BY <1>1, PrecededAppend
<1> QED BY <1>2, <1>3 DEF longer

LEMMA Word3 ==
  ASSUME NEW rest, NEW a \in Symbol, NEW b \in Symbol, NEW c \in Symbol
  PROVE  Preceded(<<a, b, c>>, rest)
           = Before(a, Before(b, Before(c, rest)))
<1> DEFINE word == <<a, b>>
           longer == <<a, b, c>>
<1>1. word \in Seq(Symbol) /\ longer = Append(word, c) OBVIOUS
<1>2. Preceded(word, Before(c, rest)) = Before(a, Before(b, Before(c, rest)))
  BY Word2
<1> HIDE DEF word, longer
<1>3. Preceded(longer, rest) = Preceded(word, Before(c, rest))
  BY <1>1, PrecededAppend
<1> QED BY <1>2, <1>3 DEF longer

LEMMA Word4 ==
  ASSUME NEW rest, NEW a \in Symbol, NEW b \in Symbol, NEW c \in Symbol, NEW d \in Symbol
  PROVE  Preceded(<<a, b, c, d>>, rest)
           = Before(a, Before(b, Before(c, Before(d, rest))))
<1> DEFINE word == <<a, b, c>>
           longer == <<a, b, c, d>>
<1>1. word \in Seq(Symbol) /\ longer = Append(word, d) OBVIOUS
<1>2. Preceded(word, Before(d, rest)) = Before(a, Before(b, Before(c, Before(d, rest))))
  BY Word3
<1> HIDE DEF word, longer
<1>3. Preceded(longer, rest) = Preceded(word, Before(d, rest))
  BY <1>1, PrecededAppend
<1> QED BY <1>2, <1>3 DEF longer

LEMMA Word5 ==
  ASSUME NEW rest, NEW a \in Symbol, NEW b \in Symbol, NEW c \in Symbol, NEW d \in Symbol,
         NEW e \in Symbol
  PROVE  Preceded(<<a, b, c, d, e>>, rest)
           = Before(a, Before(b, Before(c, Before(d, Before(e, rest)))))
<1> DEFINE word == <<a, b, c, d>>
           longer == <<a, b, c, d, e>>
<1>1. word \in Seq(Symbol) /\ longer = Append(word, e) OBVIOUS
<1>2. Preceded(word, Before(e, rest)) = Before(a, Before(b, Before(c, Before(d, Before(e, rest)))))
  BY Word4
<1> HIDE DEF word, longer
<1>3. Preceded(longer, rest) = Preceded(word, Before(e, rest))
  BY <1>1, PrecededAppend
<1> QED BY <1>2, <1>3 DEF longer

----------------------------------------------------------------------------
(* The braces, by name: as strings they are beyond the SMT backend.        *)
Open == "{"
Close == "}"

(* The symbols: those of the rules, the classes of bytes, and the bytes.    *)
LEMMA Nonterminals == DOMAIN Rule = {"text", "value", "object", "members", "member", "element",
    "array", "elements", "string", "chars", "escaped", "number", "int", "digits", "frac", "exp", "ws"}
  BY DEF Rule

LEMMA Classes == DOMAIN Class = {"plain", "short", "hex", "digit", "exponent", "sign", "space"}
  BY DEF Class

LEMMA Bytes ==
  ASSUME NEW x \in Char
  PROVE  x \in Symbol /\ x \notin DOMAIN Rule /\ x \notin DOMAIN Class
  BY Nonterminals, Classes DEF Symbol, Char, Space, Hex, Digit, Escape

LEMMA ClassNames ==
  ASSUME NEW x \in DOMAIN Class
  PROVE  x \in Symbol /\ x \notin DOMAIN Rule
  BY Nonterminals, Classes DEF Symbol

LEMMA Symbols ==
  /\ "text" \in Symbol /\ "ws" \in Symbol /\ "value" \in Symbol
  /\ "object" \in Symbol /\ "array" \in Symbol /\ "string" \in Symbol
  /\ "number" \in Symbol /\ "t" \in Symbol /\ "r" \in Symbol
  /\ "u" \in Symbol /\ "e" \in Symbol /\ "f" \in Symbol
  /\ "a" \in Symbol /\ "l" \in Symbol /\ "s" \in Symbol
  /\ "n" \in Symbol /\ Open \in Symbol /\ Close \in Symbol
  /\ "members" \in Symbol /\ "member" \in Symbol /\ "," \in Symbol
  /\ ":" \in Symbol /\ "element" \in Symbol /\ "[" \in Symbol
  /\ "]" \in Symbol /\ "elements" \in Symbol /\ "\"" \in Symbol
  /\ "chars" \in Symbol /\ "plain" \in Symbol /\ "\\" \in Symbol
  /\ "escaped" \in Symbol /\ "short" \in Symbol /\ "hex" \in Symbol
  /\ "int" \in Symbol /\ "frac" \in Symbol /\ "exp" \in Symbol
  /\ "-" \in Symbol /\ "0" \in Symbol /\ "1" \in Symbol
  /\ "digits" \in Symbol /\ "digit" \in Symbol /\ "." \in Symbol
  /\ "exponent" \in Symbol /\ "sign" \in Symbol /\ "space" \in Symbol
  BY Nonterminals, Classes DEF Symbol, Char, Space, Hex, Digit, Escape, Open, Close

(* The rules of the grammar, on the goals that begin with their symbol.     *)
LEMMA Rules ==
  ASSUME NEW rest
  PROVE  /\ Expand(Before("text", rest))
              = Before("ws", Before("value", Before("ws", rest)))
         /\ Expand(Before("value", rest))
              = Before("object", rest)
                  \cup Before("array", rest)
                  \cup Before("string", rest)
                  \cup Before("number", rest)
                  \cup Before("t", Before("r", Before("u", Before("e", rest))))
                  \cup Before("f", Before("a", Before("l", Before("s", Before("e", rest)))))
                  \cup Before("n", Before("u", Before("l", Before("l", rest))))
         /\ Expand(Before("object", rest))
              = Before(Open, Before("ws", Before(Close, rest)))
                  \cup Before(Open, Before("members", Before(Close, rest)))
         /\ Expand(Before("members", rest))
              = Before("member", rest)
                  \cup Before("member", Before(",", Before("members", rest)))
         /\ Expand(Before("member", rest))
              = Before("ws", Before("string", Before("ws", Before(":", Before("element", rest)))))
         /\ Expand(Before("element", rest))
              = Before("ws", Before("value", Before("ws", rest)))
         /\ Expand(Before("array", rest))
              = Before("[", Before("ws", Before("]", rest)))
                  \cup Before("[", Before("elements", Before("]", rest)))
         /\ Expand(Before("elements", rest))
              = Before("element", rest)
                  \cup Before("element", Before(",", Before("elements", rest)))
         /\ Expand(Before("string", rest))
              = Before("\"", Before("chars", Before("\"", rest)))
         /\ rest \in Goals => Expand(Before("chars", rest))
              = rest
                  \cup Before("plain", Before("chars", rest))
                  \cup Before("\\", Before("escaped", Before("chars", rest)))
         /\ Expand(Before("escaped", rest))
              = Before("short", rest)
                  \cup Before("u", Before("hex", Before("hex", Before("hex", Before("hex", rest)))))
         /\ Expand(Before("number", rest))
              = Before("int", Before("frac", Before("exp", rest)))
                  \cup Before("-", Before("int", Before("frac", Before("exp", rest))))
         /\ Expand(Before("int", rest))
              = Before("0", rest)
                  \cup Before("1", Before("digits", rest))
         /\ rest \in Goals => Expand(Before("digits", rest))
              = rest
                  \cup Before("digit", Before("digits", rest))
         /\ rest \in Goals => Expand(Before("frac", rest))
              = rest
                  \cup Before(".", Before("digit", Before("digits", rest)))
         /\ rest \in Goals => Expand(Before("exp", rest))
              = rest
                  \cup Before("exponent", Before("digit", Before("digits", rest)))
                  \cup Before("exponent", Before("sign", Before("digit", Before("digits", rest))))
         /\ rest \in Goals => Expand(Before("ws", rest))
              = rest
                  \cup Before("space", Before("ws", rest))
<1>1. Expand(Before("text", rest))
          = Before("ws", Before("value", Before("ws", rest)))
  <2>1. Rule["text"] = {<<"ws", "value", "ws">>} BY DEF Rule
  <2>2. UNION {Preceded(alternative, rest) : alternative \in Rule["text"]}
          = Preceded(<<"ws", "value", "ws">>, rest)
    BY <2>1
  <2>3. "text" \in DOMAIN Rule /\ "text" \in Symbol BY Nonterminals, Symbols
  <2>4. Expand(Before("text", rest))
          = UNION {Preceded(alternative, rest) : alternative \in Rule["text"]}
    BY <2>3, ExpandRule
  <2>5. "ws" \in Symbol /\ "value" \in Symbol
    BY Symbols
  <2>6. Preceded(<<"ws", "value", "ws">>, rest)
          = Before("ws", Before("value", Before("ws", rest)))
    BY <2>5, Word3
  <2> QED BY <2>2, <2>4, <2>6
<1>2. Expand(Before("value", rest))
          = Before("object", rest)
              \cup Before("array", rest)
              \cup Before("string", rest)
              \cup Before("number", rest)
              \cup Before("t", Before("r", Before("u", Before("e", rest))))
              \cup Before("f", Before("a", Before("l", Before("s", Before("e", rest)))))
              \cup Before("n", Before("u", Before("l", Before("l", rest))))
  <2>1. Rule["value"] = {<<"object">>, <<"array">>, <<"string">>, <<"number">>,
                         <<"t", "r", "u", "e">>, <<"f", "a", "l", "s", "e">>,
                         <<"n", "u", "l", "l">>}
    BY DEF Rule
  <2>2. UNION {Preceded(alternative, rest) : alternative \in Rule["value"]}
          = Preceded(<<"object">>, rest)
               \cup Preceded(<<"array">>, rest)
               \cup Preceded(<<"string">>, rest)
               \cup Preceded(<<"number">>, rest)
               \cup Preceded(<<"t", "r", "u", "e">>, rest)
               \cup Preceded(<<"f", "a", "l", "s", "e">>, rest)
               \cup Preceded(<<"n", "u", "l", "l">>, rest)
    BY <2>1
  <2>3. "value" \in DOMAIN Rule /\ "value" \in Symbol BY Nonterminals, Symbols
  <2>4. Expand(Before("value", rest))
          = UNION {Preceded(alternative, rest) : alternative \in Rule["value"]}
    BY <2>3, ExpandRule
  <2>5. /\ "object" \in Symbol /\ "array" \in Symbol /\ "string" \in Symbol /\ "number" \in Symbol
        /\ "t" \in Symbol /\ "r" \in Symbol /\ "u" \in Symbol /\ "e" \in Symbol
        /\ "f" \in Symbol /\ "a" \in Symbol /\ "l" \in Symbol /\ "s" \in Symbol
        /\ "n" \in Symbol
    BY Symbols
  <2>6. Preceded(<<"object">>, rest)
          = Before("object", rest)
    BY <2>5, Word1
  <2>7. Preceded(<<"array">>, rest)
          = Before("array", rest)
    BY <2>5, Word1
  <2>8. Preceded(<<"string">>, rest)
          = Before("string", rest)
    BY <2>5, Word1
  <2>9. Preceded(<<"number">>, rest)
          = Before("number", rest)
    BY <2>5, Word1
  <2>10. Preceded(<<"t", "r", "u", "e">>, rest)
          = Before("t", Before("r", Before("u", Before("e", rest))))
    BY <2>5, Word4
  <2>11. Preceded(<<"f", "a", "l", "s", "e">>, rest)
          = Before("f", Before("a", Before("l", Before("s", Before("e", rest)))))
    BY <2>5, Word5
  <2>12. Preceded(<<"n", "u", "l", "l">>, rest)
          = Before("n", Before("u", Before("l", Before("l", rest))))
    BY <2>5, Word4
  <2> QED BY <2>2, <2>4, <2>6, <2>7, <2>8, <2>9, <2>10, <2>11, <2>12
<1>3. Expand(Before("object", rest))
          = Before(Open, Before("ws", Before(Close, rest)))
              \cup Before(Open, Before("members", Before(Close, rest)))
  <2>1. Rule["object"] = {<<Open, "ws", Close>>, <<Open, "members", Close>>} BY DEF Rule, Open, Close
  <2>2. UNION {Preceded(alternative, rest) : alternative \in Rule["object"]}
          = Preceded(<<Open, "ws", Close>>, rest)
               \cup Preceded(<<Open, "members", Close>>, rest)
    BY <2>1
  <2>3. "object" \in DOMAIN Rule /\ "object" \in Symbol BY Nonterminals, Symbols
  <2>4. Expand(Before("object", rest))
          = UNION {Preceded(alternative, rest) : alternative \in Rule["object"]}
    BY <2>3, ExpandRule
  <2>5. Open \in Symbol /\ "ws" \in Symbol /\ Close \in Symbol /\ "members" \in Symbol
    BY Symbols
  <2>6. Preceded(<<Open, "ws", Close>>, rest)
          = Before(Open, Before("ws", Before(Close, rest)))
    BY <2>5, Word3
  <2>7. Preceded(<<Open, "members", Close>>, rest)
          = Before(Open, Before("members", Before(Close, rest)))
    BY <2>5, Word3
  <2> QED BY <2>2, <2>4, <2>6, <2>7
<1>4. Expand(Before("members", rest))
          = Before("member", rest)
              \cup Before("member", Before(",", Before("members", rest)))
  <2>1. Rule["members"] = {<<"member">>, <<"member", ",", "members">>} BY DEF Rule
  <2>2. UNION {Preceded(alternative, rest) : alternative \in Rule["members"]}
          = Preceded(<<"member">>, rest)
               \cup Preceded(<<"member", ",", "members">>, rest)
    BY <2>1
  <2>3. "members" \in DOMAIN Rule /\ "members" \in Symbol BY Nonterminals, Symbols
  <2>4. Expand(Before("members", rest))
          = UNION {Preceded(alternative, rest) : alternative \in Rule["members"]}
    BY <2>3, ExpandRule
  <2>5. "member" \in Symbol /\ "," \in Symbol /\ "members" \in Symbol
    BY Symbols
  <2>6. Preceded(<<"member">>, rest)
          = Before("member", rest)
    BY <2>5, Word1
  <2>7. Preceded(<<"member", ",", "members">>, rest)
          = Before("member", Before(",", Before("members", rest)))
    BY <2>5, Word3
  <2> QED BY <2>2, <2>4, <2>6, <2>7
<1>5. Expand(Before("member", rest))
          = Before("ws", Before("string", Before("ws", Before(":", Before("element", rest)))))
  <2>1. Rule["member"] = {<<"ws", "string", "ws", ":", "element">>} BY DEF Rule
  <2>2. UNION {Preceded(alternative, rest) : alternative \in Rule["member"]}
          = Preceded(<<"ws", "string", "ws", ":", "element">>, rest)
    BY <2>1
  <2>3. "member" \in DOMAIN Rule /\ "member" \in Symbol BY Nonterminals, Symbols
  <2>4. Expand(Before("member", rest))
          = UNION {Preceded(alternative, rest) : alternative \in Rule["member"]}
    BY <2>3, ExpandRule
  <2>5. "ws" \in Symbol /\ "string" \in Symbol /\ ":" \in Symbol /\ "element" \in Symbol
    BY Symbols
  <2>6. Preceded(<<"ws", "string", "ws", ":", "element">>, rest)
          = Before("ws", Before("string", Before("ws", Before(":", Before("element", rest)))))
    BY <2>5, Word5
  <2> QED BY <2>2, <2>4, <2>6
<1>6. Expand(Before("element", rest))
          = Before("ws", Before("value", Before("ws", rest)))
  <2>1. Rule["element"] = {<<"ws", "value", "ws">>} BY DEF Rule
  <2>2. UNION {Preceded(alternative, rest) : alternative \in Rule["element"]}
          = Preceded(<<"ws", "value", "ws">>, rest)
    BY <2>1
  <2>3. "element" \in DOMAIN Rule /\ "element" \in Symbol BY Nonterminals, Symbols
  <2>4. Expand(Before("element", rest))
          = UNION {Preceded(alternative, rest) : alternative \in Rule["element"]}
    BY <2>3, ExpandRule
  <2>5. "ws" \in Symbol /\ "value" \in Symbol
    BY Symbols
  <2>6. Preceded(<<"ws", "value", "ws">>, rest)
          = Before("ws", Before("value", Before("ws", rest)))
    BY <2>5, Word3
  <2> QED BY <2>2, <2>4, <2>6
<1>7. Expand(Before("array", rest))
          = Before("[", Before("ws", Before("]", rest)))
              \cup Before("[", Before("elements", Before("]", rest)))
  <2>1. Rule["array"] = {<<"[", "ws", "]">>, <<"[", "elements", "]">>} BY DEF Rule
  <2>2. UNION {Preceded(alternative, rest) : alternative \in Rule["array"]}
          = Preceded(<<"[", "ws", "]">>, rest)
               \cup Preceded(<<"[", "elements", "]">>, rest)
    BY <2>1
  <2>3. "array" \in DOMAIN Rule /\ "array" \in Symbol BY Nonterminals, Symbols
  <2>4. Expand(Before("array", rest))
          = UNION {Preceded(alternative, rest) : alternative \in Rule["array"]}
    BY <2>3, ExpandRule
  <2>5. "[" \in Symbol /\ "ws" \in Symbol /\ "]" \in Symbol /\ "elements" \in Symbol
    BY Symbols
  <2>6. Preceded(<<"[", "ws", "]">>, rest)
          = Before("[", Before("ws", Before("]", rest)))
    BY <2>5, Word3
  <2>7. Preceded(<<"[", "elements", "]">>, rest)
          = Before("[", Before("elements", Before("]", rest)))
    BY <2>5, Word3
  <2> QED BY <2>2, <2>4, <2>6, <2>7
<1>8. Expand(Before("elements", rest))
          = Before("element", rest)
              \cup Before("element", Before(",", Before("elements", rest)))
  <2>1. Rule["elements"] = {<<"element">>, <<"element", ",", "elements">>} BY DEF Rule
  <2>2. UNION {Preceded(alternative, rest) : alternative \in Rule["elements"]}
          = Preceded(<<"element">>, rest)
               \cup Preceded(<<"element", ",", "elements">>, rest)
    BY <2>1
  <2>3. "elements" \in DOMAIN Rule /\ "elements" \in Symbol BY Nonterminals, Symbols
  <2>4. Expand(Before("elements", rest))
          = UNION {Preceded(alternative, rest) : alternative \in Rule["elements"]}
    BY <2>3, ExpandRule
  <2>5. "element" \in Symbol /\ "," \in Symbol /\ "elements" \in Symbol
    BY Symbols
  <2>6. Preceded(<<"element">>, rest)
          = Before("element", rest)
    BY <2>5, Word1
  <2>7. Preceded(<<"element", ",", "elements">>, rest)
          = Before("element", Before(",", Before("elements", rest)))
    BY <2>5, Word3
  <2> QED BY <2>2, <2>4, <2>6, <2>7
<1>9. Expand(Before("string", rest))
          = Before("\"", Before("chars", Before("\"", rest)))
  <2>1. Rule["string"] = {<<"\"", "chars", "\"">>} BY DEF Rule
  <2>2. UNION {Preceded(alternative, rest) : alternative \in Rule["string"]}
          = Preceded(<<"\"", "chars", "\"">>, rest)
    BY <2>1
  <2>3. "string" \in DOMAIN Rule /\ "string" \in Symbol BY Nonterminals, Symbols
  <2>4. Expand(Before("string", rest))
          = UNION {Preceded(alternative, rest) : alternative \in Rule["string"]}
    BY <2>3, ExpandRule
  <2>5. "\"" \in Symbol /\ "chars" \in Symbol
    BY Symbols
  <2>6. Preceded(<<"\"", "chars", "\"">>, rest)
          = Before("\"", Before("chars", Before("\"", rest)))
    BY <2>5, Word3
  <2> QED BY <2>2, <2>4, <2>6
<1>10. rest \in Goals => Expand(Before("chars", rest))
          = rest
              \cup Before("plain", Before("chars", rest))
              \cup Before("\\", Before("escaped", Before("chars", rest)))
  <2> SUFFICES ASSUME rest \in Goals PROVE Expand(Before("chars", rest)) = rest
              \cup Before("plain", Before("chars", rest))
              \cup Before("\\", Before("escaped", Before("chars", rest)))
    OBVIOUS
  <2>1. Rule["chars"] = {<<>>, <<"plain", "chars">>, <<"\\", "escaped", "chars">>} BY DEF Rule
  <2>2. UNION {Preceded(alternative, rest) : alternative \in Rule["chars"]}
          = Preceded(<<>>, rest)
               \cup Preceded(<<"plain", "chars">>, rest)
               \cup Preceded(<<"\\", "escaped", "chars">>, rest)
    BY <2>1
  <2>3. "chars" \in DOMAIN Rule /\ "chars" \in Symbol BY Nonterminals, Symbols
  <2>4. Expand(Before("chars", rest))
          = UNION {Preceded(alternative, rest) : alternative \in Rule["chars"]}
    BY <2>3, ExpandRule
  <2>5. "plain" \in Symbol /\ "chars" \in Symbol /\ "\\" \in Symbol /\ "escaped" \in Symbol
    BY Symbols
  <2>6. Preceded(<<>>, rest)
          = rest
    BY Word0
  <2>7. Preceded(<<"plain", "chars">>, rest)
          = Before("plain", Before("chars", rest))
    BY <2>5, Word2
  <2>8. Preceded(<<"\\", "escaped", "chars">>, rest)
          = Before("\\", Before("escaped", Before("chars", rest)))
    BY <2>5, Word3
  <2> QED BY <2>2, <2>4, <2>6, <2>7, <2>8
<1>11. Expand(Before("escaped", rest))
          = Before("short", rest)
              \cup Before("u", Before("hex", Before("hex", Before("hex", Before("hex", rest)))))
  <2>1. Rule["escaped"] = {<<"short">>, <<"u", "hex", "hex", "hex", "hex">>} BY DEF Rule
  <2>2. UNION {Preceded(alternative, rest) : alternative \in Rule["escaped"]}
          = Preceded(<<"short">>, rest)
               \cup Preceded(<<"u", "hex", "hex", "hex", "hex">>, rest)
    BY <2>1
  <2>3. "escaped" \in DOMAIN Rule /\ "escaped" \in Symbol BY Nonterminals, Symbols
  <2>4. Expand(Before("escaped", rest))
          = UNION {Preceded(alternative, rest) : alternative \in Rule["escaped"]}
    BY <2>3, ExpandRule
  <2>5. "short" \in Symbol /\ "u" \in Symbol /\ "hex" \in Symbol
    BY Symbols
  <2>6. Preceded(<<"short">>, rest)
          = Before("short", rest)
    BY <2>5, Word1
  <2>7. Preceded(<<"u", "hex", "hex", "hex", "hex">>, rest)
          = Before("u", Before("hex", Before("hex", Before("hex", Before("hex", rest)))))
    BY <2>5, Word5
  <2> QED BY <2>2, <2>4, <2>6, <2>7
<1>12. Expand(Before("number", rest))
          = Before("int", Before("frac", Before("exp", rest)))
              \cup Before("-", Before("int", Before("frac", Before("exp", rest))))
  <2>1. Rule["number"] = {<<"int", "frac", "exp">>, <<"-", "int", "frac", "exp">>} BY DEF Rule
  <2>2. UNION {Preceded(alternative, rest) : alternative \in Rule["number"]}
          = Preceded(<<"int", "frac", "exp">>, rest)
               \cup Preceded(<<"-", "int", "frac", "exp">>, rest)
    BY <2>1
  <2>3. "number" \in DOMAIN Rule /\ "number" \in Symbol BY Nonterminals, Symbols
  <2>4. Expand(Before("number", rest))
          = UNION {Preceded(alternative, rest) : alternative \in Rule["number"]}
    BY <2>3, ExpandRule
  <2>5. "int" \in Symbol /\ "frac" \in Symbol /\ "exp" \in Symbol /\ "-" \in Symbol
    BY Symbols
  <2>6. Preceded(<<"int", "frac", "exp">>, rest)
          = Before("int", Before("frac", Before("exp", rest)))
    BY <2>5, Word3
  <2>7. Preceded(<<"-", "int", "frac", "exp">>, rest)
          = Before("-", Before("int", Before("frac", Before("exp", rest))))
    BY <2>5, Word4
  <2> QED BY <2>2, <2>4, <2>6, <2>7
<1>13. Expand(Before("int", rest))
          = Before("0", rest)
              \cup Before("1", Before("digits", rest))
  <2>1. Rule["int"] = {<<"0">>, <<"1", "digits">>} BY DEF Rule
  <2>2. UNION {Preceded(alternative, rest) : alternative \in Rule["int"]}
          = Preceded(<<"0">>, rest)
               \cup Preceded(<<"1", "digits">>, rest)
    BY <2>1
  <2>3. "int" \in DOMAIN Rule /\ "int" \in Symbol BY Nonterminals, Symbols
  <2>4. Expand(Before("int", rest))
          = UNION {Preceded(alternative, rest) : alternative \in Rule["int"]}
    BY <2>3, ExpandRule
  <2>5. "0" \in Symbol /\ "1" \in Symbol /\ "digits" \in Symbol
    BY Symbols
  <2>6. Preceded(<<"0">>, rest)
          = Before("0", rest)
    BY <2>5, Word1
  <2>7. Preceded(<<"1", "digits">>, rest)
          = Before("1", Before("digits", rest))
    BY <2>5, Word2
  <2> QED BY <2>2, <2>4, <2>6, <2>7
<1>14. rest \in Goals => Expand(Before("digits", rest))
          = rest
              \cup Before("digit", Before("digits", rest))
  <2> SUFFICES ASSUME rest \in Goals PROVE Expand(Before("digits", rest)) = rest
              \cup Before("digit", Before("digits", rest))
    OBVIOUS
  <2>1. Rule["digits"] = {<<>>, <<"digit", "digits">>} BY DEF Rule
  <2>2. UNION {Preceded(alternative, rest) : alternative \in Rule["digits"]}
          = Preceded(<<>>, rest)
               \cup Preceded(<<"digit", "digits">>, rest)
    BY <2>1
  <2>3. "digits" \in DOMAIN Rule /\ "digits" \in Symbol BY Nonterminals, Symbols
  <2>4. Expand(Before("digits", rest))
          = UNION {Preceded(alternative, rest) : alternative \in Rule["digits"]}
    BY <2>3, ExpandRule
  <2>5. "digit" \in Symbol /\ "digits" \in Symbol
    BY Symbols
  <2>6. Preceded(<<>>, rest)
          = rest
    BY Word0
  <2>7. Preceded(<<"digit", "digits">>, rest)
          = Before("digit", Before("digits", rest))
    BY <2>5, Word2
  <2> QED BY <2>2, <2>4, <2>6, <2>7
<1>15. rest \in Goals => Expand(Before("frac", rest))
          = rest
              \cup Before(".", Before("digit", Before("digits", rest)))
  <2> SUFFICES ASSUME rest \in Goals PROVE Expand(Before("frac", rest)) = rest
              \cup Before(".", Before("digit", Before("digits", rest)))
    OBVIOUS
  <2>1. Rule["frac"] = {<<>>, <<".", "digit", "digits">>} BY DEF Rule
  <2>2. UNION {Preceded(alternative, rest) : alternative \in Rule["frac"]}
          = Preceded(<<>>, rest)
               \cup Preceded(<<".", "digit", "digits">>, rest)
    BY <2>1
  <2>3. "frac" \in DOMAIN Rule /\ "frac" \in Symbol BY Nonterminals, Symbols
  <2>4. Expand(Before("frac", rest))
          = UNION {Preceded(alternative, rest) : alternative \in Rule["frac"]}
    BY <2>3, ExpandRule
  <2>5. "." \in Symbol /\ "digit" \in Symbol /\ "digits" \in Symbol
    BY Symbols
  <2>6. Preceded(<<>>, rest)
          = rest
    BY Word0
  <2>7. Preceded(<<".", "digit", "digits">>, rest)
          = Before(".", Before("digit", Before("digits", rest)))
    BY <2>5, Word3
  <2> QED BY <2>2, <2>4, <2>6, <2>7
<1>16. rest \in Goals => Expand(Before("exp", rest))
          = rest
              \cup Before("exponent", Before("digit", Before("digits", rest)))
              \cup Before("exponent", Before("sign", Before("digit", Before("digits", rest))))
  <2> SUFFICES ASSUME rest \in Goals PROVE Expand(Before("exp", rest)) = rest
              \cup Before("exponent", Before("digit", Before("digits", rest)))
              \cup Before("exponent", Before("sign", Before("digit", Before("digits", rest))))
    OBVIOUS
  <2>1. Rule["exp"] = {<<>>, <<"exponent", "digit", "digits">>, <<"exponent", "sign", "digit", "digits">>}
    BY DEF Rule
  <2>2. UNION {Preceded(alternative, rest) : alternative \in Rule["exp"]}
          = Preceded(<<>>, rest)
               \cup Preceded(<<"exponent", "digit", "digits">>, rest)
               \cup Preceded(<<"exponent", "sign", "digit", "digits">>, rest)
    BY <2>1
  <2>3. "exp" \in DOMAIN Rule /\ "exp" \in Symbol BY Nonterminals, Symbols
  <2>4. Expand(Before("exp", rest))
          = UNION {Preceded(alternative, rest) : alternative \in Rule["exp"]}
    BY <2>3, ExpandRule
  <2>5. "exponent" \in Symbol /\ "digit" \in Symbol /\ "digits" \in Symbol /\ "sign" \in Symbol
    BY Symbols
  <2>6. Preceded(<<>>, rest)
          = rest
    BY Word0
  <2>7. Preceded(<<"exponent", "digit", "digits">>, rest)
          = Before("exponent", Before("digit", Before("digits", rest)))
    BY <2>5, Word3
  <2>8. Preceded(<<"exponent", "sign", "digit", "digits">>, rest)
          = Before("exponent", Before("sign", Before("digit", Before("digits", rest))))
    BY <2>5, Word4
  <2> QED BY <2>2, <2>4, <2>6, <2>7, <2>8
<1>17. rest \in Goals => Expand(Before("ws", rest))
          = rest
              \cup Before("space", Before("ws", rest))
  <2> SUFFICES ASSUME rest \in Goals PROVE Expand(Before("ws", rest)) = rest
              \cup Before("space", Before("ws", rest))
    OBVIOUS
  <2>1. Rule["ws"] = {<<>>, <<"space", "ws">>} BY DEF Rule
  <2>2. UNION {Preceded(alternative, rest) : alternative \in Rule["ws"]}
          = Preceded(<<>>, rest)
               \cup Preceded(<<"space", "ws">>, rest)
    BY <2>1
  <2>3. "ws" \in DOMAIN Rule /\ "ws" \in Symbol BY Nonterminals, Symbols
  <2>4. Expand(Before("ws", rest))
          = UNION {Preceded(alternative, rest) : alternative \in Rule["ws"]}
    BY <2>3, ExpandRule
  <2>5. "space" \in Symbol /\ "ws" \in Symbol
    BY Symbols
  <2>6. Preceded(<<>>, rest)
          = rest
    BY Word0
  <2>7. Preceded(<<"space", "ws">>, rest)
          = Before("space", Before("ws", rest))
    BY <2>5, Word2
  <2> QED BY <2>2, <2>4, <2>6, <2>7
<1> QED
  BY <1>1, <1>2, <1>3, <1>4, <1>5, <1>6, <1>7, <1>8, <1>9, <1>10, <1>11, <1>12, <1>13, <1>14,
     <1>15, <1>16, <1>17

(* A byte is read by itself, and by the classes it is in.                  *)
LEMMA ReadByte ==
  ASSUME NEW x \in Char, NEW rest \in Goals, NEW c
  PROVE  Read(Before(x, rest), c) = IF c = x THEN rest ELSE {}
  BY Bytes, ReadBefore DEF Matches

LEMMA ReadClass ==
  ASSUME NEW rest \in Goals, NEW c
  PROVE  /\ Read(Before("plain", rest), c)
              = IF c \in Char \ {"\"", "\\", "tab", "control"} THEN rest ELSE {}
         /\ Read(Before("short", rest), c)
              = IF c \in Escape \ {"u"} THEN rest ELSE {}
         /\ Read(Before("hex", rest), c)
              = IF c \in Hex THEN rest ELSE {}
         /\ Read(Before("digit", rest), c)
              = IF c \in Digit THEN rest ELSE {}
         /\ Read(Before("exponent", rest), c)
              = IF c \in {"e", "E"} THEN rest ELSE {}
         /\ Read(Before("sign", rest), c)
              = IF c \in {"+", "-"} THEN rest ELSE {}
         /\ Read(Before("space", rest), c)
              = IF c \in Space THEN rest ELSE {}
<1>1. \A x \in DOMAIN Class : Read(Before(x, rest), c) = IF c \in Class[x] THEN rest ELSE {}
  BY ClassNames, ReadBefore DEF Matches
<1>2. Read(Before("plain", rest), c) = IF c \in Char \ {"\"", "\\", "tab", "control"} THEN rest ELSE {}
  <2>1. "plain" \in DOMAIN Class /\ Class["plain"] = Char \ {"\"", "\\", "tab", "control"}
    BY Classes DEF Class
  <2> QED BY <1>1, <2>1
<1>3. Read(Before("short", rest), c) = IF c \in Escape \ {"u"} THEN rest ELSE {}
  <2>1. "short" \in DOMAIN Class /\ Class["short"] = Escape \ {"u"} BY Classes DEF Class
  <2> QED BY <1>1, <2>1
<1>4. Read(Before("hex", rest), c) = IF c \in Hex THEN rest ELSE {}
  <2>1. "hex" \in DOMAIN Class /\ Class["hex"] = Hex BY Classes DEF Class
  <2> QED BY <1>1, <2>1
<1>5. Read(Before("digit", rest), c) = IF c \in Digit THEN rest ELSE {}
  <2>1. "digit" \in DOMAIN Class /\ Class["digit"] = Digit BY Classes DEF Class
  <2> QED BY <1>1, <2>1
<1>6. Read(Before("exponent", rest), c) = IF c \in {"e", "E"} THEN rest ELSE {}
  <2>1. "exponent" \in DOMAIN Class /\ Class["exponent"] = {"e", "E"} BY Classes DEF Class
  <2> QED BY <1>1, <2>1
<1>7. Read(Before("sign", rest), c) = IF c \in {"+", "-"} THEN rest ELSE {}
  <2>1. "sign" \in DOMAIN Class /\ Class["sign"] = {"+", "-"} BY Classes DEF Class
  <2> QED BY <1>1, <2>1
<1>8. Read(Before("space", rest), c) = IF c \in Space THEN rest ELSE {}
  <2>1. "space" \in DOMAIN Class /\ Class["space"] = Space BY Classes DEF Class
  <2> QED BY <1>1, <2>1
<1> QED BY <1>2, <1>3, <1>4, <1>5, <1>6, <1>7, <1>8
LEMMA Typed ==
  ASSUME NEW rest
  PROVE  /\ Before("text", rest) \in Goals /\ Before("ws", rest) \in Goals
         /\ Before("value", rest) \in Goals /\ Before("object", rest) \in Goals
         /\ Before("array", rest) \in Goals /\ Before("string", rest) \in Goals
         /\ Before("number", rest) \in Goals /\ Before("t", rest) \in Goals
         /\ Before("r", rest) \in Goals /\ Before("u", rest) \in Goals
         /\ Before("e", rest) \in Goals /\ Before("f", rest) \in Goals
         /\ Before("a", rest) \in Goals /\ Before("l", rest) \in Goals
         /\ Before("s", rest) \in Goals /\ Before("n", rest) \in Goals
         /\ Before(Open, rest) \in Goals /\ Before(Close, rest) \in Goals
         /\ Before("members", rest) \in Goals /\ Before("member", rest) \in Goals
         /\ Before(",", rest) \in Goals /\ Before(":", rest) \in Goals
         /\ Before("element", rest) \in Goals /\ Before("[", rest) \in Goals
         /\ Before("]", rest) \in Goals /\ Before("elements", rest) \in Goals
         /\ Before("\"", rest) \in Goals /\ Before("chars", rest) \in Goals
         /\ Before("plain", rest) \in Goals /\ Before("\\", rest) \in Goals
         /\ Before("escaped", rest) \in Goals /\ Before("short", rest) \in Goals
         /\ Before("hex", rest) \in Goals /\ Before("int", rest) \in Goals
         /\ Before("frac", rest) \in Goals /\ Before("exp", rest) \in Goals
         /\ Before("-", rest) \in Goals /\ Before("0", rest) \in Goals
         /\ Before("1", rest) \in Goals /\ Before("digits", rest) \in Goals
         /\ Before("digit", rest) \in Goals /\ Before(".", rest) \in Goals
         /\ Before("exponent", rest) \in Goals /\ Before("sign", rest) \in Goals
         /\ Before("space", rest) \in Goals
  BY Symbols, BeforeType

(* No rule applies to a goal that begins with a byte, or a class of bytes. *)
LEMMA TerminalNames ==
  ASSUME NEW x \in Symbol, x \notin DOMAIN Rule, NEW rest
  PROVE  Stable(Before(x, rest))
  BY ExpandByte DEF Stable

LEMMA Terminals ==
  ASSUME NEW rest
  PROVE  /\ Stable(Before("t", rest)) /\ Stable(Before("r", rest))
         /\ Stable(Before("u", rest)) /\ Stable(Before("e", rest))
         /\ Stable(Before("f", rest)) /\ Stable(Before("a", rest))
         /\ Stable(Before("l", rest)) /\ Stable(Before("s", rest))
         /\ Stable(Before("n", rest)) /\ Stable(Before(Open, rest))
         /\ Stable(Before(Close, rest)) /\ Stable(Before(",", rest))
         /\ Stable(Before(":", rest)) /\ Stable(Before("[", rest))
         /\ Stable(Before("]", rest)) /\ Stable(Before("\"", rest))
         /\ Stable(Before("plain", rest)) /\ Stable(Before("\\", rest))
         /\ Stable(Before("short", rest)) /\ Stable(Before("hex", rest))
         /\ Stable(Before("-", rest)) /\ Stable(Before("0", rest))
         /\ Stable(Before("1", rest)) /\ Stable(Before("digit", rest))
         /\ Stable(Before(".", rest)) /\ Stable(Before("exponent", rest))
         /\ Stable(Before("sign", rest)) /\ Stable(Before("space", rest))
<1>1. /\ "t" \notin DOMAIN Rule /\ "r" \notin DOMAIN Rule /\ "u" \notin DOMAIN Rule
      /\ "e" \notin DOMAIN Rule /\ "f" \notin DOMAIN Rule /\ "a" \notin DOMAIN Rule
      /\ "l" \notin DOMAIN Rule /\ "s" \notin DOMAIN Rule /\ "n" \notin DOMAIN Rule
      /\ Open \notin DOMAIN Rule /\ Close \notin DOMAIN Rule /\ "," \notin DOMAIN Rule
      /\ ":" \notin DOMAIN Rule /\ "[" \notin DOMAIN Rule /\ "]" \notin DOMAIN Rule
      /\ "\"" \notin DOMAIN Rule /\ "plain" \notin DOMAIN Rule /\ "\\" \notin DOMAIN Rule
      /\ "short" \notin DOMAIN Rule /\ "hex" \notin DOMAIN Rule /\ "-" \notin DOMAIN Rule
      /\ "0" \notin DOMAIN Rule /\ "1" \notin DOMAIN Rule /\ "digit" \notin DOMAIN Rule
      /\ "." \notin DOMAIN Rule /\ "exponent" \notin DOMAIN Rule /\ "sign" \notin DOMAIN Rule
      /\ "space" \notin DOMAIN Rule
  BY Nonterminals DEF Open, Close
<1> QED BY <1>1, Symbols, TerminalNames

----------------------------------------------------------------------------
LEMMA StableUnion ==
  ASSUME NEW g, Stable(g), NEW h, Stable(h)
  PROVE  Stable(g \cup h)
  BY ExpandUnion DEF Stable

LEMMA PredictUnion ==
  ASSUME NEW g, NEW h
  PROVE  Predict(g \cup h) = Predict(g) \cup Predict(h)
<1> DEFINE Twice(x) == Expand(Expand(x))
<1>1. ASSUME NEW x, NEW y PROVE Twice(x \cup y) = Twice(x) \cup Twice(y)
  <2>1. Expand(x \cup y) = Expand(x) \cup Expand(y) BY ExpandUnion
  <2>2. Expand(Expand(x) \cup Expand(y)) = Twice(x) \cup Twice(y) BY ExpandUnion
  <2> QED BY <2>1, <2>2
<1>2. \A x : Predict(x) = Twice(Twice(Twice(x))) BY DEF Predict
<1> HIDE DEF Twice
<1>3. Twice(Twice(g \cup h)) = Twice(Twice(g)) \cup Twice(Twice(h))
  <2>1. Twice(g \cup h) = Twice(g) \cup Twice(h) BY <1>1
  <2> QED BY <1>1, <2>1
<1>4. Twice(Twice(Twice(g)) \cup Twice(Twice(h)))
        = Twice(Twice(Twice(g))) \cup Twice(Twice(Twice(h)))
  BY <1>1
<1> QED BY <1>2, <1>3, <1>4

(* What may follow a value, or a key: y, after any space.                   *)
Ends(y) == y \cup Before("space", Before("ws", y))

LEMMA ExpandWs ==
  ASSUME NEW y \in Goals, Stable(y)
  PROVE  /\ Expand(Before("ws", y)) = Ends(y)
         /\ Stable(Ends(y))
<1>1. Stable(Before("space", Before("ws", y))) BY Terminals
<1> QED BY <1>1, Rules, StableUnion DEF Ends

LEMMA PredictWs ==
  ASSUME NEW y \in Goals, Stable(y)
  PROVE  Predict(Before("ws", y)) = Ends(y)
  BY ExpandWs DEF Predict, Stable

(* The end of a number: from an exponent on, and from a fraction on.       *)
Exponents(v) ==
  Before("exponent", Before("digit", Before("digits", v)))
    \cup Before("exponent", Before("sign", Before("digit", Before("digits", v))))
Exps(y) == Ends(y) \cup Exponents(Before("ws", y))
Fracs(y) ==
  Exps(y) \cup Before(".", Before("digit", Before("digits", Before("exp", Before("ws", y)))))

LEMMA ExpandExp ==
  ASSUME NEW y \in Goals, Stable(y)
  PROVE  /\ Expand(Expand(Before("exp", Before("ws", y)))) = Exps(y)
         /\ Stable(Exps(y))
<1> DEFINE v == Before("ws", y)
           e == Exponents(v)
<1>1. v \in Goals BY Typed
<1> HIDE DEF v
<1>2. Expand(Before("exp", v)) = v \cup e
  <2>1. Expand(Before("exp", v))
          = v \cup Before("exponent", Before("digit", Before("digits", v)))
              \cup Before("exponent", Before("sign", Before("digit", Before("digits", v))))
    BY <1>1, Rules
  <2> QED BY <2>1 DEF Exponents
<1>3. Stable(e)
  <2>1. /\ Stable(Before("exponent", Before("digit", Before("digits", v))))
        /\ Stable(Before("exponent", Before("sign", Before("digit", Before("digits", v)))))
    BY Terminals
  <2> QED BY <2>1, StableUnion DEF Exponents
<1> HIDE DEF e
<1>4. Expand(v) = Ends(y) /\ Stable(Ends(y)) BY ExpandWs DEF v
<1>5. Expand(v \cup e) = Ends(y) \cup e BY <1>3, <1>4, ExpandUnion DEF Stable
<1>6. Stable(Ends(y) \cup e) BY <1>3, <1>4, StableUnion
<1> QED BY <1>2, <1>5, <1>6 DEF Exps, e, v

LEMMA ExpandFrac ==
  ASSUME NEW y \in Goals, Stable(y)
  PROVE  /\ Expand(Expand(Expand(Before("frac", Before("exp", Before("ws", y)))))) = Fracs(y)
         /\ Stable(Fracs(y))
<1> DEFINE v == Before("ws", y)
           e == Before("exp", v)
           f == Before(".", Before("digit", Before("digits", e)))
<1>1. e \in Goals BY Typed
<1>2. Expand(Expand(e)) = Exps(y) /\ Stable(Exps(y)) BY ExpandExp
<1>3. Stable(f) BY Terminals
<1> HIDE DEF e
<1>4. Expand(Before("frac", e)) = e \cup f BY <1>1, Rules
<1> HIDE DEF f
<1>5. Expand(Expand(e \cup f)) = Exps(y) \cup f BY <1>2, <1>3, ExpandUnion DEF Stable
<1>6. Stable(Exps(y) \cup f) BY <1>2, <1>3, StableUnion
<1> QED BY <1>4, <1>5, <1>6 DEF Fracs, e, f, v

(* The digits of an integer, of a fraction and of an exponent.             *)
Digits(w) == Before("digit", Before("digits", w))

LEMMA ExpandDigits ==
  ASSUME NEW w \in Goals
  PROVE  Expand(Before("digits", w)) = w \cup Digits(w) /\ Stable(Digits(w))
  BY Rules, Terminals DEF Digits

LEMMA PredictNumber ==
  ASSUME NEW y \in Goals, Stable(y), NEW v, v = Before("ws", y)
  PROVE  /\ Predict(Before("frac", Before("exp", v))) = Fracs(y)
         /\ Predict(Before("digits", Before("frac", Before("exp", v))))
              = Fracs(y) \cup Digits(Before("frac", Before("exp", v)))
         /\ Predict(Before("digits", Before("exp", v)))
              = Exps(y) \cup Digits(Before("exp", v))
         /\ Predict(Before("digits", v)) = Ends(y) \cup Digits(v)
<1> DEFINE e == Before("exp", v)
           f == Before("frac", e)
<1>1. v \in Goals /\ e \in Goals /\ f \in Goals BY Typed
<1>2. Expand(v) = Ends(y) /\ Expand(Ends(y)) = Ends(y) BY ExpandWs DEF Stable
<1>3. Expand(Expand(e)) = Exps(y) /\ Expand(Exps(y)) = Exps(y) BY ExpandExp DEF Stable
<1>4. Expand(Expand(Expand(f))) = Fracs(y) /\ Expand(Fracs(y)) = Fracs(y) BY ExpandFrac DEF Stable
<1> HIDE DEF e, f
<1>5. Predict(f) = Fracs(y) BY <1>4 DEF Predict
<1>6. ASSUME NEW w \in Goals, NEW end, Expand(Expand(Expand(w))) = end, Expand(end) = end
      PROVE  Predict(Before("digits", w)) = end \cup Digits(w)
  <2> DEFINE d == Digits(w)
  <2>1. Expand(Before("digits", w)) = w \cup d /\ Expand(d) = d BY ExpandDigits DEF Stable
  <2> HIDE DEF d
  <2>2. Expand(Expand(Expand(w \cup d))) = end \cup d BY <1>6, <2>1, ExpandUnion
  <2>3. Expand(end \cup d) = end \cup d BY <1>6, <2>1, ExpandUnion
  <2> QED BY <2>1, <2>2, <2>3 DEF Predict, d
<1>7. Predict(Before("digits", f)) = Fracs(y) \cup Digits(f) BY <1>1, <1>4, <1>6
<1>8. Predict(Before("digits", e)) = Exps(y) \cup Digits(e)
  <2>1. Expand(Expand(Expand(e))) = Exps(y) BY <1>3
  <2> QED BY <1>1, <1>3, <1>6, <2>1
<1>9. Predict(Before("digits", v)) = Ends(y) \cup Digits(v)
  <2>1. Expand(Expand(Expand(v))) = Ends(y) BY <1>2
  <2> QED BY <1>1, <1>2, <1>6, <2>1
<1> QED BY <1>5, <1>7, <1>8, <1>9 DEF e, f

(* What may follow the sign of a number; n is what follows the integer.    *)
Ints(n) == Before("0", n) \cup Before("1", Before("digits", n))

LEMMA ExpandInt ==
  ASSUME NEW n
  PROVE  Expand(Before("int", n)) = Ints(n) /\ Stable(Ints(n))
<1>1. Stable(Before("0", n)) /\ Stable(Before("1", Before("digits", n))) BY Terminals
<1> QED BY <1>1, Rules, StableUnion DEF Ints

(* Inside of a string, and behind a backslash; q is what follows a char.   *)
Quoted(v) == Before("chars", Before("\"", v))
Strings(v) ==
  Before("\"", v) \cup Before("plain", Quoted(v)) \cup Before("\\", Before("escaped", Quoted(v)))
Escapes(q) ==
  Before("short", q) \cup Before("u", Before("hex", Before("hex", Before("hex", Before("hex", q)))))

LEMMA ExpandString ==
  ASSUME NEW v
  PROVE  /\ Expand(Quoted(v)) = Strings(v) /\ Stable(Strings(v))
         /\ Expand(Before("string", v)) = Before("\"", Quoted(v)) /\ Stable(Before("\"", Quoted(v)))
<1>1. Before("\"", v) \in Goals BY Typed
<1>2. Expand(Quoted(v)) = Strings(v) BY <1>1, Rules DEF Quoted, Strings
<1>3. /\ Stable(Before("\"", v)) /\ Stable(Before("plain", Quoted(v)))
      /\ Stable(Before("\\", Before("escaped", Quoted(v)))) /\ Stable(Before("\"", Quoted(v)))
  BY Terminals
<1>4. Stable(Strings(v)) BY <1>3, StableUnion DEF Strings
<1>5. Expand(Before("string", v)) = Before("\"", Quoted(v)) BY Rules DEF Quoted
<1> QED BY <1>2, <1>3, <1>4, <1>5

LEMMA ExpandEscaped ==
  ASSUME NEW q
  PROVE  Expand(Before("escaped", q)) = Escapes(q) /\ Stable(Escapes(q))
<1>1. /\ Stable(Before("short", q))
      /\ Stable(Before("u", Before("hex", Before("hex", Before("hex", Before("hex", q))))))
  BY Terminals
<1> QED BY <1>1, Rules, StableUnion DEF Escapes

(* What a value may begin with; v is what follows it.                      *)
Objects(v) ==
  Before(Open, Before("ws", Before(Close, v))) \cup Before(Open, Before("members", Before(Close, v)))
Arrays(v) ==
  Before("[", Before("ws", Before("]", v))) \cup Before("[", Before("elements", Before("]", v)))
Numbers(n) == Ints(n) \cup Before("-", Before("int", n))
Words(v) ==
  Before("t", Before("r", Before("u", Before("e", v))))
    \cup Before("f", Before("a", Before("l", Before("s", Before("e", v)))))
    \cup Before("n", Before("u", Before("l", Before("l", v))))
Values(v) ==
  Objects(v) \cup Arrays(v) \cup Before("\"", Quoted(v))
    \cup Numbers(Before("frac", Before("exp", v))) \cup Words(v)

LEMMA ExpandNumber ==
  ASSUME NEW v, NEW n, n = Before("frac", Before("exp", v))
  PROVE  Expand(Expand(Before("number", v))) = Numbers(n) /\ Stable(Numbers(n))
<1> DEFINE m == Before("-", Before("int", n))
<1>1. Expand(Before("number", v)) = Before("int", n) \cup m BY Rules
<1>2. Expand(Before("int", n)) = Ints(n) /\ Stable(Ints(n)) BY ExpandInt
<1>3. Stable(m) BY Terminals
<1> HIDE DEF m
<1>4. Expand(Before("int", n) \cup m) = Ints(n) \cup m BY <1>2, <1>3, ExpandUnion DEF Stable
<1>5. Stable(Ints(n) \cup m) BY <1>2, <1>3, StableUnion
<1> QED BY <1>1, <1>4, <1>5 DEF Numbers, m

LEMMA ExpandCompound ==
  ASSUME NEW v
  PROVE  /\ Expand(Before("object", v)) = Objects(v) /\ Stable(Objects(v))
         /\ Expand(Before("array", v)) = Arrays(v) /\ Stable(Arrays(v))
         /\ Stable(Words(v))
<1>1. /\ Stable(Before(Open, Before("ws", Before(Close, v))))
      /\ Stable(Before(Open, Before("members", Before(Close, v))))
      /\ Stable(Before("[", Before("ws", Before("]", v))))
      /\ Stable(Before("[", Before("elements", Before("]", v))))
  BY Terminals
<1>2. Stable(Objects(v)) /\ Stable(Arrays(v)) BY <1>1, StableUnion DEF Objects, Arrays
<1>3. Expand(Before("object", v)) = Objects(v) BY Rules DEF Objects
<1>4. Expand(Before("array", v)) = Arrays(v) BY Rules DEF Arrays
<1>5. /\ Stable(Before("t", Before("r", Before("u", Before("e", v)))))
      /\ Stable(Before("f", Before("a", Before("l", Before("s", Before("e", v))))))
      /\ Stable(Before("n", Before("u", Before("l", Before("l", v)))))
  BY Terminals
<1>6. Stable(Words(v)) BY <1>5, StableUnion DEF Words
<1> QED BY <1>2, <1>3, <1>4, <1>6

LEMMA ExpandValue ==
  ASSUME NEW v
  PROVE  Expand(Expand(Expand(Before("value", v)))) = Values(v) /\ Stable(Values(v))
<1> DEFINE n == Before("frac", Before("exp", v))
           o == Before("object", v)
           a == Before("array", v)
           s == Before("string", v)
           k == Before("number", v)
           t == Before("\"", Quoted(v))
           w == Words(v)
<1>1. Expand(Before("value", v)) = o \cup a \cup s \cup k \cup w
  <2>1. Expand(Before("value", v))
          = o \cup a \cup s \cup k \cup Before("t", Before("r", Before("u", Before("e", v))))
              \cup Before("f", Before("a", Before("l", Before("s", Before("e", v)))))
              \cup Before("n", Before("u", Before("l", Before("l", v))))
    BY Rules
  <2> HIDE DEF o, a, s, k
  <2> QED BY <2>1 DEF Words
<1>2. /\ Expand(o) = Objects(v) /\ Stable(Objects(v))
      /\ Expand(a) = Arrays(v) /\ Stable(Arrays(v))
      /\ Stable(w)
  BY ExpandCompound
<1>3. Expand(s) = t /\ Stable(t) BY ExpandString
<1>4. Expand(Expand(k)) = Numbers(n) /\ Stable(Numbers(n)) BY ExpandNumber
<1>5. /\ Expand(Objects(v)) = Objects(v) /\ Expand(Arrays(v)) = Arrays(v)
      /\ Expand(t) = t /\ Expand(w) = w
  BY <1>2, <1>3 DEF Stable
<1> HIDE DEF o, a, s, k, w, n, t
<1>6. Expand(o \cup a \cup s \cup k \cup w) = Objects(v) \cup Arrays(v) \cup t \cup Expand(k) \cup w
  <2> DEFINE g == o \cup a
             h == g \cup s
             i == h \cup k
  <2>1. Expand(g) = Objects(v) \cup Arrays(v) BY <1>2, ExpandUnion
  <2> HIDE DEF g
  <2>2. Expand(h) = Expand(g) \cup t BY <1>3, ExpandUnion
  <2> HIDE DEF h
  <2>3. Expand(i) = Expand(h) \cup Expand(k) BY ExpandUnion
  <2> HIDE DEF i
  <2>4. Expand(i \cup w) = Expand(i) \cup w BY <1>5, ExpandUnion
  <2> QED BY <2>1, <2>2, <2>3, <2>4 DEF g, h, i
<1>7. Expand(Objects(v) \cup Arrays(v) \cup t \cup Expand(k) \cup w)
        = Objects(v) \cup Arrays(v) \cup t \cup Numbers(n) \cup w
  <2> DEFINE g == Objects(v) \cup Arrays(v) \cup t
             h == Expand(k)
             i == g \cup h
  <2>1. Stable(g) BY <1>2, <1>3, StableUnion
  <2> HIDE DEF g
  <2>2. Expand(i) = g \cup Numbers(n) BY <1>4, <2>1, ExpandUnion DEF Stable
  <2> HIDE DEF i
  <2>3. Expand(i \cup w) = Expand(i) \cup w BY <1>5, ExpandUnion
  <2> QED BY <2>2, <2>3 DEF g, i
<1>8. Stable(Objects(v) \cup Arrays(v) \cup t \cup Numbers(n) \cup w)
  BY <1>2, <1>3, <1>4, StableUnion
<1> QED BY <1>1, <1>6, <1>7, <1>8 DEF Values, w, n, t

(* Where a value may begin, after any space.                               *)
ValueAhead(v) == Values(v) \cup Before("space", Before("ws", Before("value", v)))

LEMMA ExpandWsValue ==
  ASSUME NEW v
  PROVE  /\ Expand(Expand(Expand(Expand(Before("ws", Before("value", v)))))) = ValueAhead(v)
         /\ Stable(ValueAhead(v))
<1> DEFINE u == Before("value", v)
           b == Before("space", Before("ws", u))
<1>1. u \in Goals BY Typed
<1>2. Stable(b) BY Terminals
<1>3. Expand(Expand(Expand(u))) = Values(v) /\ Stable(Values(v)) BY ExpandValue
<1>4. Expand(Before("ws", u)) = u \cup b
  <2> HIDE DEF u
  <2> QED BY <1>1, Rules
<1> HIDE DEF u, b
<1>5. Expand(u \cup b) = Expand(u) \cup b BY <1>2, ExpandUnion DEF Stable
<1>6. Expand(Expand(u) \cup b) = Expand(Expand(u)) \cup b BY <1>2, ExpandUnion DEF Stable
<1>7. Expand(Expand(Expand(u)) \cup b) = Values(v) \cup b BY <1>2, <1>3, ExpandUnion DEF Stable
<1>8. Stable(Values(v) \cup b) BY <1>2, <1>3, StableUnion
<1> QED BY <1>4, <1>5, <1>6, <1>7, <1>8 DEF ValueAhead, b, u

(* What closes a context, or leads to its next entry, behind a value and   *)
(* the space after it; r is what follows the context.                      *)
Closers(context, r) ==
  IF context = "parseArrayValue"
  THEN Before("]", r) \cup Before(",", Before("elements", Before("]", r)))
  ELSE Before(Close, r) \cup Before(",", Before("members", Before(Close, r)))

LEMMA PredictValue ==
  ASSUME NEW v
  PROVE  Predict(Before("ws", Before("value", v))) = ValueAhead(v)
  BY ExpandWsValue DEF Predict, Stable

LEMMA PredictElement ==
  ASSUME NEW y
  PROVE  Predict(Before("element", y)) = ValueAhead(Before("ws", y))
<1>1. Expand(Before("element", y)) = Before("ws", Before("value", Before("ws", y))) BY Rules
<1> QED BY <1>1, ExpandWsValue DEF Predict, Stable

LEMMA PredictElements ==
  ASSUME NEW r, NEW y, y = Closers("parseArrayValue", r)
  PROVE  Predict(Before("elements", Before("]", r))) = ValueAhead(Before("ws", y))
<1> DEFINE s == Before("]", r)
           t == Before(",", Before("elements", s))
<1>1. Expand(Before("elements", s)) = Before("element", s) \cup Before("element", t) BY Rules
<1> HIDE DEF s, t
<1>2. Before("element", s) \cup Before("element", t) = Before("element", s \cup t) BY BeforeUnion
<1>3. y = s \cup t BY DEF Closers, s, t
<1>4. Expand(Before("element", y)) = Before("ws", Before("value", Before("ws", y))) BY Rules
<1> QED BY <1>1, <1>2, <1>3, <1>4, ExpandWsValue DEF Predict, Stable, s

LEMMA PredictText ==
  ASSUME NEW y, y = {<<>>}
  PROVE  Predict({<<"text">>}) = ValueAhead(Before("ws", y))
<1>1. {<<"text">>} = Before("text", y)
  <2>1. <<>> \in Seq(Symbol) BY EmptySeq
  <2>2. Before("text", y) = {<<"text">> \o <<>>} BY <2>1 DEF Before
  <2>3. <<"text">> \o <<>> = <<"text">>
    <3>1. ASSUME NEW s \in Symbol PROVE <<s>> \o <<>> = <<s>> OBVIOUS
    <3> QED BY <3>1, Symbols
  <2> QED BY <2>2, <2>3
<1>2. Expand(Before("text", y)) = Before("ws", Before("value", Before("ws", y))) BY Rules
<1> QED BY <1>1, <1>2, ExpandWsValue DEF Predict, Stable

(* Where a key may begin, after any space; k is what follows it.           *)
KeyAhead(k) == Before("\"", Quoted(k)) \cup Before("space", Before("ws", Before("string", k)))

LEMMA ExpandWsString ==
  ASSUME NEW k
  PROVE  Expand(Expand(Before("ws", Before("string", k)))) = KeyAhead(k) /\ Stable(KeyAhead(k))
<1> DEFINE u == Before("string", k)
           b == Before("space", Before("ws", u))
           w == Before("\"", Quoted(k))
<1>1. u \in Goals BY Typed
<1>2. Stable(b) BY Terminals
<1>3. Expand(u) = w /\ Stable(w) BY ExpandString
<1>4. Expand(Before("ws", u)) = u \cup b
  <2> HIDE DEF u
  <2> QED BY <1>1, Rules
<1> HIDE DEF u, b, w
<1>5. Expand(u \cup b) = w \cup b BY <1>2, <1>3, ExpandUnion DEF Stable
<1>6. Stable(w \cup b) BY <1>2, <1>3, StableUnion
<1> QED BY <1>4, <1>5, <1>6 DEF KeyAhead, b, u, w

LEMMA PredictString ==
  ASSUME NEW k
  PROVE  Predict(Before("ws", Before("string", k))) = KeyAhead(k)
  BY ExpandWsString DEF Predict, Stable

(* A key, its colon and its value, which y follows.                        *)
Colon(y) == Before(":", Before("element", y))

LEMMA PredictMembers ==
  ASSUME NEW context, context # "parseArrayValue", NEW r, NEW y, y = Closers(context, r)
  PROVE  Predict(Before("members", Before(Close, r))) = KeyAhead(Before("ws", Colon(y)))
<1> DEFINE s == Before(Close, r)
           t == Before(",", Before("members", s))
<1>1. Expand(Before("members", s)) = Before("member", s) \cup Before("member", t) BY Rules
<1> HIDE DEF s, t
<1>2. Before("member", s) \cup Before("member", t) = Before("member", s \cup t) BY BeforeUnion
<1>3. y = s \cup t BY DEF Closers, s, t
<1>4. Expand(Before("member", y)) = Before("ws", Before("string", Before("ws", Colon(y))))
  BY Rules DEF Colon
<1> QED BY <1>1, <1>2, <1>3, <1>4, ExpandWsString DEF Predict, Stable, s
----------------------------------------------------------------------------
(* The bytes that the rules name.                                          *)
LEMMA ByteNames ==
  /\ "t" \in Char /\ "r" \in Char /\ "u" \in Char /\ "e" \in Char
  /\ "f" \in Char /\ "a" \in Char /\ "l" \in Char /\ "s" \in Char
  /\ "n" \in Char /\ Open \in Char /\ Close \in Char /\ "," \in Char
  /\ ":" \in Char /\ "[" \in Char /\ "]" \in Char /\ "\"" \in Char
  /\ "\\" \in Char /\ "-" \in Char /\ "0" \in Char /\ "1" \in Char
  /\ "." \in Char
  BY DEF Char, Space, Hex, Digit, Escape, Open, Close

(* The braces are bytes like all others.                                   *)
LEMMA Braces ==
  /\ Open # Close
  /\ \A x \in Space \cup Literals \cup {"[", "]", ",", ":", "\\"} : x # Open /\ x # Close
  BY DEF Open, Close, Space, Literals

LEMMA ReadEnds ==
  ASSUME NEW y \in Goals, NEW c
  PROVE  /\ c \in Space => Read(Ends(y), c) = Read(y, c) \cup Before("ws", y)
         /\ c \notin Space => Read(Ends(y), c) = Read(y, c)
<1> DEFINE w == Before("ws", y)
           b == Before("space", w)
<1>1. w \in Goals BY Typed
<1> HIDE DEF w
<1>2. Read(b, c) = IF c \in Space THEN w ELSE {} BY <1>1, ReadClass
<1> HIDE DEF b
<1>3. Read(y \cup b, c) = Read(y, c) \cup Read(b, c) BY ReadUnion
<1> QED BY <1>2, <1>3 DEF Ends, b, w

LEMMA ReadText ==
  ASSUME NEW c
  PROVE  Read({<<>>}, c) = {} /\ Stable({<<>>}) /\ {<<>>} \in Goals
<1>1. Read({<<>>}, c) = {} BY DEF Read
<1>2. Expand({<<>>}) = {<<>>} BY DEF Expand, Expanded
<1> QED BY <1>1, <1>2, EmptySeq DEF Stable, Goals

LEMMA ReadColon ==
  ASSUME NEW y, NEW c
  PROVE  Read(Colon(y), c) = IF c = ":" THEN Before("element", y) ELSE {}
<1>1. Before("element", y) \in Goals BY Typed
<1> QED BY <1>1, ByteNames, ReadByte DEF Colon

LEMMA ReadClosers ==
  ASSUME NEW context, NEW r \in Goals, NEW c
  PROVE  /\ context = "parseArrayValue" =>
              Read(Closers(context, r), c)
                = IF c = "]" THEN r
                  ELSE IF c = "," THEN Before("elements", Before("]", r)) ELSE {}
         /\ context # "parseArrayValue" =>
              Read(Closers(context, r), c)
                = IF c = Close THEN r
                  ELSE IF c = "," THEN Before("members", Before(Close, r)) ELSE {}
<1>1. ASSUME NEW m \in Goals
      PROVE  /\ Read(Before("]", r) \cup Before(",", m), c)
                  = IF c = "]" THEN r ELSE IF c = "," THEN m ELSE {}
             /\ Read(Before(Close, r) \cup Before(",", m), c)
                  = IF c = Close THEN r ELSE IF c = "," THEN m ELSE {}
  <2> DEFINE a == Before("]", r)
             b == Before(",", m)
             d == Before(Close, r)
  <2>1. /\ Read(a, c) = IF c = "]" THEN r ELSE {}
        /\ Read(d, c) = IF c = Close THEN r ELSE {}
    BY ByteNames, ReadByte
  <2>2. Read(b, c) = IF c = "," THEN m ELSE {} BY <1>1, ByteNames, ReadByte
  <2> HIDE DEF a, b, d
  <2>3. Read(a \cup b, c) = Read(a, c) \cup Read(b, c) BY ReadUnion
  <2>4. Read(d \cup b, c) = Read(d, c) \cup Read(b, c) BY ReadUnion
  <2>5. Close # "," BY Braces
  <2>6. Read(a \cup b, c) = IF c = "]" THEN r ELSE IF c = "," THEN m ELSE {}
    BY <2>1, <2>2, <2>3
  <2>7. Read(d \cup b, c) = IF c = Close THEN r ELSE IF c = "," THEN m ELSE {}
    BY <2>1, <2>2, <2>4, <2>5
  <2> QED BY <2>6, <2>7 DEF a, b, d
<1>2. Before("elements", Before("]", r)) \in Goals /\ Before("members", Before(Close, r)) \in Goals
  BY Typed
<1> QED BY <1>1, <1>2 DEF Closers

(* y is what may follow a value, or a key: the end of the text, a closing  *)
(* bracket, a comma or a colon.                                            *)
Closing(y) ==
  /\ y \in Goals
  /\ Stable(y)
  /\ \A c : c \notin {",", ":", "]", Close} => Read(y, c) = {}

LEMMA ReadStrings ==
  ASSUME NEW v \in Goals, NEW c \in Char
  PROVE  /\ c = "\"" => Read(Strings(v), c) = v
         /\ c = "\\" => Read(Strings(v), c) = Before("escaped", Quoted(v))
         /\ c \in {"tab", "control"} => Read(Strings(v), c) = {}
         /\ c \notin {"\"", "\\", "tab", "control"} => Read(Strings(v), c) = Quoted(v)
<1> DEFINE q == Quoted(v)
           e == Before("escaped", q)
           i == Before("\"", v)
           j == Before("plain", q)
           k == Before("\\", e)
           l == i \cup j
<1>1. q \in Goals BY Typed DEF Quoted
<1>2. e \in Goals BY Typed
<1> HIDE DEF q, e
<1>3. Read(i, c) = IF c = "\"" THEN v ELSE {} BY ByteNames, ReadByte
<1>4. Read(j, c) = IF c \in Char \ {"\"", "\\", "tab", "control"} THEN q ELSE {}
  BY <1>1, ReadClass
<1>5. Read(k, c) = IF c = "\\" THEN e ELSE {} BY <1>2, ByteNames, ReadByte
<1> HIDE DEF i, j, k
<1>6. Read(l, c) = Read(i, c) \cup Read(j, c) BY ReadUnion
<1> HIDE DEF l
<1>7. Read(l \cup k, c) = Read(l, c) \cup Read(k, c) BY ReadUnion
<1>8. Strings(v) = l \cup k BY DEF Strings, l, i, j, k, e, q
<1> QED BY <1>3, <1>4, <1>5, <1>6, <1>7, <1>8 DEF e, q

LEMMA ReadEscapes ==
  ASSUME NEW q \in Goals, NEW c
  PROVE  /\ c \in Escape \ {"u"} => Read(Escapes(q), c) = q
         /\ c = "u" => Read(Escapes(q), c)
                         = Before("hex", Before("hex", Before("hex", Before("hex", q))))
         /\ c \notin Escape => Read(Escapes(q), c) = {}
<1> DEFINE h == Before("hex", Before("hex", Before("hex", Before("hex", q))))
           i == Before("short", q)
           j == Before("u", h)
<1>1. h \in Goals BY Typed
<1> HIDE DEF h
<1>2. Read(i, c) = IF c \in Escape \ {"u"} THEN q ELSE {} BY ReadClass
<1>3. Read(j, c) = IF c = "u" THEN h ELSE {} BY <1>1, ByteNames, ReadByte
<1> HIDE DEF i, j
<1>4. Read(i \cup j, c) = Read(i, c) \cup Read(j, c) BY ReadUnion
<1>5. Escapes(q) = i \cup j BY DEF Escapes, i, j, h
<1>6. "u" \in Escape BY DEF Escape
<1> QED BY <1>2, <1>3, <1>4, <1>5, <1>6 DEF h

LEMMA ReadDigits ==
  ASSUME NEW w, NEW c
  PROVE  Read(Digits(w), c) = IF c \in Digit THEN Before("digits", w) ELSE {}
<1>1. Before("digits", w) \in Goals BY Typed
<1> QED BY <1>1, ReadClass DEF Digits

(* Behind an e.                                                            *)
Powers(v) == Digits(v) \cup Before("sign", Digits(v))

LEMMA ReadPowers ==
  ASSUME NEW v, NEW c
  PROVE  /\ c \in Digit => Read(Powers(v), c) = Before("digits", v)
         /\ c \in {"+", "-"} => Read(Powers(v), c) = Digits(v)
         /\ c \notin Digit \cup {"+", "-"} => Read(Powers(v), c) = {}
         /\ Stable(Powers(v))
<1> DEFINE d == Digits(v)
           e == Before("sign", d)
<1>1. d \in Goals BY Typed DEF Digits
<1>2. Read(d, c) = IF c \in Digit THEN Before("digits", v) ELSE {} BY ReadDigits
<1>3. Stable(d) BY Terminals DEF Digits
<1> HIDE DEF d
<1>4. Read(e, c) = IF c \in {"+", "-"} THEN d ELSE {} BY <1>1, ReadClass
<1>5. Stable(e) BY Terminals
<1> HIDE DEF e
<1>6. Read(d \cup e, c) = Read(d, c) \cup Read(e, c) BY ReadUnion
<1>7. Stable(d \cup e) BY <1>3, <1>5, StableUnion
<1>8. Powers(v) = d \cup e BY DEF Powers, d, e
<1>9. "+" \notin Digit /\ "-" \notin Digit BY DEF Digit
<1> QED BY <1>2, <1>4, <1>6, <1>7, <1>8, <1>9 DEF d

LEMMA ReadExps ==
  ASSUME NEW y, Closing(y), NEW v, v = Before("ws", y), NEW c
  PROVE  /\ c \in Exponent => Read(Exps(y), c) = Powers(v)
         /\ c \notin Exponent => Read(Exps(y), c) = Read(Ends(y), c)
<1> DEFINE d == Digits(v)
           e == Before("sign", d)
           i == Before("exponent", d)
           j == Before("exponent", e)
           x == Exponents(v)
<1>1. d \in Goals BY Typed DEF Digits
<1>2. e \in Goals BY Typed
<1>3. x = i \cup j BY DEF Exponents, Digits
<1> HIDE DEF d, e, x
<1>4. Read(i, c) = IF c \in {"e", "E"} THEN d ELSE {} BY <1>1, ReadClass
<1>5. Read(j, c) = IF c \in {"e", "E"} THEN e ELSE {} BY <1>2, ReadClass
<1> HIDE DEF i, j
<1>6. Read(i \cup j, c) = Read(i, c) \cup Read(j, c) BY ReadUnion
<1>7. Read(Ends(y) \cup x, c) = Read(Ends(y), c) \cup Read(x, c) BY ReadUnion
<1>8. Exps(y) = Ends(y) \cup x BY DEF Exps, x
<1>9. c \in Exponent => c \notin Space /\ c \notin {",", ":", "]", Close}
  BY Braces DEF Exponent, Space, Close
<1>10. c \in Exponent => Read(Ends(y), c) = {}
  <2>1. y \in Goals BY DEF Closing
  <2> QED BY <1>9, <2>1, ReadEnds DEF Closing
<1>11. Powers(v) = d \cup e BY DEF Powers, d, e
<1> QED BY <1>3, <1>4, <1>5, <1>6, <1>7, <1>8, <1>10, <1>11 DEF Exponent

LEMMA ReadFracs ==
  ASSUME NEW y, Closing(y), NEW v, v = Before("ws", y), NEW c
  PROVE  /\ c = "." => Read(Fracs(y), c) = Digits(Before("exp", v))
         /\ c \in Exponent => Read(Fracs(y), c) = Powers(v)
         /\ c \notin Exponent \cup {"."} => Read(Fracs(y), c) = Read(Ends(y), c)
<1> DEFINE d == Digits(Before("exp", v))
           i == Before(".", d)
<1>1. d \in Goals BY Typed DEF Digits
<1>2. Fracs(y) = Exps(y) \cup i BY DEF Fracs, Digits
<1> HIDE DEF d
<1>3. Read(i, c) = IF c = "." THEN d ELSE {} BY <1>1, ByteNames, ReadByte
<1> HIDE DEF i
<1>4. Read(Exps(y) \cup i, c) = Read(Exps(y), c) \cup Read(i, c) BY ReadUnion
<1>5. "." \notin Exponent /\ "." \notin Space /\ "." \notin {",", ":", "]", Close}
  BY DEF Exponent, Space, Close
<1>6. Read(Ends(y), ".") = {}
  <2>1. y \in Goals BY DEF Closing
  <2> QED BY <1>5, <2>1, ReadEnds DEF Closing
<1> QED BY <1>2, <1>3, <1>4, <1>5, <1>6, ReadExps DEF d

LEMMA ReadInts ==
  ASSUME NEW n \in Goals, NEW c
  PROVE  Read(Ints(n), c) = IF c = "0" THEN n ELSE IF c = "1" THEN Before("digits", n) ELSE {}
<1> DEFINE d == Before("digits", n)
           i == Before("0", n)
           j == Before("1", d)
<1>1. d \in Goals BY Typed
<1>2. Ints(n) = i \cup j BY DEF Ints
<1> HIDE DEF d
<1>3. Read(i, c) = IF c = "0" THEN n ELSE {} BY ByteNames, ReadByte
<1>4. Read(j, c) = IF c = "1" THEN d ELSE {} BY <1>1, ByteNames, ReadByte
<1> HIDE DEF i, j
<1>5. Read(i \cup j, c) = Read(i, c) \cup Read(j, c) BY ReadUnion
<1>6. Read(i \cup j, c) = IF c = "0" THEN n ELSE IF c = "1" THEN d ELSE {}
  BY <1>3, <1>4, <1>5
<1> QED BY <1>2, <1>6 DEF d

LEMMA ReadNumbers ==
  ASSUME NEW n \in Goals, NEW c
  PROVE  /\ c = "0" => Read(Numbers(n), c) = n
         /\ c = "1" => Read(Numbers(n), c) = Before("digits", n)
         /\ c = "-" => Read(Numbers(n), c) = Before("int", n)
         /\ c \notin {"0", "1", "-"} => Read(Numbers(n), c) = {}
<1> DEFINE d == Before("digits", n)
           i == Before("int", n)
           m == Before("-", i)
           k == Ints(n)
<1>1. i \in Goals BY Typed
<1>2. Numbers(n) = k \cup m BY DEF Numbers
<1>3. Read(k, c) = IF c = "0" THEN n ELSE IF c = "1" THEN d ELSE {} BY ReadInts
<1> HIDE DEF i, d, k
<1>4. Read(m, c) = IF c = "-" THEN i ELSE {} BY <1>1, ByteNames, ReadByte
<1> HIDE DEF m
<1>5. Read(k \cup m, c) = Read(k, c) \cup Read(m, c) BY ReadUnion
<1>6. /\ c = "0" => Read(k \cup m, c) = n
      /\ c = "1" => Read(k \cup m, c) = d
      /\ c = "-" => Read(k \cup m, c) = i
      /\ c \notin {"0", "1", "-"} => Read(k \cup m, c) = {}
  BY <1>3, <1>4, <1>5
<1> QED BY <1>2, <1>6 DEF i, d

LEMMA ReadWords ==
  ASSUME NEW v, NEW c
  PROVE  /\ c = "t" => Read(Words(v), c) = Before("r", Before("u", Before("e", v)))
         /\ c = "f" => Read(Words(v), c)
                         = Before("a", Before("l", Before("s", Before("e", v))))
         /\ c = "n" => Read(Words(v), c) = Before("u", Before("l", Before("l", v)))
         /\ c \notin {"t", "f", "n"} => Read(Words(v), c) = {}
<1> DEFINE t == Before("r", Before("u", Before("e", v)))
           f == Before("a", Before("l", Before("s", Before("e", v))))
           n == Before("u", Before("l", Before("l", v)))
           i == Before("t", t)
           j == Before("f", f)
           k == Before("n", n)
           l == i \cup j
<1>1. t \in Goals /\ f \in Goals /\ n \in Goals BY Typed
<1>2. Words(v) = l \cup k BY DEF Words
<1> HIDE DEF t, f, n
<1>3. Read(i, c) = IF c = "t" THEN t ELSE {} BY <1>1, ByteNames, ReadByte
<1>4. Read(j, c) = IF c = "f" THEN f ELSE {} BY <1>1, ByteNames, ReadByte
<1>5. Read(k, c) = IF c = "n" THEN n ELSE {} BY <1>1, ByteNames, ReadByte
<1> HIDE DEF i, j, k
<1>6. Read(l, c) = Read(i, c) \cup Read(j, c) BY ReadUnion
<1> HIDE DEF l
<1>7. Read(l \cup k, c) = Read(l, c) \cup Read(k, c) BY ReadUnion
<1>8. /\ c = "t" => Read(l \cup k, c) = t
      /\ c = "f" => Read(l \cup k, c) = f
      /\ c = "n" => Read(l \cup k, c) = n
      /\ c \notin {"t", "f", "n"} => Read(l \cup k, c) = {}
  BY <1>3, <1>4, <1>5, <1>6, <1>7
<1> QED BY <1>2, <1>8 DEF t, f, n

LEMMA ReadCompounds ==
  ASSUME NEW v, NEW c
  PROVE  /\ Read(Objects(v), c)
              = IF c = Open
                THEN Before("ws", Before(Close, v)) \cup Before("members", Before(Close, v)) ELSE {}
         /\ Read(Arrays(v), c)
              = IF c = "["
                THEN Before("ws", Before("]", v)) \cup Before("elements", Before("]", v)) ELSE {}
<1>1. ASSUME NEW b \in Char, NEW m \in Goals, NEW n \in Goals
      PROVE  Read(Before(b, m) \cup Before(b, n), c) = IF c = b THEN m \cup n ELSE {}
  <2>1. Before(b, m) \cup Before(b, n) = Before(b, m \cup n) BY BeforeUnion
  <2>2. m \cup n \in Goals BY GoalsUnion
  <2>3. Read(Before(b, m \cup n), c) = IF c = b THEN m \cup n ELSE {} BY <2>2, ReadByte
  <2> QED BY <2>1, <2>3
<1>2. /\ Before("ws", Before(Close, v)) \in Goals /\ Before("members", Before(Close, v)) \in Goals
      /\ Before("ws", Before("]", v)) \in Goals /\ Before("elements", Before("]", v)) \in Goals
  BY Typed
<1>3. Open \in Char /\ "[" \in Char BY ByteNames
<1> QED BY <1>1, <1>2, <1>3 DEF Objects, Arrays

LEMMA ReadValues ==
  ASSUME NEW v, NEW n, n = Before("frac", Before("exp", v)), NEW c
  PROVE  /\ c \in {Open, "["} => Read(Values(v), c) = Read(Objects(v), c) \cup Read(Arrays(v), c)
         /\ c = "\"" => Read(Values(v), c) = Quoted(v)
         /\ c \in {"0", "1", "-"} => Read(Values(v), c) = Read(Numbers(n), c)
         /\ c \in {"t", "f", "n"} => Read(Values(v), c) = Read(Words(v), c)
         /\ c \notin {Open, "["} \cup Literals => Read(Values(v), c) = {}
<1> DEFINE o == Objects(v)
           a == Arrays(v)
           q == Quoted(v)
           s == Before("\"", q)
           k == Numbers(n)
           w == Words(v)
           g == o \cup a
           h == g \cup s
           i == h \cup k
<1>1. q \in Goals /\ n \in Goals BY Typed DEF Quoted
<1>2. Values(v) = i \cup w BY DEF Values
<1>3. c # Open => Read(o, c) = {} BY ReadCompounds
<1>4. c # "[" => Read(a, c) = {} BY ReadCompounds
<1>5. c \notin {"0", "1", "-"} => Read(k, c) = {} BY <1>1, ReadNumbers
<1>6. c \notin {"t", "f", "n"} => Read(w, c) = {} BY ReadWords
<1> HIDE DEF o, a, q, k, w
<1>7. Read(s, c) = IF c = "\"" THEN q ELSE {} BY <1>1, ByteNames, ReadByte
<1> HIDE DEF s
<1>8. Read(g, c) = Read(o, c) \cup Read(a, c) BY ReadUnion
<1> HIDE DEF g
<1>9. Read(h, c) = Read(g, c) \cup Read(s, c) BY ReadUnion
<1> HIDE DEF h
<1>10. Read(i, c) = Read(h, c) \cup Read(k, c) BY ReadUnion
<1> HIDE DEF i
<1>11. Read(i \cup w, c) = Read(i, c) \cup Read(w, c) BY ReadUnion
<1>12. Open \notin Literals /\ Open # "[" BY Braces
<1>13. /\ c \in {Open, "["} => Read(i \cup w, c) = Read(o, c) \cup Read(a, c)
       /\ c = "\"" => Read(i \cup w, c) = q
       /\ c \in {"0", "1", "-"} => Read(i \cup w, c) = Read(k, c)
       /\ c \in {"t", "f", "n"} => Read(i \cup w, c) = Read(w, c)
       /\ c \notin {Open, "["} \cup Literals => Read(i \cup w, c) = {}
  BY <1>3, <1>4, <1>5, <1>6, <1>7, <1>8, <1>9, <1>10, <1>11, <1>12 DEF Literals
<1> QED BY <1>2, <1>13 DEF o, a, q, k, w

LEMMA ReadValueAhead ==
  ASSUME NEW v, NEW c
  PROVE  /\ c \in Space => Read(ValueAhead(v), c) = Before("ws", Before("value", v))
         /\ c \notin Space => Read(ValueAhead(v), c) = Read(Values(v), c)
<1> DEFINE u == Before("ws", Before("value", v))
           b == Before("space", u)
           g == Values(v)
<1>1. u \in Goals BY Typed
<1>2. ValueAhead(v) = g \cup b BY DEF ValueAhead
<1>3. c \in Space => c \notin {Open, "["} \cup Literals
  <2>1. Open \notin Space BY Braces
  <2> QED BY <2>1 DEF Space, Literals
<1>4. c \in Space => Read(g, c) = {} BY <1>3, ReadValues
<1> HIDE DEF u, g
<1>5. Read(b, c) = IF c \in Space THEN u ELSE {} BY <1>1, ReadClass
<1> HIDE DEF b
<1>6. Read(g \cup b, c) = Read(g, c) \cup Read(b, c) BY ReadUnion
<1> QED BY <1>2, <1>4, <1>5, <1>6 DEF u, g

LEMMA ReadKeyAhead ==
  ASSUME NEW k, NEW c
  PROVE  /\ c \in Space => Read(KeyAhead(k), c) = Before("ws", Before("string", k))
         /\ c = "\"" => Read(KeyAhead(k), c) = Quoted(k)
         /\ c \notin Space \cup {"\""} => Read(KeyAhead(k), c) = {}
<1> DEFINE u == Before("ws", Before("string", k))
           b == Before("space", u)
           q == Quoted(k)
           g == Before("\"", q)
<1>1. u \in Goals BY Typed
<1>2. q \in Goals BY Typed DEF Quoted
<1>3. KeyAhead(k) = g \cup b BY DEF KeyAhead
<1> HIDE DEF u, q
<1>4. Read(b, c) = IF c \in Space THEN u ELSE {} BY <1>1, ReadClass
<1>5. Read(g, c) = IF c = "\"" THEN q ELSE {} BY <1>2, ByteNames, ReadByte
<1> HIDE DEF g, b
<1>6. Read(g \cup b, c) = Read(g, c) \cup Read(b, c) BY ReadUnion
<1>7. "\"" \notin Space BY DEF Space
<1> QED BY <1>3, <1>4, <1>5, <1>6, <1>7 DEF u, q
=============================================================================
