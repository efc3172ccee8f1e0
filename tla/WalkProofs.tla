----------------------------- MODULE WalkProofs -----------------------------
(***************************************************************************)
(* No bytes, however malformed, make WalkAndNotify or the scanner index    *)
(* out of range.  The argument: only the innermost context of parseState   *)
(* can wait for a key, and while it does a string literal has begun at     *)
(* lastLiteralPos before the scanner is inside or behind a literal.        *)
(***************************************************************************)
EXTENDS WalkKeys, ScannerProofs

(* While the innermost context waits for a key, lastLiteralPos is behind   *)
(* the next byte inside of the key, and two behind it after the key.       *)
KeyBegun ==
  /\ InKey(scan) /\ scan.step \in StringStates => lastLiteralPos <= i - 1
  /\ InKey(scan) /\ scan.step = "stateEndValue" => lastLiteralPos <= i - 2

IInv ==
  /\ TypeOK
  /\ result = "walking" => KeyBegun

LEMMA InitIInv == ASSUME Init PROVE IInv
<1>1. WellFormed(NewScanner) /\ ~InKey(NewScanner)
  BY EmptySeq DEF WellFormed, NewScanner, InKey, Steps, Opcodes
<1> QED BY <1>1, EmptySeq DEF Init, IInv, TypeOK, KeyBegun

(* The scanner's answer to the next byte.                                  *)
LEMMA SteppedAnswers == ASSUME IInv, Reading PROVE Answers(scan, Stepped)
  BY StepAnswers DEF IInv, TypeOK, Stepped

LEMMA SkipIInv == ASSUME IInv, Skip PROVE IInv'
<1>1. Answers(scan, Stepped) BY SteppedAnswers DEF Skip
<1>2. TypeOK' BY <1>1 DEF Skip, Reading, IInv, TypeOK, Answers
<1>3. KeyBegun'
  <2>1. i \in Nat \ {0} /\ i' = i + 1 /\ lastLiteralPos \in 1..i
    BY DEF Skip, IInv, TypeOK
  <2>2. ASSUME InKey(scan'), scan'.step \in StringStates PROVE lastLiteralPos' <= i' - 1
    <3>1. Stepped.op = "scanBeginLiteral" \/ (InKey(scan) /\ scan.step \in StringStates)
      BY <1>1, <2>2 DEF Skip, Answers
    <3> QED BY <2>1, <3>1 DEF Skip
  <2>3. ASSUME InKey(scan'), scan'.step = "stateEndValue" PROVE lastLiteralPos' <= i' - 2
    <3>1. /\ InKey(scan) /\ scan.step \in StringStates \cup {"stateEndValue"}
          /\ Stepped.op # "scanBeginLiteral"
      BY <1>1, <2>3 DEF Skip, Answers
    <3>2. lastLiteralPos <= i - 1 BY <2>1, <3>1 DEF Skip, Reading, IInv, KeyBegun
    <3> QED BY <2>1, <3>1, <3>2 DEF Skip
  <2> QED BY <2>2, <2>3 DEF KeyBegun
<1> QED BY <1>2, <1>3 DEF IInv

LEMMA ObjectKeyIInv == ASSUME IInv, ObjectKey PROVE IInv'
<1> DEFINE key == SubSeq(data, lastLiteralPos + 1, i - 2)
<1>1. Answers(scan, Stepped) BY SteppedAnswers DEF ObjectKey
<1>2. /\ i \in Nat \ {0} /\ i <= Len(data) /\ lastLiteralPos \in 1..i
      /\ data \in Seq(Char)
  BY DEF ObjectKey, Reading, IInv, TypeOK
<1>3. key \in Seq(Char)
  <2>1. \A n \in (lastLiteralPos + 1)..(i - 2) : data[n] \in Char
    BY <1>2, ElementOfSeq, LenProperties
  <2> QED BY <1>2, <2>1, SubSeqProperties
<1>4. path' \in [1..MaxPathDepth -> Seq(Char)]
  BY <1>3 DEF ObjectKey, IInv, TypeOK
<1>5. SubSeq(path', 1, Depth) \in Seq(Seq(Char))
  <2>1. Depth \in Nat BY <1>1, LenProperties DEF Depth, Answers, WellFormed
  <2>2. Depth <= MaxPathDepth BY DEF ObjectKey
  <2>3. \A n \in 1..Depth : path'[n] \in Seq(Char)
    BY <1>4, <2>1, <2>2, WalkAssumption
  <2> QED BY <2>1, <2>3, SubSeqProperties
<1>6. events' \in Seq(Seq(Seq(Char)))
  BY <1>5, AppendProperties DEF ObjectKey, IInv, TypeOK
<1>7. TypeOK'
  <2>1. WellFormed(scan)' BY <1>1 DEF ObjectKey, Answers
  <2>2. data' = data /\ i' = i + 1 /\ lastLiteralPos' = lastLiteralPos /\ result' = result
    BY DEF ObjectKey
  <2>3. i' \in Nat \ {0} /\ lastLiteralPos' \in 1..i' BY <1>2, <2>2
  <2>4. result \in {"walking", "nil", "syntax error", "maximum path depth"}
    BY DEF IInv, TypeOK
  <2> QED BY <1>2, <1>4, <1>6, <2>1, <2>2, <2>3, <2>4 DEF TypeOK
<1>8. KeyBegun'
  <2>1. Stepped.op # "scanBeginLiteral" /\ scan.step = "stateEndValue" /\ InKey(scan)
    BY <1>1 DEF ObjectKey, Answers
  <2>2. lastLiteralPos <= i - 2 BY <2>1 DEF ObjectKey, Reading, IInv, KeyBegun
  <2> QED BY <1>2, <2>2 DEF ObjectKey, KeyBegun
<1> QED BY <1>7, <1>8 DEF IInv

(* A walk that has returned keeps its types.                               *)
LEMMA ReturnIInv ==
  ASSUME IInv, SyntaxError \/ MaxPathError \/ Finish
  PROVE  IInv'
<1>1. CASE SyntaxError
  <2>1. Answers(scan, Stepped) BY <1>1, SteppedAnswers DEF SyntaxError
  <2> QED BY <1>1, <2>1 DEF SyntaxError, IInv, TypeOK, Answers
<1>2. CASE MaxPathError
  <2>1. Answers(scan, Stepped) BY <1>2, SteppedAnswers DEF MaxPathError
  <2> QED BY <1>2, <2>1 DEF MaxPathError, IInv, TypeOK, Answers
<1>3. CASE Finish
  BY <1>3 DEF Finish, IInv, TypeOK
<1> QED BY <1>1, <1>2, <1>3

LEMMA IInvNeverPanics == ASSUME IInv PROVE NeverPanics
<1> SUFFICES ASSUME Reading PROVE NeverPanics!2
  BY DEF NeverPanics
<1>1. Answers(scan, Stepped) BY SteppedAnswers
<1>2. scan.step = "stateBeginStringOrEmpty" => scan.parseState # <<>>
  BY DEF IInv, TypeOK, WellFormed, InKey
<1>3. ASSUME Stepped.op = "scanObjectKey" PROVE Depth >= 1 /\ lastLiteralPos + 1 <= i - 1
  <2>1. /\ InKey(scan) /\ scan.step = "stateEndValue"
        /\ Stepped.parseState # <<>> /\ Stepped.parseState \in Seq(Contexts)
    BY <1>1, <1>3 DEF Answers, WellFormed
  <2>2. Depth >= 1 BY <2>1, HasTop DEF Depth
  <2>3. lastLiteralPos <= i - 2 BY <2>1 DEF Reading, IInv, KeyBegun
  <2>4. i \in Nat \ {0} /\ lastLiteralPos \in 1..i BY DEF IInv, TypeOK
  <2> QED BY <2>2, <2>3, <2>4
<1> QED BY <1>2, <1>3

(* The invariant holds for all bytes and for every length of the slice.    *)
THEOREM WalkInvariant == Spec => []IInv
<1>1. Init => IInv BY InitIInv
<1>2. IInv /\ [Next]_vars => IInv'
  <2> SUFFICES ASSUME IInv, [Next]_vars PROVE IInv'
    OBVIOUS
  <2>1. CASE Skip BY <2>1, SkipIInv
  <2>2. CASE ObjectKey BY <2>2, ObjectKeyIInv
  <2>3. CASE SyntaxError \/ MaxPathError \/ Finish BY <2>3, ReturnIInv
  <2>4. CASE UNCHANGED vars
    BY <2>4 DEF vars, IInv, TypeOK, KeyBegun, WellFormed, InKey, Top
  <2> QED BY <2>1, <2>2, <2>3, <2>4 DEF Next
<1> QED BY <1>1, <1>2, PTL DEF Spec

(* The scanner stays well formed: its stack of contexts agrees with the    *)
(* state function that takes the next byte.                                *)
THEOREM WalkTypeCorrect == Spec => []TypeOK
<1>1. IInv => TypeOK BY DEF IInv
<1> QED BY <1>1, WalkInvariant, PTL

(* No input makes WalkAndNotify or its scanner index out of range.         *)
THEOREM WalkNeverPanics == Spec => []NeverPanics
<1>1. IInv => NeverPanics BY IInvNeverPanics
<1> QED BY <1>1, WalkInvariant, PTL

----------------------------------------------------------------------------
(***************************************************************************)
(* The paths.  The argument: what the reader of WalkKeys has put together  *)
(* of a key is what lies between lastLiteralPos and the byte at hand, and  *)
(* the cell of path at the depth of an open object keeps the key that was  *)
(* read in it last, since only that object's next key is stored there      *)
(* while it is open.                                                       *)
(***************************************************************************)

PathHasKeys ==
  \A d \in DOMAIN keys : \A key \in keys[d] : d \in 1..MaxPathDepth /\ path[d] = key

LiteralRead ==
  /\ InKey(scan) /\ InString(scan) => literal = SubSeq(data, lastLiteralPos + 1, i - 1)
  /\ InKey(scan) /\ scan.step = "stateEndValue" /\ ended
       => literal = SubSeq(data, lastLiteralPos + 1, i - 2)

KeysInv ==
  /\ IInv
  /\ literal \in Seq(Char)
  /\ keys \in Seq(SUBSET Seq(Char))
  /\ reported \in Seq(Seq(SUBSET Seq(Char)))
  /\ result = "walking" => PathHasKeys /\ LiteralRead
  /\ KeysInPlace

LEMMA KeysInitInv == ASSUME KeysInit PROVE KeysInv
<1>1. IInv BY InitIInv DEF KeysInit
<1>2. ~InKey(scan) BY EmptySeq DEF KeysInit, Init, NewScanner, InKey
<1>3. DOMAIN keys = {} /\ DOMAIN events = {} BY DEF KeysInit, Init
<1>4. PathHasKeys BY <1>3 DEF PathHasKeys
<1>5. KeysInPlace BY <1>3 DEF KeysInPlace, KeysInit, Init
<1> QED BY <1>1, <1>2, <1>4, <1>5, EmptySeq DEF KeysInv, LiteralRead, KeysInit

(* A walk that goes on has a scanner that gives a proper answer.           *)
LEMMA ReadOnFacts ==
  ASSUME KeysInv, ReadOn
  PROVE  /\ IInv' /\ result = "walking" /\ result' = "walking"
         /\ Answers(scan, Stepped) /\ scan' = Stepped
         /\ Depth \in Nat
         /\ i \in Nat \ {0} /\ i <= Len(data) /\ lastLiteralPos \in 1..i
         /\ data \in Seq(Char) /\ data' = data /\ i' = i + 1
         /\ lastLiteralPos' = IF Stepped.op = "scanBeginLiteral" THEN i ELSE lastLiteralPos
<1>1. Reading /\ result' = result BY DEF ReadOn, Skip, ObjectKey, Reading
<1>2. IInv' BY SkipIInv, ObjectKeyIInv DEF KeysInv, ReadOn
<1>3. Answers(scan, Stepped) BY <1>1, SteppedAnswers DEF KeysInv
<1>4. Depth \in Nat BY <1>3, LenProperties DEF Depth, Answers, WellFormed
<1>5. /\ scan' = Stepped /\ data' = data /\ i' = i + 1
      /\ lastLiteralPos' = IF Stepped.op = "scanBeginLiteral" THEN i ELSE lastLiteralPos
  BY DEF ReadOn, Skip, ObjectKey
<1>6. i \in Nat \ {0} /\ lastLiteralPos \in 1..i /\ data \in Seq(Char)
  BY DEF KeysInv, IInv, TypeOK
<1> QED BY <1>1, <1>2, <1>3, <1>4, <1>5, <1>6 DEF Reading

LEMMA InStringStates ==
  ASSUME NEW s
  PROVE  InString(s) <=> s.step \in StringStates
  BY DEF InString, StringStates

LEMMA ReadOnLiteral ==
  ASSUME KeysInv, ReadOn
  PROVE  literal' \in Seq(Char) /\ LiteralRead'
<1>1. /\ literal \in Seq(Char) /\ LiteralRead
      /\ KeyBegun
  BY ReadOnFacts DEF KeysInv, IInv
<1>2. /\ Answers(scan, Stepped) /\ scan' = Stepped
      /\ i \in Nat \ {0} /\ i <= Len(data) /\ lastLiteralPos \in 1..i
      /\ data \in Seq(Char) /\ data' = data /\ i' = i + 1
      /\ lastLiteralPos' = IF Stepped.op = "scanBeginLiteral" THEN i ELSE lastLiteralPos
  BY ReadOnFacts
<1>3. /\ literal' = IF Stepped.op = "scanBeginLiteral" THEN <<>>
                    ELSE IF InString(scan) /\ InString(Stepped) THEN Append(literal, data[i])
                    ELSE literal
      /\ ended' = (InString(scan) /\ ~InString(Stepped))
  BY DEF ReadOn
<1>4. i \in 1..Len(data) /\ Len(data) \in Nat BY <1>2, LenProperties
<1>5. data[i] \in Char BY <1>2, <1>4, ElementOfSeq
<1>6. literal' \in Seq(Char)
  BY <1>1, <1>3, <1>5, EmptySeq, AppendProperties
<1>7. ASSUME InKey(Stepped), InString(Stepped)
      PROVE  literal' = SubSeq(data, lastLiteralPos' + 1, i' - 1)
  <2>1. CASE Stepped.op = "scanBeginLiteral"
    <3>1. lastLiteralPos' + 1 \in Int /\ i' - 1 \in Int /\ i' - 1 < lastLiteralPos' + 1
      BY <1>2, <2>1
    <3>2. SubSeq(data, lastLiteralPos' + 1, i' - 1) = <<>> BY <3>1, SubSeqEmpty
    <3> QED BY <1>3, <2>1, <3>2
  <2>2. CASE Stepped.op # "scanBeginLiteral"
    <3>1. InKey(scan) /\ InString(scan)
      BY <1>2, <1>7, <2>2, InStringStates DEF Answers
    <3>2. literal = SubSeq(data, lastLiteralPos + 1, i - 1) BY <1>1, <3>1 DEF LiteralRead
    <3>3. lastLiteralPos <= i - 1 BY <1>1, <3>1, InStringStates DEF KeyBegun
    <3>4. literal' = Append(literal, data[i]) BY <1>3, <1>7, <2>2, <3>1
    <3>5. lastLiteralPos + 1 \in 1..Len(data) /\ i \in lastLiteralPos + 1..Len(data)
      BY <1>2, <1>4, <3>3
    <3>6. SubSeq(data, lastLiteralPos + 1, i) = SubSeq(data, lastLiteralPos + 1, i - 1) \o <<data[i]>>
      BY <1>2, <3>5, SubSeqRecursiveSecond
    <3>7. Append(literal, data[i]) = literal \o <<data[i]>>
      BY <1>1, <1>5, AppendIsConcat
    <3>8. i' - 1 = i /\ lastLiteralPos' = lastLiteralPos BY <1>2, <2>2
    <3> QED BY <3>2, <3>4, <3>6, <3>7, <3>8
  <2> QED BY <2>1, <2>2
<1>8. ASSUME InKey(Stepped), Stepped.step = "stateEndValue", ended'
      PROVE  literal' = SubSeq(data, lastLiteralPos' + 1, i' - 2)
  <2>1. InString(scan) /\ ~InString(Stepped) BY <1>3, <1>8
  <2>2. InKey(scan) /\ Stepped.op # "scanBeginLiteral" BY <1>2, <1>8 DEF Answers
  <2>3. literal = SubSeq(data, lastLiteralPos + 1, i - 1) BY <1>1, <2>1, <2>2 DEF LiteralRead
  <2>4. i' - 2 = i - 1 BY <1>2
  <2> QED BY <1>2, <1>3, <2>1, <2>2, <2>3, <2>4
<1> QED BY <1>2, <1>6, <1>7, <1>8 DEF LiteralRead

(* What the colon behind a key stores in path.                             *)
LEMMA KeyStored ==
  ASSUME KeysInv, ObjectKey, ReadOn
  PROVE  /\ Depth \in 1..MaxPathDepth
         /\ path' \in [1..MaxPathDepth -> Seq(Char)]
         /\ KeyRead \subseteq Seq(Char)
         /\ \A key \in KeyRead : path'[Depth] = key
         /\ \A d \in 1..MaxPathDepth : d # Depth => path'[d] = path[d]
<1>1. Answers(scan, Stepped) /\ Depth \in Nat /\ IInv' BY ReadOnFacts
<1>2. Stepped.op = "scanObjectKey" /\ Depth <= MaxPathDepth BY DEF ObjectKey
<1>3. /\ InKey(scan) /\ scan.step = "stateEndValue"
      /\ Stepped.parseState # <<>> /\ Stepped.parseState \in Seq(Contexts)
  BY <1>1, <1>2 DEF Answers, WellFormed
<1>4. Depth \in 1..MaxPathDepth
  <2>1. Depth \in Nat \ {0} BY <1>3, HasTop DEF Depth
  <2> QED BY <1>2, <2>1, WalkAssumption
<1>5. path \in [1..MaxPathDepth -> Seq(Char)] /\ path' \in [1..MaxPathDepth -> Seq(Char)]
  BY <1>1 DEF KeysInv, IInv, TypeOK
<1>6. path' = [path EXCEPT ![Depth] = SubSeq(data, lastLiteralPos + 1, i - 2)] BY DEF ObjectKey
<1>7. LiteralRead /\ literal \in Seq(Char) BY ReadOnFacts DEF KeysInv
<1>8. ended => literal = SubSeq(data, lastLiteralPos + 1, i - 2) BY <1>3, <1>7 DEF LiteralRead
<1>9. KeyRead \subseteq Seq(Char) BY <1>7 DEF KeyRead
<1>10. path'[Depth] = SubSeq(data, lastLiteralPos + 1, i - 2) BY <1>4, <1>5, <1>6
<1>11. \A d \in 1..MaxPathDepth : d # Depth => path'[d] = path[d] BY <1>5, <1>6
<1> QED BY <1>4, <1>5, <1>8, <1>9, <1>10, <1>11 DEF KeyRead

LEMMA ReadOnKeys ==
  ASSUME KeysInv, ReadOn
  PROVE  /\ keys' \in Seq(SUBSET Seq(Char)) /\ Len(keys') = Depth
         /\ PathHasKeys'
<1>1. Depth \in Nat /\ PathHasKeys /\ keys \in Seq(SUBSET Seq(Char))
  BY ReadOnFacts DEF KeysInv
<1> DEFINE kept(d) == IF d \in DOMAIN keys THEN keys[d] ELSE {}
<1>2. keys' = [d \in 1..Depth |->
                 IF Stepped.op = "scanObjectKey" /\ d = Depth THEN KeyRead ELSE kept(d)]
  BY DEF ReadOn
<1>3. ASSUME NEW d PROVE kept(d) \in SUBSET Seq(Char)
  <2>1. \A e \in DOMAIN keys : keys[e] \in SUBSET Seq(Char) BY <1>1, LenProperties
  <2> QED BY <2>1
<1>4. ASSUME NEW d, NEW key \in kept(d) PROVE d \in 1..MaxPathDepth /\ path[d] = key
  BY <1>1, <1>4 DEF PathHasKeys
<1> HIDE DEF kept
<1>5. CASE Skip
  <2>1. Stepped.op # "scanObjectKey" /\ path' = path BY <1>5 DEF Skip
  <2>2. keys' = [d \in 1..Depth |-> kept(d)] BY <1>2, <2>1
  <2>3. keys' \in Seq(SUBSET Seq(Char)) /\ Len(keys') = Depth BY <1>1, <1>3, <2>2
  <2>4. PathHasKeys' BY <1>4, <2>1, <2>2 DEF PathHasKeys
  <2> QED BY <2>3, <2>4
<1>6. CASE ObjectKey
  <2>1. /\ Depth \in 1..MaxPathDepth
        /\ KeyRead \subseteq Seq(Char)
        /\ \A key \in KeyRead : path'[Depth] = key
        /\ \A d \in 1..MaxPathDepth : d # Depth => path'[d] = path[d]
    BY <1>6, KeyStored
  <2>2. Stepped.op = "scanObjectKey" BY <1>6 DEF ObjectKey
  <2>3. keys' = [d \in 1..Depth |-> IF d = Depth THEN KeyRead ELSE kept(d)] BY <1>2, <2>2
  <2>4. keys' \in Seq(SUBSET Seq(Char)) /\ Len(keys') = Depth BY <1>1, <1>3, <2>1, <2>3
  <2>5. PathHasKeys' BY <1>4, <2>1, <2>3 DEF PathHasKeys
  <2> QED BY <2>4, <2>5
<1> QED BY <1>5, <1>6 DEF ReadOn

LEMMA ReadOnReports ==
  ASSUME KeysInv, ReadOn
  PROVE  reported' \in Seq(Seq(SUBSET Seq(Char))) /\ KeysInPlace'
<1>1. /\ KeysInPlace /\ IInv /\ IInv' /\ Depth \in Nat
      /\ reported \in Seq(Seq(SUBSET Seq(Char)))
  BY ReadOnFacts DEF KeysInv
<1>2. CASE Skip
  <2>1. events' = events /\ reported' = reported BY <1>2 DEF Skip, ReadOn
  <2> QED BY <1>1, <2>1 DEF KeysInPlace
<1>3. CASE ObjectKey
  <2> DEFINE new == SubSeq(path', 1, Depth)
  <2>1. /\ Depth \in 1..MaxPathDepth
        /\ path' \in [1..MaxPathDepth -> Seq(Char)]
    BY <1>3, KeyStored
  <2>2. /\ keys' \in Seq(SUBSET Seq(Char)) /\ Len(keys') = Depth
        /\ PathHasKeys'
    BY ReadOnKeys
  <2>3. /\ events' = Append(events, new) /\ reported' = Append(reported, keys')
    BY <1>3 DEF ObjectKey, ReadOn
  <2>4. new \in Seq(Seq(Char)) /\ Len(new) = Depth /\ \A d \in 1..Depth : new[d] = path'[d]
    <3>1. \A n \in 1..Depth : path'[n] \in Seq(Char) BY <2>1, WalkAssumption
    <3>2. /\ new \in Seq(Seq(Char))
          /\ Len(new) = IF 1 <= Depth THEN Depth - 1 + 1 ELSE 0
          /\ \A d \in 1..Depth - 1 + 1 : new[d] = path'[1 + d - 1]
      BY <1>1, <3>1, SubSeqProperties
    <3> QED BY <1>1, <2>1, <3>2, WalkAssumption
  <2>5. \A d \in DOMAIN keys' : \A key \in keys'[d] : new[d] = key
    <3>1. DOMAIN keys' = 1..Depth BY <2>2, LenProperties
    <3> QED BY <2>2, <2>4, <3>1 DEF PathHasKeys
  <2>6. events \in Seq(Seq(Seq(Char))) BY <1>1 DEF IInv, TypeOK
  <2> HIDE DEF new
  <2>7. /\ reported' \in Seq(Seq(SUBSET Seq(Char)))
        /\ Len(reported') = Len(reported) + 1 /\ Len(reported) \in Nat
        /\ \A n \in 1..Len(reported) : reported'[n] = reported[n]
        /\ reported'[Len(reported) + 1] = keys'
    BY <1>1, <2>2, <2>3, AppendProperties, LenProperties
  <2>8. /\ events' \in Seq(Seq(Seq(Char)))
        /\ Len(events') = Len(events) + 1 /\ Len(events) \in Nat
        /\ \A n \in 1..Len(events) : events'[n] = events[n]
        /\ events'[Len(events) + 1] = new
    BY <2>3, <2>4, <2>6, AppendProperties, LenProperties
  <2>9. DOMAIN events = 1..Len(events) /\ DOMAIN events' = 1..Len(events')
    BY <2>6, <2>8, LenProperties
  <2>10. ASSUME NEW n \in DOMAIN events'
         PROVE  /\ Len(events'[n]) = Len(reported'[n])
                /\ \A d \in DOMAIN reported'[n] : \A key \in reported'[n][d] : events'[n][d] = key
    <3>1. CASE n \in 1..Len(events)
      <4>1. n \in DOMAIN events /\ Len(events) = Len(reported) BY <1>1, <2>9, <3>1 DEF KeysInPlace
      <4>2. events'[n] = events[n] /\ reported'[n] = reported[n] BY <2>7, <2>8, <3>1, <4>1
      <4> QED BY <1>1, <4>1, <4>2 DEF KeysInPlace
    <3>2. CASE n = Len(events) + 1
      <4>1. events'[n] = new /\ reported'[n] = keys' BY <1>1, <2>7, <2>8, <3>2 DEF KeysInPlace
      <4> QED BY <2>2, <2>4, <2>5, <4>1
    <3> QED BY <2>8, <2>9, <2>10, <3>1, <3>2
  <2> QED BY <1>1, <2>7, <2>8, <2>10 DEF KeysInPlace
<1> QED BY <1>2, <1>3 DEF ReadOn

LEMMA ReadOnInv == ASSUME KeysInv, ReadOn PROVE KeysInv'
  BY ReadOnFacts, ReadOnLiteral, ReadOnKeys, ReadOnReports DEF KeysInv

LEMMA ReturnInv == ASSUME KeysInv, Return PROVE KeysInv'
<1>1. IInv' BY ReturnIInv DEF KeysInv, Return
<1>2. events' = events BY DEF Return, SyntaxError, MaxPathError, Finish
<1>3. result' # "walking" BY DEF Return, SyntaxError, MaxPathError, Finish
<1>4. UNCHANGED <<keys, literal, reported>> BY DEF Return, readerVars
<1>5. KeysInPlace' BY <1>2, <1>4 DEF KeysInPlace, KeysInv
<1> QED BY <1>1, <1>3, <1>4, <1>5 DEF KeysInv

LEMMA StutterKeysInv == ASSUME KeysInv, UNCHANGED keysVars PROVE KeysInv'
  BY DEF keysVars, readerVars, vars, KeysInv, IInv, TypeOK, KeyBegun, PathHasKeys, LiteralRead,
         InString, KeysInPlace, WellFormed, InKey, Top

(* The inductive invariant: the cells of path at the open objects are the  *)
(* keys that the reader has kept with them, and the literal it has put     *)
(* together is the part of data from lastLiteralPos on.                    *)
THEOREM WalkKeysInvariant == KeysSpec => []KeysInv
<1>1. KeysInit => KeysInv BY KeysInitInv
<1>2. KeysInv /\ [KeysNext]_keysVars => KeysInv'
  BY ReadOnInv, ReturnInv, StutterKeysInv DEF KeysNext
<1> QED BY <1>1, <1>2, PTL DEF KeysSpec

(* For every document, every nesting and every MaxPathDepth, a path that   *)
(* WalkAndNotify notifies has the keys of the objects around the key, each *)
(* at the depth of its object.                                             *)
THEOREM WalkKeysInPlace == KeysSpec => []KeysInPlace
<1>1. KeysInv => KeysInPlace BY DEF KeysInv
<1> QED BY <1>1, WalkKeysInvariant, PTL
=============================================================================
