------------------------- MODULE RecogniserProofs --------------------------
(***************************************************************************)
(* The scanner and the grammar agree at every byte, however long the input *)
(* and however deep its nesting.  The argument: the grammar's goals are a  *)
(* function of the scanner's state function and of what may follow in each *)
(* context of its stack (Ahead and Chain), up to the text itself, which    *)
(* nothing follows.  Every state function answers every byte as those      *)
(* goals do.  Since only the goals ahead of stateError are empty, and only *)
(* those that the empty goal is in can end, the rest follows.              *)
(***************************************************************************)
EXTENDS Recogniser, ScannerProofs

(* What the scanner's stack stands for: ends[k] may follow a value, and    *)
(* space, in the k-th context of stack, ends[0] the value that is the text.*)
Full == Goals \ {{}}

Chain(stack, ends) ==
  /\ ends \in [Nat -> Full]
  /\ ends[0] = {<<>>}
  /\ \A k \in 1..Len(stack) : ends[k] = Closers(stack[k], Before("ws", ends[k - 1]))

(* What may follow the literal that the scanner s is before, inside of or  *)
(* behind; and what may follow the innermost object or array.              *)
Follow(s, ends) ==
  IF InKey(s) THEN Colon(ends[Len(s.parseState)]) ELSE ends[Len(s.parseState)]
Behind(s, ends) == Before("ws", ends[Len(s.parseState) - 1])

(* What a scanner in state step waits for; y and r are Follow and Behind.  *)
Ahead(step, y, r) ==
  LET v == Before("ws", y)
      q == Quoted(v)
      e == Before("exp", v)
      f == Before("frac", e)
  IN
  CASE step = "stateBeginValue" -> ValueAhead(v)
    [] step = "stateBeginValueOrEmpty" -> ValueAhead(v) \cup Ends(Before("]", r))
    [] step = "stateBeginString" -> KeyAhead(v)
    [] step = "stateBeginStringOrEmpty" -> KeyAhead(v) \cup Ends(Before(Close, r))
    [] step = "stateEndValue" -> Ends(y)
    [] step = "stateEndTop" -> Ends(y)
    [] step = "stateInString" -> Strings(v)
    [] step = "stateInStringEsc" -> Escapes(q)
    [] step = "stateInStringEscU" -> Before("hex", Before("hex", Before("hex", Before("hex", q))))
    [] step = "stateInStringEscU1" -> Before("hex", Before("hex", Before("hex", q)))
    [] step = "stateInStringEscU12" -> Before("hex", Before("hex", q))
    [] step = "stateInStringEscU123" -> Before("hex", q)
    [] step = "stateNeg" -> Ints(f)
    [] step = "state1" -> Fracs(y) \cup Digits(f)
    [] step = "state0" -> Fracs(y)
    [] step = "stateDot" -> Digits(e)
    [] step = "stateDot0" -> Exps(y) \cup Digits(e)
    [] step = "stateE" -> Powers(v)
    [] step = "stateESign" -> Digits(v)
    [] step = "stateE0" -> Ends(y) \cup Digits(v)
    [] step = "stateT" -> Before("r", Before("u", Before("e", v)))
    [] step = "stateTr" -> Before("u", Before("e", v))
    [] step = "stateTru" -> Before("e", v)
    [] step = "stateF" -> Before("a", Before("l", Before("s", Before("e", v))))
    [] step = "stateFa" -> Before("l", Before("s", Before("e", v)))
    [] step = "stateFal" -> Before("s", Before("e", v))
    [] step = "stateFals" -> Before("e", v)
    [] step = "stateN" -> Before("u", Before("l", Before("l", v)))
    [] step = "stateNu" -> Before("l", Before("l", v))
    [] step = "stateNul" -> Before("l", v)
    [] step = "stateError" -> {}

Fits(s, g) ==
  \E ends : Chain(s.parseState, ends) /\ g = Ahead(s.step, Follow(s, ends), Behind(s, ends))

(* endTop and err are in step with the state function.                     *)
Flags(s) ==
  /\ s.err <=> s.step = "stateError"
  /\ s.endTop => s.step \in {"stateEndTop", "stateError"}
  /\ s.step = "stateEndTop" => s.endTop /\ s.parseState = <<>>
  /\ s.step = "stateBeginValueOrEmpty" => s.parseState # <<>> /\ Top(s) = "parseArrayValue"

(* r answers the byte c where g was to come, and waits for h: it tells     *)
(* that the value has ended if g allowed the text to end there, and finds  *)
(* an error only if it did not.                                            *)
Answered(g, c, r, h) ==
  /\ Fits(r, h)
  /\ Flags(r)
  /\ r.op = "scanEnd" => <<>> \in g
  /\ r.op = "scanError" => <<>> \notin g
  /\ c \in Space => (r.endTop <=> <<>> \in g)

(* s is neither at the end of its input nor in error.                      *)
Going(s) == s.endTop = FALSE /\ s.err = FALSE
Stops == {"scanEnd", "scanError"}

----------------------------------------------------------------------------
(* The stack.                                                              *)
LEMMA FullBefore ==
  ASSUME NEW x \in Symbol, NEW rest \in Full
  PROVE  Before(x, rest) \in Full
  BY BeforeType, BeforeSome DEF Full

LEMMA ClosersClose ==
  ASSUME NEW context, NEW r \in Full
  PROVE  /\ Closing(Closers(context, r))
         /\ Closers(context, r) \in Full
         /\ <<>> \notin Closers(context, r)
<1> DEFINE y == Closers(context, r)
           i == IF context = "parseArrayValue" THEN Before("]", r) ELSE Before(Close, r)
           j == IF context = "parseArrayValue" THEN Before(",", Before("elements", Before("]", r)))
                ELSE Before(",", Before("members", Before(Close, r)))
<1>1. y = i \cup j BY DEF Closers
<1>2. i \in Full BY Symbols, FullBefore
<1>3. j \in Goals BY Typed
<1>4. Stable(i) /\ Stable(j) BY Terminals
<1>5. <<>> \notin i /\ <<>> \notin j BY Symbols, BeforeType
<1> HIDE DEF i, j
<1>6. y \in Full
  <2>1. i \cup j \in Goals BY <1>2, <1>3, GoalsUnion DEF Full
  <2> QED BY <1>1, <1>2, <2>1 DEF Full
<1>7. <<>> \notin y BY <1>1, <1>5
<1>8. Stable(i \cup j) BY <1>4, StableUnion
<1>9. ASSUME NEW c, c \notin {",", ":", "]", Close} PROVE Read(y, c) = {}
  <2>1. r \in Goals BY DEF Full
  <2> QED BY <1>9, <2>1, ReadClosers
<1> HIDE DEF y
<1>10. Closing(y) BY <1>1, <1>6, <1>8, <1>9 DEF Closing, Full
<1> QED BY <1>6, <1>7, <1>10 DEF y

LEMMA ColonCloses ==
  ASSUME NEW y
  PROVE  Closing(Colon(y)) /\ <<>> \notin Colon(y)
<1>1. Colon(y) \in Goals /\ Stable(Colon(y)) BY Typed, Terminals DEF Colon
<1>2. <<>> \notin Colon(y) BY Symbols, BeforeType DEF Colon
<1>3. \A c : c # ":" => Read(Colon(y), c) = {} BY ReadColon
<1> QED BY <1>1, <1>2, <1>3 DEF Closing

LEMMA TextCloses == Closing({<<>>})
  BY ReadText DEF Closing

LEMMA ChainEnds ==
  ASSUME NEW stack \in Seq(Contexts), NEW ends, Chain(stack, ends)
  PROVE  /\ ends[Len(stack)] \in Full
         /\ Closing(ends[Len(stack)])
         /\ <<>> \in ends[Len(stack)] <=> stack = <<>>
         /\ stack # <<>> =>
              /\ Before("ws", ends[Len(stack) - 1]) \in Full
              /\ ends[Len(stack)] = Closers(stack[Len(stack)], Before("ws", ends[Len(stack) - 1]))
<1>1. Len(stack) \in Nat BY LenProperties
<1>2. ends[Len(stack)] \in Full BY <1>1 DEF Chain
<1>3. CASE stack = <<>>
  <2>1. Len(stack) = 0 BY <1>3
  <2>2. ends[Len(stack)] = {<<>>} BY <2>1 DEF Chain
  <2> QED BY <1>2, <1>3, <2>2, TextCloses
<1>4. CASE stack # <<>>
  <2>1. Len(stack) \in Nat \ {0} BY <1>4, HasTop
  <2>2. Len(stack) - 1 \in Nat /\ Len(stack) \in 1..Len(stack) BY <2>1
  <2>3. ends[Len(stack) - 1] \in Full BY <2>2 DEF Chain
  <2>4. Before("ws", ends[Len(stack) - 1]) \in Full BY <2>3, Symbols, FullBefore
  <2>5. ends[Len(stack)] = Closers(stack[Len(stack)], Before("ws", ends[Len(stack) - 1]))
    BY <2>2 DEF Chain
  <2> QED BY <1>2, <1>4, <2>4, <2>5, ClosersClose
<1> QED BY <1>3, <1>4

(* What follows in a state, and that it closes a literal.                  *)
LEMMA FollowCloses ==
  ASSUME NEW s, Base(s), NEW ends, Chain(s.parseState, ends)
  PROVE  /\ Closing(Follow(s, ends))
         /\ Follow(s, ends) \in Full
         /\ <<>> \in Follow(s, ends) <=> s.parseState = <<>>
<1>1. s.parseState \in Seq(Contexts) BY DEF Base, Scanners
<1>2. CASE InKey(s)
  <2>1. Follow(s, ends) = Colon(ends[Len(s.parseState)]) BY <1>2 DEF Follow
  <2>2. ends[Len(s.parseState)] \in Full BY <1>1, ChainEnds
  <2>3. Colon(ends[Len(s.parseState)]) \in Full BY <2>2, Symbols, FullBefore DEF Colon
  <2>4. s.parseState # <<>> BY <1>2 DEF InKey
  <2> QED BY <2>1, <2>3, <2>4, ColonCloses
<1>3. CASE ~InKey(s)
  <2>1. Follow(s, ends) = ends[Len(s.parseState)] BY <1>3 DEF Follow
  <2> QED BY <1>1, <2>1, ChainEnds
<1> QED BY <1>2, <1>3

(* A context is entered: one more end, behind the space after the value.   *)
LEMMA PushChain ==
  ASSUME NEW s, Base(s), ~InKey(s), NEW context \in Contexts,
         NEW ends, Chain(s.parseState, ends), NEW v, v = Before("ws", Follow(s, ends))
  PROVE  \E new : /\ Chain(Push(s, context).parseState, new)
                  /\ new[Len(Push(s, context).parseState)] = Closers(context, v)
                  /\ Behind(Push(s, context), new) = v
<1> DEFINE stack == s.parseState
           n == Len(stack)
           longer == Append(stack, context)
           y == Closers(context, v)
           new == [ends EXCEPT ![n + 1] = y]
<1>1. stack \in Seq(Contexts) /\ n \in Nat BY LenProperties DEF Base, Scanners
<1>2. /\ Len(longer) = n + 1
      /\ \A k \in 1..n : longer[k] = stack[k]
      /\ longer[n + 1] = context
  BY <1>1, AppendProperties
<1>3. Push(s, context).parseState = longer BY DEF Push, Base, Scanners
<1>4. v = Before("ws", ends[n]) BY DEF Follow
<1>5. v \in Full
  <2>1. ends[n] \in Full BY <1>1, ChainEnds
  <2> QED BY <1>4, <2>1, Symbols, FullBefore
<1>6. y \in Full BY <1>5, ClosersClose
<1> HIDE DEF longer, y, stack, n
<1>7. /\ new \in [Nat -> Full]
      /\ new[n + 1] = y
      /\ \A k \in 0..n : new[k] = ends[k]
  BY <1>1, <1>6 DEF Chain
<1> HIDE DEF new
<1>8. new[0] = {<<>>} BY <1>1, <1>7 DEF Chain, stack
<1>9. ASSUME NEW k \in 1..n + 1
      PROVE  new[k] = Closers(longer[k], Before("ws", new[k - 1]))
  <2>1. CASE k = n + 1
    <3>1. k - 1 = n /\ n \in 0..n BY <1>1, <2>1
    <3>2. new[k - 1] = ends[n] BY <1>7, <3>1
    <3>3. longer[k] = context BY <1>2, <2>1
    <3>4. new[k] = y BY <1>7, <2>1
    <3> QED BY <1>4, <3>2, <3>3, <3>4 DEF y
  <2>2. CASE k # n + 1
    <3>1. k \in 1..n /\ k \in 0..n /\ k - 1 \in 0..n BY <1>1, <2>2
    <3>2. new[k] = ends[k] /\ new[k - 1] = ends[k - 1] BY <1>7, <3>1
    <3>3. longer[k] = stack[k] BY <1>2, <3>1
    <3>4. ends[k] = Closers(stack[k], Before("ws", ends[k - 1])) BY <3>1 DEF Chain, stack, n
    <3> QED BY <3>2, <3>3, <3>4
  <2> QED BY <2>1, <2>2
<1>10. Chain(longer, new) BY <1>2, <1>7, <1>8, <1>9 DEF Chain
<1>11. Behind(Push(s, context), new) = v
  <2>1. Len(longer) - 1 = n BY <1>1, <1>2
  <2>2. new[n] = ends[n] BY <1>1, <1>7
  <2> QED BY <1>3, <1>4, <2>1, <2>2 DEF Behind
<1> QED BY <1>2, <1>3, <1>7, <1>10, <1>11 DEF y

(* A key becomes a value, or the next key is awaited: the ends stay.       *)
LEMMA SetTopChain ==
  ASSUME NEW s, Base(s), s.parseState # <<>>, Top(s) # "parseArrayValue",
         NEW context \in {"parseObjectKey", "parseObjectValue"},
         NEW ends, Chain(s.parseState, ends)
  PROVE  /\ Chain(SetTop(s, context).parseState, ends)
         /\ Len(SetTop(s, context).parseState) = Len(s.parseState)
         /\ Behind(SetTop(s, context), ends) = Behind(s, ends)
<1> DEFINE stack == s.parseState
           new == [stack EXCEPT ![Len(stack)] = context]
<1>1. stack \in Seq(Contexts) BY DEF Base, Scanners
<1>2. Len(stack) \in Nat \ {0} BY <1>1, HasTop
<1>3. context \in Contexts BY DEF Contexts
<1>4. /\ Len(new) = Len(stack)
      /\ \A n \in 1..Len(stack) : new[n] = IF n = Len(stack) THEN context ELSE stack[n]
  BY <1>1, <1>2, <1>3, ExceptSeq
<1>5. SetTop(s, context).parseState = new BY <1>4 DEF SetTop, Base, Scanners
<1>6. stack[Len(stack)] # "parseArrayValue" BY DEF Top
<1> HIDE DEF new
<1>7. ASSUME NEW k \in 1..Len(new)
      PROVE  ends[k] = Closers(new[k], Before("ws", ends[k - 1]))
  <2>1. k \in 1..Len(stack) BY <1>4
  <2>2. ends[k] = Closers(stack[k], Before("ws", ends[k - 1])) BY <2>1 DEF Chain
  <2>3. new[k] = IF k = Len(stack) THEN context ELSE stack[k] BY <1>4, <2>1
  <2> QED BY <1>6, <2>2, <2>3 DEF Closers
<1>8. Chain(new, ends) BY <1>7 DEF Chain
<1> QED BY <1>4, <1>5, <1>8 DEF Behind

(* A context is left: its end goes.                                        *)
LEMMA PopChain ==
  ASSUME NEW s, Base(s), s.parseState # <<>>, NEW ends, Chain(s.parseState, ends)
  PROVE  /\ Chain(Pop(s).parseState, ends)
         /\ Follow(Pop(s), ends) = ends[Len(s.parseState) - 1]
         /\ Len(Pop(s).parseState) = Len(s.parseState) - 1
<1> DEFINE stack == s.parseState
           rest == SubSeq(stack, 1, Len(stack) - 1)
<1>1. stack \in Seq(Contexts) /\ Len(stack) \in Nat \ {0} BY HasTop DEF Base, Scanners
<1>2. \A n \in 1..Len(stack) - 1 : stack[n] \in Contexts BY <1>1, ElementOfSeq
<1>3. /\ Len(rest) = Len(stack) - 1
      /\ \A n \in 1..Len(stack) - 1 : rest[n] = stack[n]
  <2>1. /\ Len(rest) = IF 1 <= Len(stack) - 1 THEN (Len(stack) - 1) - 1 + 1 ELSE 0
        /\ \A n \in 1..(Len(stack) - 1) - 1 + 1 : rest[n] = stack[1 + n - 1]
    BY <1>1, <1>2, SubSeqProperties
  <2> QED BY <1>1, <2>1
<1>4. Pop(s).parseState = rest BY DEF Pop, Base, Scanners
<1> HIDE DEF rest
<1>5. ASSUME NEW k \in 1..Len(rest)
      PROVE  ends[k] = Closers(rest[k], Before("ws", ends[k - 1]))
  <2>1. k \in 1..Len(stack) /\ k \in 1..Len(stack) - 1 BY <1>1, <1>3
  <2>2. ends[k] = Closers(stack[k], Before("ws", ends[k - 1])) BY <2>1 DEF Chain
  <2> QED BY <1>3, <2>1, <2>2
<1>6. Chain(rest, ends) BY <1>5 DEF Chain
<1>7. ~InKey(Pop(s)) BY PopLeaves
<1> QED BY <1>3, <1>4, <1>6, <1>7 DEF Follow

----------------------------------------------------------------------------
(* The answers.  A scanner that goes on has neither ended nor failed.      *)
LEMMA ToAnswered ==
  ASSUME NEW s, Base(s), Going(s), NEW ends, Chain(s.parseState, ends),
         NEW step \in Steps \ {"stateEndTop", "stateError"}, NEW op \in Opcodes \ Stops,
         step = "stateBeginValueOrEmpty" => s.parseState # <<>> /\ Top(s) = "parseArrayValue",
         NEW g, NEW c, c \in Space => <<>> \notin g,
         NEW h, h = Ahead(step, Follow(s, ends), Behind(s, ends))
  PROVE  Answered(g, c, To(s, step, op), h)
<1> DEFINE r == To(s, step, op)
<1>1. /\ r.parseState = s.parseState /\ r.step = step /\ r.op = op
      /\ InKey(r) <=> InKey(s)
  BY ToLeaves
<1>2. r.endTop = FALSE /\ r.err = FALSE BY DEF To, Going, Base, Scanners
<1> HIDE DEF r
<1>3. Follow(r, ends) = Follow(s, ends) /\ Behind(r, ends) = Behind(s, ends)
  BY <1>1 DEF Follow, Behind
<1>4. Fits(r, h) BY <1>1, <1>3 DEF Fits
<1>5. Flags(r) BY <1>1, <1>2 DEF Flags, Top
<1> QED BY <1>1, <1>2, <1>4, <1>5 DEF Answered, Stops, r

LEMMA ErrorAnswered ==
  ASSUME NEW s, Base(s), Going(s), NEW ends, Chain(s.parseState, ends),
         NEW g, <<>> \notin g, NEW c, NEW h, h = {}
  PROVE  Answered(g, c, Error(s), h)
<1> DEFINE r == Error(s)
<1>1. /\ r.parseState = s.parseState /\ r.step = "stateError" /\ r.op = "scanError"
      /\ r.endTop = FALSE /\ r.err = TRUE
  BY DEF Base, Scanners, Error, Going
<1> HIDE DEF r
<1>2. h = Ahead(r.step, Follow(r, ends), Behind(r, ends)) BY <1>1 DEF Ahead
<1>3. Fits(r, h) BY <1>1, <1>2 DEF Fits
<1>4. Flags(r) BY <1>1 DEF Flags
<1> QED BY <1>1, <1>3, <1>4 DEF Answered, r

(* A bracket closes the innermost context.                                 *)
LEMMA PopAnswered ==
  ASSUME NEW s, Base(s), Going(s), s.parseState # <<>>, NEW ends, Chain(s.parseState, ends),
         NEW op \in Opcodes \ Stops, NEW g, NEW c, c \notin Space,
         NEW h, h = Ends(ends[Len(s.parseState) - 1])
  PROVE  Answered(g, c, Stay(Pop(s), op), h)
<1> DEFINE p == Pop(s)
           r == Stay(p, op)
<1>1. /\ r.parseState = p.parseState /\ r.step = p.step /\ r.op = op
      /\ r.endTop = p.endTop /\ r.err = p.err
  <2>1. Base(p) BY PopLeaves
  <2> HIDE DEF p
  <2> QED BY <2>1 DEF Base, Scanners, Stay
<1>2. /\ p.step = IF p.parseState = <<>> THEN "stateEndTop" ELSE "stateEndValue"
      /\ p.endTop = (p.parseState = <<>>)
      /\ p.err = FALSE
  BY DEF Pop, Base, Scanners, Going
<1>3. /\ Chain(p.parseState, ends)
      /\ Follow(p, ends) = ends[Len(s.parseState) - 1]
  BY PopChain
<1> HIDE DEF p, r
<1>4. Follow(r, ends) = Follow(p, ends) BY <1>1 DEF Follow, InKey, Top
<1>5. h = Ahead(r.step, Follow(r, ends), Behind(r, ends)) BY <1>1, <1>2, <1>3, <1>4 DEF Ahead
<1>6. Fits(r, h) BY <1>1, <1>3, <1>5 DEF Fits
<1>7. Flags(r) BY <1>1, <1>2 DEF Flags
<1> QED BY <1>1, <1>6, <1>7 DEF Answered, Stops, r, p

LEMMA PredictStable ==
  ASSUME NEW g, Stable(g)
  PROVE  Predict(g) = g
  BY DEF Predict, Stable

LEMMA PredictNone == Predict({}) = {}
<1>1. Expand({}) = {} BY DEF Expand
<1> QED BY <1>1 DEF Predict

(* stateEndValue inside of a context, case by case.                        *)
LEMMA EndValueCases ==
  ASSUME NEW s, s.parseState # <<>>, NEW c
  PROVE  /\ c \in Space => StateEndValue(s, c) = To(s, "stateEndValue", "scanSkipSpace")
         /\ c = ":" /\ Top(s) = "parseObjectKey" =>
              StateEndValue(s, c)
                = To(SetTop(s, "parseObjectValue"), "stateBeginValue", "scanObjectKey")
         /\ c = "," /\ Top(s) = "parseObjectValue" =>
              StateEndValue(s, c)
                = To(SetTop(s, "parseObjectKey"), "stateBeginString", "scanObjectValue")
         /\ c = "," /\ Top(s) = "parseArrayValue" =>
              StateEndValue(s, c) = To(s, "stateBeginValue", "scanArrayValue")
         /\ c = Close /\ Top(s) = "parseObjectValue" =>
              StateEndValue(s, c) = Stay(Pop(s), "scanEndObject")
         /\ c = "]" /\ Top(s) = "parseArrayValue" =>
              StateEndValue(s, c) = Stay(Pop(s), "scanEndArray")
         /\ c \notin Space
            /\ ~(c = ":" /\ Top(s) = "parseObjectKey")
            /\ ~(c = "," /\ Top(s) = "parseObjectValue")
            /\ ~(c = "," /\ Top(s) = "parseArrayValue")
            /\ ~(c = Close /\ Top(s) = "parseObjectValue")
            /\ ~(c = "]" /\ Top(s) = "parseArrayValue") =>
              StateEndValue(s, c) = Error(s)
<1>1. c \in Space => StateEndValue(s, c) = To(s, "stateEndValue", "scanSkipSpace")
  BY Zenon DEF StateEndValue, Space
<1>2. c = ":" /\ Top(s) = "parseObjectKey" =>
        StateEndValue(s, c) = To(SetTop(s, "parseObjectValue"), "stateBeginValue", "scanObjectKey")
  BY Zenon DEF StateEndValue, Space
<1>3. c = "," /\ Top(s) = "parseObjectValue" =>
        StateEndValue(s, c) = To(SetTop(s, "parseObjectKey"), "stateBeginString", "scanObjectValue")
  BY Zenon DEF StateEndValue, Space
<1>4. c = "," /\ Top(s) = "parseArrayValue" =>
        StateEndValue(s, c) = To(s, "stateBeginValue", "scanArrayValue")
  BY Zenon DEF StateEndValue, Space
<1>5. c = Close /\ Top(s) = "parseObjectValue" =>
        StateEndValue(s, c) = Stay(Pop(s), "scanEndObject")
  BY Zenon DEF StateEndValue, Space, Close
<1>6. c = "]" /\ Top(s) = "parseArrayValue" =>
        StateEndValue(s, c) = Stay(Pop(s), "scanEndArray")
  BY Zenon DEF StateEndValue, Space
<1>7. c \notin Space
      /\ ~(c = ":" /\ Top(s) = "parseObjectKey")
      /\ ~(c = "," /\ Top(s) = "parseObjectValue")
      /\ ~(c = "," /\ Top(s) = "parseArrayValue")
      /\ ~(c = Close /\ Top(s) = "parseObjectValue")
      /\ ~(c = "]" /\ Top(s) = "parseArrayValue") =>
        StateEndValue(s, c) = Error(s)
  BY Zenon DEF StateEndValue, Close
<1> QED BY <1>1, <1>2, <1>3, <1>4, <1>5, <1>6, <1>7

(* Behind a key only space and a colon can come.                           *)
LEMMA KeyEndAnswered ==
  ASSUME NEW s, Base(s), Going(s), InKey(s), NEW ends, Chain(s.parseState, ends),
         NEW g, NEW c \in Char, c \notin Space, <<>> \notin g,
         NEW h, h = Predict(Read(Follow(s, ends), c))
  PROVE  Answered(g, c, StateEndValue(s, c), h)
<1> DEFINE y == ends[Len(s.parseState)]
<1>1. s.parseState # <<>> /\ Top(s) = "parseObjectKey" BY DEF InKey
<1>2. Follow(s, ends) = Colon(y) BY DEF Follow
<1>3. CASE c = ":"
  <2> DEFINE t == SetTop(s, "parseObjectValue")
  <2>1. StateEndValue(s, c) = To(t, "stateBeginValue", "scanObjectKey")
    BY <1>1, <1>3, EndValueCases
  <2>2. Base(t) /\ ~InKey(t) BY <1>1, SetTopLeaves DEF Contexts, InKey
  <2>3. Going(t) BY DEF Going, SetTop, Base, Scanners
  <2>4. Chain(t.parseState, ends) /\ Len(t.parseState) = Len(s.parseState)
    BY <1>1, SetTopChain
  <2>5. Follow(t, ends) = y BY <2>2, <2>4 DEF Follow
  <2>6. h = ValueAhead(Before("ws", y)) BY <1>2, <1>3, ReadColon, PredictElement
  <2> HIDE DEF t, y
  <2>7. h = Ahead("stateBeginValue", Follow(t, ends), Behind(t, ends)) BY <2>5, <2>6 DEF Ahead
  <2>8. "stateBeginValue" \in Steps \ {"stateEndTop", "stateError"} /\ "scanObjectKey" \in Opcodes \ Stops
    BY DEF Steps, Opcodes, Stops
  <2> QED BY <2>1, <2>2, <2>3, <2>4, <2>7, <2>8, ToAnswered
<1>4. CASE c # ":"
  <2>1. StateEndValue(s, c) = Error(s) BY <1>1, <1>4, EndValueCases
  <2>2. h = {} BY <1>2, <1>4, ReadColon, PredictNone
  <2> QED BY <2>1, <2>2, ErrorAnswered
<1> QED BY <1>3, <1>4

LEMMA ElementEndAnswered ==
  ASSUME NEW s, Base(s), Going(s), s.parseState # <<>>, Top(s) = "parseArrayValue",
         NEW ends, Chain(s.parseState, ends),
         NEW g, NEW c \in Char, c \notin Space, <<>> \notin g,
         NEW h, h = Predict(Read(Follow(s, ends), c))
  PROVE  Answered(g, c, StateEndValue(s, c), h)
<1> DEFINE n == Len(s.parseState)
           y == ends[n]
           r == Before("ws", ends[n - 1])
<1>1. Follow(s, ends) = y BY DEF Follow, InKey
<1>2. s.parseState \in Seq(Contexts) BY DEF Base, Scanners
<1>3. y = Closers("parseArrayValue", r) /\ r \in Full BY <1>2, ChainEnds DEF Top
<1>4. Read(y, c) = IF c = "]" THEN r ELSE IF c = "," THEN Before("elements", Before("]", r)) ELSE {}
  <2>1. r \in Goals BY <1>3 DEF Full
  <2> HIDE DEF r, y
  <2>2. Read(Closers("parseArrayValue", r), c)
          = IF c = "]" THEN r ELSE IF c = "," THEN Before("elements", Before("]", r)) ELSE {}
    BY <2>1, ReadClosers
  <2> QED BY <1>3, <2>2
<1>5. CASE c = "]"
  <2>1. StateEndValue(s, c) = Stay(Pop(s), "scanEndArray") BY <1>5, EndValueCases
  <2>2. h = Predict(r) BY <1>1, <1>4, <1>5
  <2>3. Predict(r) = Ends(ends[n - 1])
    <3>1. Base(Pop(s)) BY PopLeaves
    <3>2. Chain(Pop(s).parseState, ends) /\ Follow(Pop(s), ends) = ends[n - 1] BY PopChain
    <3>3. Closing(ends[n - 1]) BY <3>1, <3>2, FollowCloses
    <3> QED BY <3>3, PredictWs DEF Closing
  <2>4. "scanEndArray" \in Opcodes \ Stops BY DEF Opcodes, Stops
  <2> QED BY <2>1, <2>2, <2>3, <2>4, PopAnswered
<1>6. CASE c = ","
  <2>1. StateEndValue(s, c) = To(s, "stateBeginValue", "scanArrayValue") BY <1>6, EndValueCases
  <2>2. h = ValueAhead(Before("ws", y)) BY <1>1, <1>3, <1>4, <1>6, PredictElements
  <2>3. h = Ahead("stateBeginValue", Follow(s, ends), Behind(s, ends)) BY <1>1, <2>2 DEF Ahead
  <2>4. "stateBeginValue" \in Steps \ {"stateEndTop", "stateError"} /\ "scanArrayValue" \in Opcodes \ Stops
    BY DEF Steps, Opcodes, Stops
  <2> QED BY <2>1, <2>3, <2>4, ToAnswered
<1>7. CASE c \notin {",", "]"}
  <2>1. StateEndValue(s, c) = Error(s) BY <1>7, EndValueCases
  <2>2. h = {} BY <1>1, <1>4, <1>7, PredictNone
  <2> QED BY <2>1, <2>2, ErrorAnswered
<1> QED BY <1>5, <1>6, <1>7

LEMMA MemberEndAnswered ==
  ASSUME NEW s, Base(s), Going(s), s.parseState # <<>>, Top(s) = "parseObjectValue",
         NEW ends, Chain(s.parseState, ends),
         NEW g, NEW c \in Char, c \notin Space, <<>> \notin g,
         NEW h, h = Predict(Read(Follow(s, ends), c))
  PROVE  Answered(g, c, StateEndValue(s, c), h)
<1> DEFINE n == Len(s.parseState)
           y == ends[n]
           r == Before("ws", ends[n - 1])
<1>1. Follow(s, ends) = y BY DEF Follow, InKey
<1>2. s.parseState \in Seq(Contexts) BY DEF Base, Scanners
<1>3. y = Closers("parseObjectValue", r) /\ r \in Full BY <1>2, ChainEnds DEF Top
<1>4. Read(y, c) = IF c = Close THEN r ELSE IF c = "," THEN Before("members", Before(Close, r)) ELSE {}
  <2>1. r \in Goals BY <1>3 DEF Full
  <2> HIDE DEF r, y
  <2>2. Read(Closers("parseObjectValue", r), c)
          = IF c = Close THEN r ELSE IF c = "," THEN Before("members", Before(Close, r)) ELSE {}
    BY <2>1, ReadClosers
  <2> QED BY <1>3, <2>2
<1>5. CASE c = Close
  <2>1. StateEndValue(s, c) = Stay(Pop(s), "scanEndObject") BY <1>5, EndValueCases
  <2>2. h = Predict(r) BY <1>1, <1>4, <1>5
  <2>3. Predict(r) = Ends(ends[n - 1])
    <3>1. Base(Pop(s)) BY PopLeaves
    <3>2. Chain(Pop(s).parseState, ends) /\ Follow(Pop(s), ends) = ends[n - 1] BY PopChain
    <3>3. Closing(ends[n - 1]) BY <3>1, <3>2, FollowCloses
    <3> QED BY <3>3, PredictWs DEF Closing
  <2>4. "scanEndObject" \in Opcodes \ Stops BY DEF Opcodes, Stops
  <2> QED BY <2>1, <2>2, <2>3, <2>4, PopAnswered
<1>6. CASE c = ","
  <2> DEFINE t == SetTop(s, "parseObjectKey")
  <2>1. StateEndValue(s, c) = To(t, "stateBeginString", "scanObjectValue")
    BY <1>6, EndValueCases
  <2>2. Base(t) /\ InKey(t) BY SetTopLeaves DEF Contexts, InKey
  <2>3. Going(t) BY DEF Going, SetTop, Base, Scanners
  <2>4. Chain(t.parseState, ends) /\ Len(t.parseState) = n BY SetTopChain
  <2>5. Follow(t, ends) = Colon(y) BY <2>2, <2>4 DEF Follow
  <2>6. c # Close BY <1>6, Braces
  <2>7. h = Predict(Before("members", Before(Close, r))) BY <1>1, <1>4, <1>6, <2>6
  <2>8. h = KeyAhead(Before("ws", Colon(y))) BY <1>3, <2>7, PredictMembers
  <2> HIDE DEF t, y
  <2>9. h = Ahead("stateBeginString", Follow(t, ends), Behind(t, ends)) BY <2>5, <2>8 DEF Ahead
  <2>10. "stateBeginString" \in Steps \ {"stateEndTop", "stateError"} /\ "scanObjectValue" \in Opcodes \ Stops
    BY DEF Steps, Opcodes, Stops
  <2> QED BY <2>1, <2>2, <2>3, <2>4, <2>9, <2>10, ToAnswered
<1>7. CASE c \notin {",", Close}
  <2>1. StateEndValue(s, c) = Error(s) BY <1>7, EndValueCases
  <2>2. h = {} BY <1>1, <1>4, <1>7, PredictNone
  <2> QED BY <2>1, <2>2, ErrorAnswered
<1> QED BY <1>5, <1>6, <1>7

(* Behind the value that is the text, whatever comes ends it.              *)
LEMMA TextEndAnswered ==
  ASSUME NEW s, Base(s), s.parseState = <<>>, s.err = FALSE,
         NEW ends, Chain(s.parseState, ends),
         NEW g, <<>> \in g, NEW c,
         NEW h, h = IF c \in Space THEN Ends({<<>>}) ELSE {},
         NEW t, t = [s EXCEPT !.step = "stateEndTop", !.endTop = TRUE]
  PROVE  Answered(g, c, StateEndTop(t, c), h)
<1> DEFINE r == StateEndTop(t, c)
<1>1. /\ r.parseState = <<>> /\ r.op = "scanEnd" /\ r.endTop = TRUE
      /\ c \in Space => r.step = "stateEndTop" /\ r.err = FALSE
      /\ c \notin Space => r.step = "stateError" /\ r.err = TRUE
  BY DEF StateEndTop, Stay, Error, Base, Scanners
<1>2. Follow(r, ends) = {<<>>}
  <2>1. Len(<<>>) = 0 OBVIOUS
  <2> QED BY <1>1, <2>1 DEF Follow, InKey, Chain
<1> HIDE DEF r
<1>3. h = Ahead(r.step, Follow(r, ends), Behind(r, ends)) BY <1>1, <1>2 DEF Ahead
<1>4. Fits(r, h) BY <1>1, <1>3 DEF Fits
<1>5. Flags(r) BY <1>1 DEF Flags
<1> QED BY <1>1, <1>4, <1>5 DEF Answered, r

(* stateEndValue takes what may follow a value, wherever it stands.        *)
LEMMA EndValueAnswered ==
  ASSUME NEW s, Base(s), Going(s), s.step = "stateEndValue" \/ ~InKey(s),
         NEW ends, Chain(s.parseState, ends), NEW y, y = Follow(s, ends),
         NEW g, <<>> \in g <=> <<>> \in y, NEW c \in Char, Read(g, c) = Read(Ends(y), c),
         NEW h, h = Predict(Read(g, c))
  PROVE  Answered(g, c, StateEndValue(s, c), h)
<1>1. Closing(y) /\ (<<>> \in y <=> s.parseState = <<>>) BY FollowCloses
<1>2. y \in Goals /\ Stable(y) BY <1>1 DEF Closing
<1>3. c \in Space => h = Ends(y)
  <2>1. c \in Space => c \notin {",", ":", "]", Close} BY Braces DEF Space
  <2>2. c \in Space => Read(y, c) = {} BY <1>1, <2>1 DEF Closing
  <2>3. c \in Space => Read(Ends(y), c) = Before("ws", y)
    <3> DEFINE w == Before("ws", y)
    <3>1. c \in Space => Read(Ends(y), c) = Read(y, c) \cup w BY <1>2, ReadEnds
    <3> HIDE DEF w
    <3> QED BY <2>2, <3>1 DEF w
  <2> QED BY <1>2, <2>3, PredictWs
<1>4. c \notin Space => h = Predict(Read(y, c)) BY <1>2, ReadEnds
<1>5. CASE s.parseState = <<>>
  <2> DEFINE t == [s EXCEPT !.step = "stateEndTop", !.endTop = TRUE]
  <2>1. StateEndValue(s, c) = StateEndTop(t, c) BY <1>5 DEF StateEndValue
  <2>2. y = {<<>>}
    <3>1. Len(<<>>) = 0 OBVIOUS
    <3> QED BY <1>5, <3>1 DEF Follow, InKey, Chain
  <2>3. c \notin Space => h = {} BY <1>4, <2>2, ReadText, PredictNone
  <2>4. <<>> \in g BY <2>2
  <2>5. s.err = FALSE BY DEF Going
  <2>6. h = IF c \in Space THEN Ends({<<>>}) ELSE {} BY <1>3, <2>2, <2>3
  <2>7. t = [s EXCEPT !.step = "stateEndTop", !.endTop = TRUE] OBVIOUS
  <2> HIDE DEF t
  <2>8. Answered(g, c, StateEndTop(t, c), h) BY <1>5, <2>4, <2>5, <2>6, <2>7, TextEndAnswered, Zenon
  <2> QED BY <2>1, <2>8
<1>6. CASE s.parseState # <<>>
  <2>1. <<>> \notin g BY <1>1, <1>6
  <2>2. CASE c \in Space
    <3>1. StateEndValue(s, c) = To(s, "stateEndValue", "scanSkipSpace")
      BY <1>6, <2>2, EndValueCases
    <3>2. h = Ahead("stateEndValue", Follow(s, ends), Behind(s, ends)) BY <1>3, <2>2 DEF Ahead
    <3>3. "stateEndValue" \in Steps \ {"stateEndTop", "stateError"} /\ "scanSkipSpace" \in Opcodes \ Stops
      BY DEF Steps, Opcodes, Stops
    <3> QED BY <2>1, <3>1, <3>2, <3>3, ToAnswered
  <2>3. CASE c \notin Space
    <3>1. Top(s) \in Contexts BY <1>6, HasTop DEF Top, Base, Scanners
    <3>2. CASE Top(s) = "parseObjectKey"
      BY <1>4, <1>6, <2>1, <2>3, <3>2, KeyEndAnswered DEF InKey
    <3>3. CASE Top(s) = "parseObjectValue"
      BY <1>4, <1>6, <2>1, <2>3, <3>3, MemberEndAnswered
    <3>4. CASE Top(s) = "parseArrayValue"
      BY <1>4, <1>6, <2>1, <2>3, <3>4, ElementEndAnswered
    <3> QED BY <3>1, <3>2, <3>3, <3>4 DEF Contexts
  <2> QED BY <2>2, <2>3
<1> QED BY <1>5, <1>6

----------------------------------------------------------------------------
(* s waits for g, and ends fits its stack.                                 *)
Waits(s, ends, g) ==
  /\ Base(s)
  /\ Going(s)
  /\ Chain(s.parseState, ends)
  /\ g = Ahead(s.step, Follow(s, ends), Behind(s, ends))

LEMMA OpensSoon ==
  ASSUME NEW y
  PROVE  /\ <<>> \notin Values(y) /\ <<>> \notin ValueAhead(y) /\ <<>> \notin KeyAhead(y)
         /\ <<>> \notin Strings(y) /\ <<>> \notin Escapes(y) /\ <<>> \notin Ints(y)
         /\ <<>> \notin Digits(y) /\ <<>> \notin Powers(y)
         /\ <<>> \in Ends(y) <=> <<>> \in y
         /\ <<>> \in Exps(y) <=> <<>> \in y
         /\ <<>> \in Fracs(y) <=> <<>> \in y
<1>1. <<>> \notin Strings(y) /\ <<>> \notin Escapes(y) /\ <<>> \notin Ints(y) /\ <<>> \notin Digits(y)
  BY Symbols, BeforeType DEF Strings, Escapes, Ints, Digits
<1>2. <<>> \notin Powers(y) BY <1>1, Symbols, BeforeType DEF Powers
<1>3. <<>> \notin KeyAhead(y) BY Symbols, BeforeType DEF KeyAhead
<1>4. <<>> \notin Objects(y) /\ <<>> \notin Arrays(y) /\ <<>> \notin Words(y)
  BY Symbols, BeforeType DEF Objects, Arrays, Words
<1>5. ASSUME NEW n PROVE <<>> \notin Numbers(n)
  <2>1. <<>> \notin Before("0", n) /\ <<>> \notin Before("1", Before("digits", n))
        /\ <<>> \notin Before("-", Before("int", n))
    BY Symbols, BeforeType
  <2> QED BY <2>1 DEF Numbers, Ints
<1>6. <<>> \notin Before("\"", Quoted(y)) BY Symbols, BeforeType
<1>7. <<>> \notin Values(y) BY <1>4, <1>5, <1>6 DEF Values
<1>8. <<>> \notin ValueAhead(y) BY <1>7, Symbols, BeforeType DEF ValueAhead
<1>9. <<>> \in Ends(y) <=> <<>> \in y BY Symbols, BeforeType DEF Ends
<1>10. <<>> \in Exps(y) <=> <<>> \in y
  <2>1. <<>> \notin Exponents(Before("ws", y)) BY Symbols, BeforeType DEF Exponents
  <2> QED BY <1>9, <2>1 DEF Exps
<1>11. <<>> \in Fracs(y) <=> <<>> \in y BY <1>10, Symbols, BeforeType DEF Fracs
<1> QED BY <1>1, <1>2, <1>3, <1>7, <1>8, <1>9, <1>10, <1>11

(* stateBeginValue, case by case.                                          *)
LEMMA BeginValueCases ==
  ASSUME NEW s, NEW c
  PROVE  /\ c \in Space => StateBeginValue(s, c) = Stay(s, "scanSkipSpace")
         /\ c = Open => StateBeginValue(s, c)
                          = To(Push(s, "parseObjectKey"), "stateBeginStringOrEmpty", "scanBeginObject")
         /\ c = "[" => StateBeginValue(s, c)
                         = To(Push(s, "parseArrayValue"), "stateBeginValueOrEmpty", "scanBeginArray")
         /\ c \in Literals => StateBeginValue(s, c) = To(s, BeginLiteral(c), "scanBeginLiteral")
         /\ c \notin Space \cup Literals \cup {Open, "["} => StateBeginValue(s, c) = Error(s)
<1>1. c \in Space => StateBeginValue(s, c) = Stay(s, "scanSkipSpace")
  BY Zenon DEF StateBeginValue, Space, Literals
<1>2. c = Open => StateBeginValue(s, c)
                    = To(Push(s, "parseObjectKey"), "stateBeginStringOrEmpty", "scanBeginObject")
  BY Zenon DEF StateBeginValue, Space, Literals, Open
<1>3. c = "[" => StateBeginValue(s, c)
                   = To(Push(s, "parseArrayValue"), "stateBeginValueOrEmpty", "scanBeginArray")
  BY Zenon DEF StateBeginValue, Space, Literals
<1>4. c \in Literals => StateBeginValue(s, c) = To(s, BeginLiteral(c), "scanBeginLiteral")
  BY Zenon DEF StateBeginValue, Space, Literals
<1>5. c \notin Space \cup Literals \cup {Open, "["} => StateBeginValue(s, c) = Error(s)
  BY Zenon DEF StateBeginValue, Open
<1> QED BY <1>1, <1>2, <1>3, <1>4, <1>5

LEMMA ObjectAnswered ==
  ASSUME NEW s, Base(s), Going(s), ~InKey(s), NEW ends, Chain(s.parseState, ends),
         NEW v, v = Before("ws", Follow(s, ends)), NEW g, NEW c \in Char, c = Open,
         NEW h, h = Predict(Read(Objects(v), c))
  PROVE  Answered(g, c, StateBeginValue(s, c), h)
<1> DEFINE t == Push(s, "parseObjectKey")
           y == Closers("parseObjectKey", v)
<1>1. StateBeginValue(s, c) = To(t, "stateBeginStringOrEmpty", "scanBeginObject")
  BY BeginValueCases
<1>2. Base(t) /\ InKey(t) BY PushLeaves DEF Contexts, InKey
<1>3. Going(t) BY DEF Going, Push, Base, Scanners
<1>4. "parseObjectKey" \in Contexts BY DEF Contexts
<1>5. PICK new : Chain(t.parseState, new) /\ new[Len(t.parseState)] = y /\ Behind(t, new) = v
  BY <1>4, PushChain
<1> HIDE DEF t, y
<1>6. Follow(t, new) = Colon(y) BY <1>2, <1>5 DEF Follow
<1>7. h = KeyAhead(Before("ws", Colon(y))) \cup Ends(Before(Close, v))
  <2> DEFINE i == Before("ws", Before(Close, v))
             j == Before("members", Before(Close, v))
  <2>1. Read(Objects(v), c) = i \cup j BY ReadCompounds
  <2>2. Predict(i) = Ends(Before(Close, v))
    <3>1. Before(Close, v) \in Goals /\ Stable(Before(Close, v)) BY Typed, Terminals
    <3> QED BY <3>1, PredictWs
  <2>3. Predict(j) = KeyAhead(Before("ws", Colon(y))) BY PredictMembers DEF y
  <2> HIDE DEF i, j
  <2>4. Predict(i \cup j) = Predict(i) \cup Predict(j) BY PredictUnion
  <2> QED BY <2>1, <2>2, <2>3, <2>4
<1>8. h = Ahead("stateBeginStringOrEmpty", Follow(t, new), Behind(t, new))
  BY <1>5, <1>6, <1>7 DEF Ahead
<1>9. /\ "stateBeginStringOrEmpty" \in Steps \ {"stateEndTop", "stateError"}
      /\ "scanBeginObject" \in Opcodes \ Stops
  BY DEF Steps, Opcodes, Stops
<1>10. c \notin Space BY Braces
<1> QED BY <1>1, <1>2, <1>3, <1>5, <1>8, <1>9, <1>10, ToAnswered

LEMMA ArrayAnswered ==
  ASSUME NEW s, Base(s), Going(s), ~InKey(s), NEW ends, Chain(s.parseState, ends),
         NEW v, v = Before("ws", Follow(s, ends)), NEW g, NEW c \in Char, c = "[",
         NEW h, h = Predict(Read(Arrays(v), c))
  PROVE  Answered(g, c, StateBeginValue(s, c), h)
<1> DEFINE t == Push(s, "parseArrayValue")
           y == Closers("parseArrayValue", v)
<1>1. StateBeginValue(s, c) = To(t, "stateBeginValueOrEmpty", "scanBeginArray")
  BY BeginValueCases
<1>2. Base(t) /\ t.parseState # <<>> /\ Top(t) = "parseArrayValue" /\ ~InKey(t)
  BY PushLeaves DEF Contexts, InKey
<1>3. Going(t) BY DEF Going, Push, Base, Scanners
<1>4. "parseArrayValue" \in Contexts BY DEF Contexts
<1>5. PICK new : Chain(t.parseState, new) /\ new[Len(t.parseState)] = y /\ Behind(t, new) = v
  BY <1>4, PushChain
<1> HIDE DEF t, y
<1>6. Follow(t, new) = y BY <1>2, <1>5 DEF Follow
<1>7. h = ValueAhead(Before("ws", y)) \cup Ends(Before("]", v))
  <2> DEFINE i == Before("ws", Before("]", v))
             j == Before("elements", Before("]", v))
  <2>1. Read(Arrays(v), c) = i \cup j BY ReadCompounds
  <2>2. Predict(i) = Ends(Before("]", v))
    <3>1. Before("]", v) \in Goals /\ Stable(Before("]", v)) BY Typed, Terminals
    <3> QED BY <3>1, PredictWs
  <2>3. Predict(j) = ValueAhead(Before("ws", y)) BY PredictElements DEF y
  <2> HIDE DEF i, j
  <2>4. Predict(i \cup j) = Predict(i) \cup Predict(j) BY PredictUnion
  <2> QED BY <2>1, <2>2, <2>3, <2>4
<1>8. h = Ahead("stateBeginValueOrEmpty", Follow(t, new), Behind(t, new))
  BY <1>5, <1>6, <1>7 DEF Ahead
<1>9. /\ "stateBeginValueOrEmpty" \in Steps \ {"stateEndTop", "stateError"}
      /\ "scanBeginArray" \in Opcodes \ Stops
  BY DEF Steps, Opcodes, Stops
<1>10. c \notin Space BY DEF Space
<1> QED BY <1>1, <1>2, <1>3, <1>5, <1>8, <1>9, <1>10, ToAnswered

(* The first byte of a literal.                                            *)
LEMMA LiteralAnswered ==
  ASSUME NEW s, Base(s), Going(s), NEW ends, Chain(s.parseState, ends),
         NEW y, y = Follow(s, ends), NEW v, v = Before("ws", y), NEW g, NEW c \in Literals,
         NEW h, h = Predict(Read(Values(v), c))
  PROVE  Answered(g, c, To(s, BeginLiteral(c), "scanBeginLiteral"), h)
<1> DEFINE r == Behind(s, ends)
           e == Before("exp", v)
           f == Before("frac", e)
<1>1. Closing(y) BY FollowCloses
<1>2. y \in Goals /\ Stable(y) BY <1>1 DEF Closing
<1>3. f \in Goals BY Typed
<1>4. c \notin Space BY DEF Space, Literals
<1>5. BeginLiteral(c) \in Steps \ {"stateEndTop", "stateError", "stateBeginValueOrEmpty"}
  BY DEF BeginLiteral, Literals, Steps, NumberStates, WordStates
<1>6. "scanBeginLiteral" \in Opcodes \ Stops BY DEF Opcodes, Stops
<1>7. h = Ahead(BeginLiteral(c), y, r)
  <2>1. CASE c = "\""
    <3>1. Read(Values(v), c) = Quoted(v) BY <2>1, ReadValues
    <3>2. Expand(Quoted(v)) = Strings(v) /\ Expand(Strings(v)) = Strings(v)
      BY ExpandString DEF Stable
    <3>3. h = Strings(v) BY <3>1, <3>2 DEF Predict
    <3>4. BeginLiteral(c) = "stateInString" BY <2>1 DEF BeginLiteral
    <3> QED BY <3>3, <3>4 DEF Ahead
  <2>2. CASE c = "-"
    <3>1. Read(Values(v), c) = Read(Numbers(f), c) BY <2>2, ReadValues
    <3>2. Read(Numbers(f), c) = Before("int", f) BY <1>3, <2>2, ReadNumbers
    <3>3. Expand(Before("int", f)) = Ints(f) /\ Expand(Ints(f)) = Ints(f) BY ExpandInt DEF Stable
    <3> HIDE DEF f
    <3>4. h = Ints(f) BY <3>1, <3>2, <3>3 DEF Predict
    <3>5. BeginLiteral(c) = "stateNeg" BY <2>2 DEF BeginLiteral
    <3> QED BY <3>4, <3>5 DEF Ahead, f
  <2>3. CASE c = "0"
    <3>1. Read(Values(v), c) = Read(Numbers(f), c) BY <2>3, ReadValues
    <3>2. Read(Numbers(f), c) = f BY <1>3, <2>3, ReadNumbers
    <3>3. Predict(f) = Fracs(y) BY <1>2, PredictNumber
    <3>4. h = Fracs(y) BY <3>1, <3>2, <3>3
    <3>5. BeginLiteral(c) = "state0" BY <2>3 DEF BeginLiteral
    <3> QED BY <3>4, <3>5 DEF Ahead
  <2>4. CASE c = "1"
    <3>1. Read(Values(v), c) = Read(Numbers(f), c) BY <2>4, ReadValues
    <3>2. Read(Numbers(f), c) = Before("digits", f) BY <1>3, <2>4, ReadNumbers
    <3>3. Predict(Before("digits", f)) = Fracs(y) \cup Digits(f) BY <1>2, PredictNumber
    <3>4. h = Fracs(y) \cup Digits(f) BY <3>1, <3>2, <3>3
    <3>5. BeginLiteral(c) = "state1" BY <2>4 DEF BeginLiteral
    <3> QED BY <3>4, <3>5 DEF Ahead
  <2>5. CASE c \in {"t", "f", "n"}
    <3>1. Read(Values(v), c) = Read(Words(v), c) BY <2>5, ReadValues
    <3>2. CASE c = "t"
      <4>1. Read(Words(v), c) = Before("r", Before("u", Before("e", v))) BY <3>2, ReadWords
      <4>2. Stable(Before("r", Before("u", Before("e", v)))) BY Terminals
      <4>3. h = Before("r", Before("u", Before("e", v))) BY <3>1, <4>1, <4>2, PredictStable
      <4>4. BeginLiteral(c) = "stateT" BY <3>2 DEF BeginLiteral
      <4> QED BY <4>3, <4>4 DEF Ahead
    <3>3. CASE c = "f"
      <4>1. Read(Words(v), c) = Before("a", Before("l", Before("s", Before("e", v))))
        BY <3>3, ReadWords
      <4>2. Stable(Before("a", Before("l", Before("s", Before("e", v))))) BY Terminals
      <4>3. h = Before("a", Before("l", Before("s", Before("e", v)))) BY <3>1, <4>1, <4>2, PredictStable
      <4>4. BeginLiteral(c) = "stateF" BY <3>3 DEF BeginLiteral
      <4> QED BY <4>3, <4>4 DEF Ahead
    <3>4. CASE c = "n"
      <4>1. Read(Words(v), c) = Before("u", Before("l", Before("l", v))) BY <3>4, ReadWords
      <4>2. Stable(Before("u", Before("l", Before("l", v)))) BY Terminals
      <4>3. h = Before("u", Before("l", Before("l", v))) BY <3>1, <4>1, <4>2, PredictStable
      <4>4. BeginLiteral(c) = "stateN" BY <3>4 DEF BeginLiteral
      <4> QED BY <4>3, <4>4 DEF Ahead
    <3> QED BY <2>5, <3>2, <3>3, <3>4
  <2> QED BY <2>1, <2>2, <2>3, <2>4, <2>5 DEF Literals
<1> QED BY <1>4, <1>5, <1>6, <1>7, ToAnswered

(* stateBeginValue takes what a value may begin with.                      *)
LEMMA ValueAnswered ==
  ASSUME NEW s, Base(s), Going(s), ~InKey(s), NEW ends, Chain(s.parseState, ends),
         NEW v, v = Before("ws", Follow(s, ends)),
         NEW g, <<>> \notin g, NEW c \in Char, c \notin Space, Read(g, c) = Read(Values(v), c),
         NEW h, h = Predict(Read(g, c))
  PROVE  Answered(g, c, StateBeginValue(s, c), h)
<1>1. CASE c = Open
  <2>1. c # "[" BY <1>1, Braces
  <2>2. Read(Arrays(v), c) = {} BY <2>1, ReadCompounds
  <2>3. Read(Values(v), c) = Read(Objects(v), c) \cup Read(Arrays(v), c) BY <1>1, ReadValues
  <2>4. Read(g, c) = Read(Objects(v), c) BY <2>2, <2>3
  <2> QED BY <1>1, <2>4, ObjectAnswered
<1>2. CASE c = "["
  <2>1. c # Open BY <1>2, Braces
  <2>2. Read(Objects(v), c) = {} BY <2>1, ReadCompounds
  <2>3. Read(Values(v), c) = Read(Objects(v), c) \cup Read(Arrays(v), c) BY <1>2, ReadValues
  <2>4. Read(g, c) = Read(Arrays(v), c) BY <2>2, <2>3
  <2> QED BY <1>2, <2>4, ArrayAnswered
<1>3. CASE c \in Literals
  <2>1. StateBeginValue(s, c) = To(s, BeginLiteral(c), "scanBeginLiteral")
    BY <1>3, BeginValueCases
  <2> QED BY <1>3, <2>1, LiteralAnswered
<1>4. CASE c \notin Literals \cup {Open, "["}
  <2>1. StateBeginValue(s, c) = Error(s) BY <1>4, BeginValueCases
  <2>2. h = {} BY <1>4, ReadValues, PredictNone
  <2> QED BY <2>1, <2>2, ErrorAnswered
<1> QED BY <1>1, <1>2, <1>3, <1>4

----------------------------------------------------------------------------
(* The states before a value, a key or their absence.                      *)
LEMMA SpaceAnswered ==
  ASSUME NEW s, NEW ends, NEW g, Waits(s, ends, g), <<>> \notin g,
         s.step \in {"stateBeginValue", "stateBeginString", "stateBeginStringOrEmpty"}
           \/ (/\ s.step = "stateBeginValueOrEmpty"
               /\ s.parseState # <<>> /\ Top(s) = "parseArrayValue"),
         NEW c
  PROVE  Answered(g, c, Stay(s, "scanSkipSpace"), g)
<1>1. Base(s) /\ Going(s) /\ Chain(s.parseState, ends) BY DEF Waits
<1>2. g = Ahead(s.step, Follow(s, ends), Behind(s, ends)) BY DEF Waits
<1>3. "scanSkipSpace" \in Opcodes \ Stops BY DEF Opcodes, Stops
<1>4. Stay(s, "scanSkipSpace") = To(s, s.step, "scanSkipSpace") /\ s.step \in Steps
  BY <1>1, <1>3, StayIsTo
<1>5. s.step \notin {"stateEndTop", "stateError"} OBVIOUS
<1> QED BY <1>1, <1>2, <1>3, <1>4, <1>5, ToAnswered

LEMMA BeginValueAnswered ==
  ASSUME NEW s, NEW ends, NEW g, Waits(s, ends, g), ~InKey(s), s.step = "stateBeginValue",
         NEW c \in Char, NEW h, h = Predict(Read(g, c))
  PROVE  Answered(g, c, StateBeginValue(s, c), h)
<1> DEFINE v == Before("ws", Follow(s, ends))
<1>1. Base(s) /\ Going(s) /\ Chain(s.parseState, ends) BY DEF Waits
<1>2. g = ValueAhead(v) BY DEF Waits, Ahead
<1>3. <<>> \notin g BY <1>2, OpensSoon
<1>4. CASE c \in Space
  <2>1. StateBeginValue(s, c) = Stay(s, "scanSkipSpace") BY <1>4, BeginValueCases
  <2>2. h = g BY <1>2, <1>4, ReadValueAhead, PredictValue
  <2> QED BY <1>3, <2>1, <2>2, SpaceAnswered
<1>5. CASE c \notin Space
  <2>1. Read(g, c) = Read(Values(v), c) BY <1>2, <1>5, ReadValueAhead
  <2> QED BY <1>1, <1>3, <1>5, <2>1, ValueAnswered
<1> QED BY <1>4, <1>5

LEMMA BeginValueOrEmptyAnswered ==
  ASSUME NEW s, NEW ends, NEW g, Waits(s, ends, g), s.step = "stateBeginValueOrEmpty",
         s.parseState # <<>>, Top(s) = "parseArrayValue",
         NEW c \in Char, NEW h, h = Predict(Read(g, c))
  PROVE  Answered(g, c, StateBeginValueOrEmpty(s, c), h)
<1> DEFINE y == Follow(s, ends)
           v == Before("ws", y)
           r == Behind(s, ends)
           b == Before("]", r)
           i == ValueAhead(v)
           j == Ends(b)
<1>1. Base(s) /\ Going(s) /\ Chain(s.parseState, ends) BY DEF Waits
<1>2. g = i \cup j BY DEF Waits, Ahead
<1>3. ~InKey(s) BY DEF InKey
<1>4. /\ b \in Goals /\ Stable(b)
      /\ <<>> \notin b
  BY Typed, Terminals, Symbols, BeforeType
<1>5. <<>> \notin g BY <1>2, <1>4, OpensSoon
<1>6. r \in Goals BY Typed DEF Behind
<1>7. Read(b, c) = IF c = "]" THEN r ELSE {} BY <1>6, ByteNames, ReadByte
<1>8. "]" \notin Space BY DEF Space
<1> HIDE DEF b, r
<1>9. /\ c \in Space => Read(j, c) = Before("ws", b)
      /\ c \notin Space => Read(j, c) = IF c = "]" THEN r ELSE {}
  <2> DEFINE w == Before("ws", b)
  <2>1. c \in Space => Read(j, c) = Read(b, c) \cup w BY <1>4, ReadEnds
  <2>2. c \notin Space => Read(j, c) = Read(b, c) BY <1>4, ReadEnds
  <2> HIDE DEF w, j
  <2> QED BY <1>7, <1>8, <2>1, <2>2 DEF w
<1>10. Read(i \cup j, c) = Read(i, c) \cup Read(j, c) BY ReadUnion
<1>11. CASE c \in Space
  <2> DEFINE k == Before("ws", Before("value", v))
             l == Before("ws", b)
  <2>1. StateBeginValueOrEmpty(s, c) = Stay(s, "scanSkipSpace")
    BY <1>8, <1>11, BeginValueCases DEF StateBeginValueOrEmpty
  <2>2. Read(i, c) = k BY <1>11, ReadValueAhead
  <2>3. Predict(k) = i BY PredictValue
  <2>4. Predict(l) = j BY <1>4, PredictWs
  <2>5. Read(j, c) = l BY <1>9, <1>11
  <2> HIDE DEF i, j, k, l
  <2>6. Predict(k \cup l) = Predict(k) \cup Predict(l) BY PredictUnion
  <2>7. h = g BY <1>2, <1>10, <2>2, <2>3, <2>4, <2>5, <2>6
  <2> QED BY <1>5, <2>1, <2>7, SpaceAnswered
<1>12. CASE c = "]"
  <2>1. StateBeginValueOrEmpty(s, c) = StateEndValue(s, c) BY <1>12 DEF StateBeginValueOrEmpty
  <2>2. Read(i, c) = {}
    <3>1. c \notin {Open, "["} \cup Literals BY <1>12, Braces DEF Literals
    <3>2. Read(i, c) = Read(Values(v), c) BY <1>8, <1>12, ReadValueAhead
    <3> QED BY <3>1, <3>2, ReadValues
  <2>3. Read(j, c) = r BY <1>8, <1>9, <1>12
  <2>4. s.parseState \in Seq(Contexts) BY <1>1 DEF Base, Scanners
  <2>5. y = Closers("parseArrayValue", r) /\ r \in Goals
    BY <1>1, <1>3, <2>4, ChainEnds DEF Follow, Top, Behind, r, Full
  <2>6. Closing(y) /\ <<>> \notin y BY <1>1, FollowCloses
  <2>7. Read(Ends(y), c) = r
    <3> HIDE DEF y
    <3>1. Read(Closers("parseArrayValue", r), c) = r BY <1>12, <2>5, ReadClosers
    <3>2. Read(Ends(y), c) = Read(y, c) BY <1>8, <1>12, <2>6, ReadEnds DEF Closing
    <3> QED BY <2>5, <3>1, <3>2
  <2> HIDE DEF i, j, y
  <2>8. Read(g, c) = Read(Ends(y), c) BY <1>2, <1>10, <2>2, <2>3, <2>7
  <2>9. y = Follow(s, ends) BY DEF y
  <2> QED BY <1>1, <1>3, <1>5, <2>1, <2>6, <2>8, <2>9, EndValueAnswered
<1>13. CASE c \notin Space \cup {"]"}
  <2>1. StateBeginValueOrEmpty(s, c) = StateBeginValue(s, c) BY <1>13 DEF StateBeginValueOrEmpty
  <2>2. Read(i, c) = Read(Values(v), c) BY <1>13, ReadValueAhead
  <2>3. Read(j, c) = {} BY <1>9, <1>13
  <2> HIDE DEF i, j
  <2>4. Read(g, c) = Read(Values(v), c) BY <1>2, <1>10, <2>2, <2>3
  <2> QED BY <1>1, <1>3, <1>5, <1>13, <2>1, <2>4, ValueAnswered
<1> QED BY <1>11, <1>12, <1>13

(* A key.                                                                  *)
LEMMA KeyAnswered ==
  ASSUME NEW s, Base(s), Going(s), InKey(s), NEW ends, Chain(s.parseState, ends),
         NEW k, k = Before("ws", Follow(s, ends)),
         NEW g, <<>> \notin g, NEW c \in Char, c \notin Space, Read(g, c) = Read(KeyAhead(k), c),
         NEW h, h = Predict(Read(g, c))
  PROVE  Answered(g, c, StateBeginString(s, c), h)
<1>1. CASE c = "\""
  <2>1. StateBeginString(s, c) = To(s, "stateInString", "scanBeginLiteral")
    BY <1>1 DEF StateBeginString
  <2>2. Read(g, c) = Quoted(k) BY <1>1, ReadKeyAhead
  <2>3. Expand(Quoted(k)) = Strings(k) /\ Expand(Strings(k)) = Strings(k)
    BY ExpandString DEF Stable
  <2>4. h = Strings(k) BY <2>2, <2>3 DEF Predict
  <2>5. h = Ahead("stateInString", Follow(s, ends), Behind(s, ends)) BY <2>4 DEF Ahead
  <2>6. "stateInString" \in Steps \ {"stateEndTop", "stateError"} /\ "scanBeginLiteral" \in Opcodes \ Stops
    BY DEF Steps, Opcodes, Stops
  <2> QED BY <2>1, <2>5, <2>6, ToAnswered
<1>2. CASE c # "\""
  <2>1. StateBeginString(s, c) = Error(s) BY <1>2 DEF StateBeginString
  <2>2. Read(g, c) = {} BY <1>2, ReadKeyAhead
  <2>3. h = {} BY <2>2, PredictNone
  <2> QED BY <2>1, <2>3, ErrorAnswered
<1> QED BY <1>1, <1>2

LEMMA BeginStringAnswered ==
  ASSUME NEW s, NEW ends, NEW g, Waits(s, ends, g), InKey(s), s.step = "stateBeginString",
         NEW c \in Char, NEW h, h = Predict(Read(g, c))
  PROVE  Answered(g, c, StateBeginString(s, c), h)
<1> DEFINE k == Before("ws", Follow(s, ends))
<1>1. Base(s) /\ Going(s) /\ Chain(s.parseState, ends) BY DEF Waits
<1>2. g = KeyAhead(k) BY DEF Waits, Ahead
<1>3. <<>> \notin g BY <1>2, OpensSoon
<1>4. CASE c \in Space
  <2>1. StateBeginString(s, c) = Stay(s, "scanSkipSpace") BY <1>4 DEF StateBeginString, Space
  <2>2. h = g BY <1>2, <1>4, ReadKeyAhead, PredictString
  <2> QED BY <1>3, <2>1, <2>2, SpaceAnswered
<1>5. CASE c \notin Space
  <2> HIDE DEF k
  <2> QED BY <1>1, <1>2, <1>3, <1>5, KeyAnswered DEF k
<1> QED BY <1>4, <1>5

LEMMA BeginStringOrEmptyAnswered ==
  ASSUME NEW s, NEW ends, NEW g, Waits(s, ends, g), s.step = "stateBeginStringOrEmpty", InKey(s),
         NEW c \in Char, NEW h, h = Predict(Read(g, c))
  PROVE  Answered(g, c, StateBeginStringOrEmpty(s, c), h)
<1> DEFINE y == Follow(s, ends)
           v == Before("ws", y)
           r == Behind(s, ends)
           b == Before(Close, r)
           i == KeyAhead(v)
           j == Ends(b)
<1>1. Base(s) /\ Going(s) /\ Chain(s.parseState, ends) BY DEF Waits
<1>2. g = i \cup j BY DEF Waits, Ahead
<1>3. s.parseState # <<>> /\ Top(s) = "parseObjectKey" BY DEF InKey
<1>4. /\ b \in Goals /\ Stable(b)
      /\ <<>> \notin b
  BY Typed, Terminals, Symbols, BeforeType
<1>5. <<>> \notin g BY <1>2, <1>4, OpensSoon
<1>6. r \in Goals BY Typed DEF Behind
<1>7. Read(b, c) = IF c = Close THEN r ELSE {} BY <1>6, ByteNames, ReadByte
<1>8. Close \notin Space /\ Close # "\"" BY Braces DEF Literals
<1>9. /\ c = Close => StateBeginStringOrEmpty(s, c)
                         = StateEndValue(SetTop(s, "parseObjectValue"), c)
      /\ c # Close => StateBeginStringOrEmpty(s, c) = StateBeginString(s, c)
  BY Zenon DEF StateBeginStringOrEmpty, Close
<1> HIDE DEF b, r
<1>10. /\ c \in Space => Read(j, c) = Before("ws", b)
       /\ c \notin Space => Read(j, c) = IF c = Close THEN r ELSE {}
  <2> DEFINE w == Before("ws", b)
  <2>1. c \in Space => Read(j, c) = Read(b, c) \cup w BY <1>4, ReadEnds
  <2>2. c \notin Space => Read(j, c) = Read(b, c) BY <1>4, ReadEnds
  <2> HIDE DEF w, j
  <2> QED BY <1>7, <1>8, <2>1, <2>2 DEF w
<1>11. Read(i \cup j, c) = Read(i, c) \cup Read(j, c) BY ReadUnion
<1>12. CASE c \in Space
  <2> DEFINE k == Before("ws", Before("string", v))
             l == Before("ws", b)
  <2>1. StateBeginStringOrEmpty(s, c) = Stay(s, "scanSkipSpace")
    BY <1>8, <1>9, <1>12 DEF StateBeginString, Space
  <2>2. Read(i, c) = k BY <1>12, ReadKeyAhead
  <2>3. Predict(k) = i BY PredictString
  <2>4. Predict(l) = j BY <1>4, PredictWs
  <2>5. Read(j, c) = l BY <1>10, <1>12
  <2> HIDE DEF i, j, k, l
  <2>6. Predict(k \cup l) = Predict(k) \cup Predict(l) BY PredictUnion
  <2>7. h = g BY <1>2, <1>11, <2>2, <2>3, <2>4, <2>5, <2>6
  <2> QED BY <1>5, <2>1, <2>7, SpaceAnswered
<1>13. CASE c = Close
  <2> DEFINE t == SetTop(s, "parseObjectValue")
             z == Follow(t, ends)
  <2>1. StateBeginStringOrEmpty(s, c) = StateEndValue(t, c) BY <1>9, <1>13
  <2>2. Read(i, c) = {} BY <1>8, <1>13, ReadKeyAhead
  <2>3. Read(j, c) = r BY <1>8, <1>10, <1>13
  <2>4. Base(t) /\ t.parseState # <<>> /\ Top(t) = "parseObjectValue" /\ ~InKey(t)
    BY <1>1, <1>3, SetTopLeaves DEF Contexts, InKey
  <2>5. Going(t) BY <1>1 DEF Going, SetTop, Base, Scanners
  <2>6. Chain(t.parseState, ends) /\ Behind(t, ends) = r
    BY <1>1, <1>3, SetTopChain DEF r
  <2> HIDE DEF t
  <2>7. t.parseState \in Seq(Contexts) BY <2>4 DEF Base, Scanners
  <2>8. z = Closers("parseObjectValue", r)
    BY <2>4, <2>6, <2>7, ChainEnds DEF Follow, Top, Behind
  <2>9. Closing(z) /\ <<>> \notin z BY <2>4, <2>6, FollowCloses
  <2>10. Read(Ends(z), c) = r
    <3> HIDE DEF z
    <3>1. Read(Closers("parseObjectValue", r), c) = r BY <1>6, <1>13, ReadClosers
    <3>2. Read(Ends(z), c) = Read(z, c) BY <1>8, <1>13, <2>9, ReadEnds DEF Closing
    <3> QED BY <2>8, <3>1, <3>2
  <2> HIDE DEF i, j, z
  <2>11. Read(g, c) = Read(Ends(z), c) BY <1>2, <1>11, <2>2, <2>3, <2>10
  <2>12. z = Follow(t, ends) BY DEF z
  <2> QED BY <1>5, <2>1, <2>4, <2>5, <2>6, <2>9, <2>11, <2>12, EndValueAnswered
<1>14. CASE c \notin Space \cup {Close}
  <2>1. StateBeginStringOrEmpty(s, c) = StateBeginString(s, c) BY <1>9, <1>14
  <2>2. Read(j, c) = {} BY <1>10, <1>14
  <2> HIDE DEF j
  <2>3. Read(g, c) = Read(i, c) BY <1>2, <1>11, <2>2
  <2> QED BY <1>1, <1>5, <1>14, <2>1, <2>3, KeyAnswered
<1> QED BY <1>12, <1>13, <1>14

----------------------------------------------------------------------------
(* Inside of a string.                                                     *)
LEMMA PredictQuoted ==
  ASSUME NEW v
  PROVE  Predict(Quoted(v)) = Strings(v)
<1>1. Expand(Quoted(v)) = Strings(v) /\ Expand(Strings(v)) = Strings(v)
  BY ExpandString DEF Stable
<1> QED BY <1>1 DEF Predict

(* The states inside of a literal word: one letter is right.               *)
LEMMA WordAnswered ==
  ASSUME NEW s, NEW ends, NEW g, Waits(s, ends, g), s.step \in WordStates,
         NEW c \in Char, NEW h, h = Predict(Read(g, c))
  PROVE  Answered(g, c, StateInWord(s, c), h)
<1> DEFINE y == Follow(s, ends)
           v == Before("ws", y)
<1>1. Base(s) /\ Going(s) /\ Chain(s.parseState, ends) BY DEF Waits
<1>2. g = Ahead(s.step, y, Behind(s, ends)) BY DEF Waits
<1>3. PICK rest \in Goals : /\ g = Before(Letter[s.step], rest)
                            /\ Predict(rest) = Ahead(AfterLetter[s.step], y, Behind(s, ends))
  <2>1. CASE s.step = "stateT"
    <3> DEFINE w == Before("u", Before("e", v))
    <3>1. g = Before("r", w) BY <1>2, <2>1 DEF Ahead
    <3>2. Letter[s.step] = "r" /\ AfterLetter[s.step] = "stateTr" BY <2>1 DEF Letter, AfterLetter
    <3>3. w = Ahead("stateTr", y, Behind(s, ends)) BY DEF Ahead
    <3>4. w \in Goals /\ Stable(w) BY Typed, Terminals
    <3>5. Predict(w) = w BY <3>4, PredictStable
    <3> HIDE DEF w
    <3> QED BY <3>1, <3>2, <3>3, <3>4, <3>5
  <2>2. CASE s.step = "stateTr"
    <3> DEFINE w == Before("e", v)
    <3>1. g = Before("u", w) BY <1>2, <2>2 DEF Ahead
    <3>2. Letter[s.step] = "u" /\ AfterLetter[s.step] = "stateTru" BY <2>2 DEF Letter, AfterLetter
    <3>3. w = Ahead("stateTru", y, Behind(s, ends)) BY DEF Ahead
    <3>4. w \in Goals /\ Stable(w) BY Typed, Terminals
    <3>5. Predict(w) = w BY <3>4, PredictStable
    <3> HIDE DEF w
    <3> QED BY <3>1, <3>2, <3>3, <3>4, <3>5
  <2>3. CASE s.step = "stateTru"
    <3> DEFINE w == v
    <3>1. g = Before("e", w) BY <1>2, <2>3 DEF Ahead
    <3>2. Letter[s.step] = "e" /\ AfterLetter[s.step] = "stateEndValue" BY <2>3 DEF Letter, AfterLetter
    <3>3. Ends(y) = Ahead("stateEndValue", y, Behind(s, ends)) BY DEF Ahead
    <3>4. w \in Goals BY Typed
    <3>5. Predict(w) = Ends(y) BY <1>1, FollowCloses, PredictWs DEF Closing
    <3> HIDE DEF w
    <3> QED BY <3>1, <3>2, <3>3, <3>4, <3>5
  <2>4. CASE s.step = "stateF"
    <3> DEFINE w == Before("l", Before("s", Before("e", v)))
    <3>1. g = Before("a", w) BY <1>2, <2>4 DEF Ahead
    <3>2. Letter[s.step] = "a" /\ AfterLetter[s.step] = "stateFa" BY <2>4 DEF Letter, AfterLetter
    <3>3. w = Ahead("stateFa", y, Behind(s, ends)) BY DEF Ahead
    <3>4. w \in Goals /\ Stable(w) BY Typed, Terminals
    <3>5. Predict(w) = w BY <3>4, PredictStable
    <3> HIDE DEF w
    <3> QED BY <3>1, <3>2, <3>3, <3>4, <3>5
  <2>5. CASE s.step = "stateFa"
    <3> DEFINE w == Before("s", Before("e", v))
    <3>1. g = Before("l", w) BY <1>2, <2>5 DEF Ahead
    <3>2. Letter[s.step] = "l" /\ AfterLetter[s.step] = "stateFal" BY <2>5 DEF Letter, AfterLetter
    <3>3. w = Ahead("stateFal", y, Behind(s, ends)) BY DEF Ahead
    <3>4. w \in Goals /\ Stable(w) BY Typed, Terminals
    <3>5. Predict(w) = w BY <3>4, PredictStable
    <3> HIDE DEF w
    <3> QED BY <3>1, <3>2, <3>3, <3>4, <3>5
  <2>6. CASE s.step = "stateFal"
    <3> DEFINE w == Before("e", v)
    <3>1. g = Before("s", w) BY <1>2, <2>6 DEF Ahead
    <3>2. Letter[s.step] = "s" /\ AfterLetter[s.step] = "stateFals" BY <2>6 DEF Letter, AfterLetter
    <3>3. w = Ahead("stateFals", y, Behind(s, ends)) BY DEF Ahead
    <3>4. w \in Goals /\ Stable(w) BY Typed, Terminals
    <3>5. Predict(w) = w BY <3>4, PredictStable
    <3> HIDE DEF w
    <3> QED BY <3>1, <3>2, <3>3, <3>4, <3>5
  <2>7. CASE s.step = "stateFals"
    <3> DEFINE w == v
    <3>1. g = Before("e", w) BY <1>2, <2>7 DEF Ahead
    <3>2. Letter[s.step] = "e" /\ AfterLetter[s.step] = "stateEndValue" BY <2>7 DEF Letter, AfterLetter
    <3>3. Ends(y) = Ahead("stateEndValue", y, Behind(s, ends)) BY DEF Ahead
    <3>4. w \in Goals BY Typed
    <3>5. Predict(w) = Ends(y) BY <1>1, FollowCloses, PredictWs DEF Closing
    <3> HIDE DEF w
    <3> QED BY <3>1, <3>2, <3>3, <3>4, <3>5
  <2>8. CASE s.step = "stateN"
    <3> DEFINE w == Before("l", Before("l", v))
    <3>1. g = Before("u", w) BY <1>2, <2>8 DEF Ahead
    <3>2. Letter[s.step] = "u" /\ AfterLetter[s.step] = "stateNu" BY <2>8 DEF Letter, AfterLetter
    <3>3. w = Ahead("stateNu", y, Behind(s, ends)) BY DEF Ahead
    <3>4. w \in Goals /\ Stable(w) BY Typed, Terminals
    <3>5. Predict(w) = w BY <3>4, PredictStable
    <3> HIDE DEF w
    <3> QED BY <3>1, <3>2, <3>3, <3>4, <3>5
  <2>9. CASE s.step = "stateNu"
    <3> DEFINE w == Before("l", v)
    <3>1. g = Before("l", w) BY <1>2, <2>9 DEF Ahead
    <3>2. Letter[s.step] = "l" /\ AfterLetter[s.step] = "stateNul" BY <2>9 DEF Letter, AfterLetter
    <3>3. w = Ahead("stateNul", y, Behind(s, ends)) BY DEF Ahead
    <3>4. w \in Goals /\ Stable(w) BY Typed, Terminals
    <3>5. Predict(w) = w BY <3>4, PredictStable
    <3> HIDE DEF w
    <3> QED BY <3>1, <3>2, <3>3, <3>4, <3>5
  <2>10. CASE s.step = "stateNul"
    <3> DEFINE w == v
    <3>1. g = Before("l", w) BY <1>2, <2>10 DEF Ahead
    <3>2. Letter[s.step] = "l" /\ AfterLetter[s.step] = "stateEndValue" BY <2>10 DEF Letter, AfterLetter
    <3>3. Ends(y) = Ahead("stateEndValue", y, Behind(s, ends)) BY DEF Ahead
    <3>4. w \in Goals BY Typed
    <3>5. Predict(w) = Ends(y) BY <1>1, FollowCloses, PredictWs DEF Closing
    <3> HIDE DEF w
    <3> QED BY <3>1, <3>2, <3>3, <3>4, <3>5
  <2> QED BY <2>1, <2>2, <2>3, <2>4, <2>5, <2>6, <2>7, <2>8, <2>9, <2>10 DEF WordStates
<1>4. Letter[s.step] \in Char /\ Letter[s.step] \notin Space
  <2>1. Letter[s.step] \in {"r", "u", "e", "a", "l", "s"} BY DEF Letter, WordStates
  <2> QED BY <2>1, ByteNames DEF Space
<1>5. <<>> \notin g BY <1>3, <1>4, Bytes, BeforeType
<1>6. Read(g, c) = IF c = Letter[s.step] THEN rest ELSE {} BY <1>3, <1>4, ReadByte
<1>7. CASE c = Letter[s.step]
  <2>1. StateInWord(s, c) = To(s, AfterLetter[s.step], "scanContinue") BY <1>7 DEF StateInWord
  <2>2. AfterLetter[s.step] \in Steps \ {"stateEndTop", "stateError", "stateBeginValueOrEmpty"}
    BY DEF AfterLetter, Steps, WordStates
  <2>3. "scanContinue" \in Opcodes \ Stops BY DEF Opcodes, Stops
  <2>4. h = Ahead(AfterLetter[s.step], y, Behind(s, ends)) BY <1>3, <1>6, <1>7
  <2> QED BY <1>1, <1>5, <2>1, <2>2, <2>3, <2>4, ToAnswered
<1>8. CASE c # Letter[s.step]
  <2>1. StateInWord(s, c) = Error(s) BY <1>8 DEF StateInWord
  <2>2. h = {} BY <1>6, <1>8, PredictNone
  <2> QED BY <1>1, <1>5, <2>1, <2>2, ErrorAnswered
<1> QED BY <1>7, <1>8

(* The states inside of a string.                                          *)
LEMMA HexAnswered ==
  ASSUME NEW s, NEW ends, NEW g, Waits(s, ends, g), s.step \in HexStates,
         NEW c \in Char, NEW h, h = Predict(Read(g, c))
  PROVE  Answered(g, c, StateInStringEscU(s, c), h)
<1> DEFINE y == Follow(s, ends)
           v == Before("ws", y)
           q == Quoted(v)
<1>1. Base(s) /\ Going(s) /\ Chain(s.parseState, ends) BY DEF Waits
<1>2. g = Ahead(s.step, y, Behind(s, ends)) BY DEF Waits
<1>3. PICK rest \in Goals : /\ g = Before("hex", rest)
                            /\ Predict(rest) = Ahead(AfterHex[s.step], y, Behind(s, ends))
  <2>1. CASE s.step = "stateInStringEscU"
    <3> DEFINE w == Before("hex", Before("hex", Before("hex", q)))
    <3>1. g = Before("hex", w) BY <1>2, <2>1 DEF Ahead
    <3>2. AfterHex[s.step] = "stateInStringEscU1" BY <2>1 DEF AfterHex
    <3>3. w = Ahead("stateInStringEscU1", y, Behind(s, ends)) BY DEF Ahead
    <3>4. w \in Goals /\ Stable(w) BY Typed, Terminals
    <3>5. Predict(w) = w BY <3>4, PredictStable
    <3> HIDE DEF w
    <3> QED BY <3>1, <3>2, <3>3, <3>4, <3>5
  <2>2. CASE s.step = "stateInStringEscU1"
    <3> DEFINE w == Before("hex", Before("hex", q))
    <3>1. g = Before("hex", w) BY <1>2, <2>2 DEF Ahead
    <3>2. AfterHex[s.step] = "stateInStringEscU12" BY <2>2 DEF AfterHex
    <3>3. w = Ahead("stateInStringEscU12", y, Behind(s, ends)) BY DEF Ahead
    <3>4. w \in Goals /\ Stable(w) BY Typed, Terminals
    <3>5. Predict(w) = w BY <3>4, PredictStable
    <3> HIDE DEF w
    <3> QED BY <3>1, <3>2, <3>3, <3>4, <3>5
  <2>3. CASE s.step = "stateInStringEscU12"
    <3> DEFINE w == Before("hex", q)
    <3>1. g = Before("hex", w) BY <1>2, <2>3 DEF Ahead
    <3>2. AfterHex[s.step] = "stateInStringEscU123" BY <2>3 DEF AfterHex
    <3>3. w = Ahead("stateInStringEscU123", y, Behind(s, ends)) BY DEF Ahead
    <3>4. w \in Goals /\ Stable(w) BY Typed, Terminals
    <3>5. Predict(w) = w BY <3>4, PredictStable
    <3> HIDE DEF w
    <3> QED BY <3>1, <3>2, <3>3, <3>4, <3>5
  <2>4. CASE s.step = "stateInStringEscU123"
    <3> DEFINE w == q
    <3>1. g = Before("hex", w) BY <1>2, <2>4 DEF Ahead
    <3>2. AfterHex[s.step] = "stateInString" BY <2>4 DEF AfterHex
    <3>3. Strings(v) = Ahead("stateInString", y, Behind(s, ends)) BY DEF Ahead
    <3>4. w \in Goals BY Typed DEF Quoted
    <3>5. Predict(w) = Strings(v) BY PredictQuoted
    <3> HIDE DEF w
    <3> QED BY <3>1, <3>2, <3>3, <3>4, <3>5
  <2> QED BY <2>1, <2>2, <2>3, <2>4 DEF HexStates
<1>4. <<>> \notin g BY <1>3, Symbols, BeforeType
<1>5. Read(g, c) = IF c \in Hex THEN rest ELSE {} BY <1>3, ReadClass
<1>6. CASE c \in Hex
  <2>1. StateInStringEscU(s, c) = To(s, AfterHex[s.step], "scanContinue") BY <1>6 DEF StateInStringEscU
  <2>2. AfterHex[s.step] \in Steps \ {"stateEndTop", "stateError", "stateBeginValueOrEmpty"}
    BY DEF AfterHex, Steps, HexStates
  <2>3. "scanContinue" \in Opcodes \ Stops BY DEF Opcodes, Stops
  <2>4. h = Ahead(AfterHex[s.step], y, Behind(s, ends)) BY <1>3, <1>5, <1>6
  <2> QED BY <1>1, <1>4, <2>1, <2>2, <2>3, <2>4, ToAnswered
<1>7. CASE c \notin Hex
  <2>1. StateInStringEscU(s, c) = Error(s) BY <1>7 DEF StateInStringEscU
  <2>2. h = {} BY <1>5, <1>7, PredictNone
  <2> QED BY <1>1, <1>4, <2>1, <2>2, ErrorAnswered
<1> QED BY <1>6, <1>7

LEMMA InStringAnswered ==
  ASSUME NEW s, NEW ends, NEW g, Waits(s, ends, g), s.step = "stateInString",
         NEW c \in Char, NEW h, h = Predict(Read(g, c))
  PROVE  Answered(g, c, StateInString(s, c), h)
<1> DEFINE y == Follow(s, ends)
           v == Before("ws", y)
           r == Behind(s, ends)
<1>1. Base(s) /\ Going(s) /\ Chain(s.parseState, ends) BY DEF Waits
<1>2. g = Strings(v) BY DEF Waits, Ahead
<1>3. <<>> \notin g BY <1>2, OpensSoon
<1>4. v \in Goals BY Typed
<1>5. {"stateEndValue", "stateInString", "stateInStringEsc"} \subseteq Steps \ {"stateEndTop", "stateError"}
      /\ "scanContinue" \in Opcodes \ Stops
  BY DEF Steps, Opcodes, Stops
<1>6. CASE c = "\""
  <2>1. StateInString(s, c) = To(s, "stateEndValue", "scanContinue") BY <1>6 DEF StateInString
  <2>2. Read(g, c) = v BY <1>2, <1>4, <1>6, ReadStrings
  <2>3. h = Ends(y) BY <1>1, <2>2, FollowCloses, PredictWs DEF Closing
  <2>4. h = Ahead("stateEndValue", y, r) BY <2>3 DEF Ahead
  <2> QED BY <1>1, <1>3, <1>5, <2>1, <2>4, ToAnswered
<1>7. CASE c = "\\"
  <2>1. StateInString(s, c) = To(s, "stateInStringEsc", "scanContinue") BY <1>7 DEF StateInString
  <2>2. Read(g, c) = Before("escaped", Quoted(v)) BY <1>2, <1>4, <1>7, ReadStrings
  <2>3. Expand(Before("escaped", Quoted(v))) = Escapes(Quoted(v))
        /\ Expand(Escapes(Quoted(v))) = Escapes(Quoted(v))
    BY ExpandEscaped DEF Stable
  <2>4. h = Escapes(Quoted(v)) BY <2>2, <2>3 DEF Predict
  <2>5. h = Ahead("stateInStringEsc", y, r) BY <2>4 DEF Ahead
  <2> QED BY <1>1, <1>3, <1>5, <2>1, <2>5, ToAnswered
<1>8. CASE c \in {"tab", "control"}
  <2>1. StateInString(s, c) = Error(s) BY <1>8 DEF StateInString
  <2>2. h = {} BY <1>2, <1>4, <1>8, ReadStrings, PredictNone
  <2> QED BY <1>1, <1>3, <2>1, <2>2, ErrorAnswered
<1>9. CASE c \notin {"\"", "\\", "tab", "control"}
  <2>1. StateInString(s, c) = Stay(s, "scanContinue") BY <1>9 DEF StateInString
  <2>2. Stay(s, "scanContinue") = To(s, "stateInString", "scanContinue") BY <1>1, <1>5, StayIsTo
  <2>3. Read(g, c) = Quoted(v) BY <1>2, <1>4, <1>9, ReadStrings
  <2>4. h = Strings(v) BY <2>3, PredictQuoted
  <2>5. h = Ahead("stateInString", y, r) BY <2>4 DEF Ahead
  <2> QED BY <1>1, <1>3, <1>5, <2>1, <2>2, <2>5, ToAnswered
<1> QED BY <1>6, <1>7, <1>8, <1>9

LEMMA EscapeAnswered ==
  ASSUME NEW s, NEW ends, NEW g, Waits(s, ends, g), s.step = "stateInStringEsc",
         NEW c \in Char, NEW h, h = Predict(Read(g, c))
  PROVE  Answered(g, c, StateInStringEsc(s, c), h)
<1> DEFINE y == Follow(s, ends)
           v == Before("ws", y)
           q == Quoted(v)
           r == Behind(s, ends)
<1>1. Base(s) /\ Going(s) /\ Chain(s.parseState, ends) BY DEF Waits
<1>2. g = Escapes(q) BY DEF Waits, Ahead
<1>3. <<>> \notin g BY <1>2, OpensSoon
<1>4. q \in Goals BY Typed DEF Quoted
<1>5. {"stateInString", "stateInStringEscU"} \subseteq Steps \ {"stateEndTop", "stateError"}
      /\ "scanContinue" \in Opcodes \ Stops
  BY DEF Steps, HexStates, Opcodes, Stops
<1>6. CASE c = "u"
  <2> DEFINE w == Before("hex", Before("hex", Before("hex", Before("hex", q))))
  <2>1. StateInStringEsc(s, c) = To(s, "stateInStringEscU", "scanContinue")
    BY <1>6 DEF StateInStringEsc
  <2>2. w = Ahead("stateInStringEscU", y, r) BY DEF Ahead
  <2>3. Stable(w) BY Terminals
  <2>4. Read(g, c) = w BY <1>2, <1>4, <1>6, ReadEscapes
  <2> HIDE DEF w
  <2>5. h = w BY <2>3, <2>4, PredictStable
  <2> QED BY <1>1, <1>3, <1>5, <2>1, <2>2, <2>5, ToAnswered
<1>7. CASE c \in Escape \ {"u"}
  <2>1. StateInStringEsc(s, c) = To(s, "stateInString", "scanContinue")
    BY <1>7 DEF StateInStringEsc
  <2>2. Read(g, c) = q BY <1>2, <1>4, <1>7, ReadEscapes
  <2>3. h = Strings(v) BY <2>2, PredictQuoted
  <2>4. h = Ahead("stateInString", y, r) BY <2>3 DEF Ahead
  <2> QED BY <1>1, <1>3, <1>5, <2>1, <2>4, ToAnswered
<1>8. CASE c \notin Escape
  <2>1. c # "u" BY <1>8 DEF Escape
  <2>2. StateInStringEsc(s, c) = Error(s) BY <1>8, <2>1 DEF StateInStringEsc
  <2>3. h = {} BY <1>2, <1>4, <1>8, ReadEscapes, PredictNone
  <2> QED BY <1>1, <1>3, <2>2, <2>3, ErrorAnswered
<1> QED BY <1>6, <1>7, <1>8

----------------------------------------------------------------------------
(* Inside of a number.  No end of a number begins with a digit.            *)
LEMMA ReadDigitsNone ==
  ASSUME NEW y, Closing(y), NEW c \in Digit
  PROVE  Read(Ends(y), c) = {} /\ Read(Exps(y), c) = {} /\ Read(Fracs(y), c) = {}
<1> DEFINE v == Before("ws", y)
<1>1. c \notin Space /\ c \notin Exponent /\ c # "." /\ c \notin {",", ":", "]"}
  BY DEF Digit, Space, Exponent
<1>2. c # Close BY Braces DEF Digit, Literals
<1>3. Read(y, c) = {} BY <1>1, <1>2 DEF Closing
<1>4. Read(Ends(y), c) = {} BY <1>1, <1>3, ReadEnds DEF Closing
<1>5. Read(Exps(y), c) = Read(Ends(y), c) BY <1>1, ReadExps
<1>6. Read(Fracs(y), c) = Read(Ends(y), c) BY <1>1, ReadFracs
<1> QED BY <1>4, <1>5, <1>6

(* Digits can go on where a part of a number can end.                      *)
LEMMA ReadGoesOn ==
  ASSUME NEW end, NEW w, NEW c, c \in Digit => Read(end, c) = {}
  PROVE  /\ c \in Digit => Read(end \cup Digits(w), c) = Before("digits", w)
         /\ c \notin Digit => Read(end \cup Digits(w), c) = Read(end, c)
         /\ <<>> \in end \cup Digits(w) <=> <<>> \in end
<1> DEFINE d == Digits(w)
<1>1. Read(d, c) = IF c \in Digit THEN Before("digits", w) ELSE {} BY ReadDigits
<1>2. <<>> \notin d BY OpensSoon
<1> HIDE DEF d
<1>3. Read(end \cup d, c) = Read(end, c) \cup Read(d, c) BY ReadUnion
<1>4. c \in Digit => Read(end \cup d, c) = Before("digits", w) BY <1>1, <1>3
<1>5. c \notin Digit => Read(end \cup d, c) = Read(end, c) BY <1>1, <1>3
<1> QED BY <1>2, <1>4, <1>5 DEF d

(* The states of a number, and those that a number leads to.               *)
LEMMA NumberSteps ==
  /\ NumberStates \subseteq Steps \ {"stateEndTop", "stateError", "stateBeginValueOrEmpty"}
  /\ "scanContinue" \in Opcodes \ Stops
  BY DEF NumberStates, Steps, Opcodes, Stops

(* state0: a fraction, an exponent or the end of the number.               *)
LEMMA FracAnswered ==
  ASSUME NEW s, Base(s), Going(s), ~InKey(s), NEW ends, Chain(s.parseState, ends),
         NEW y, y = Follow(s, ends), NEW c \in Char,
         NEW g, <<>> \in g <=> <<>> \in y, Read(g, c) = Read(Fracs(y), c),
         NEW h, h = Predict(Read(g, c))
  PROVE  Answered(g, c, State0(s, c), h)
<1> DEFINE v == Before("ws", y)
           e == Before("exp", v)
           r == Behind(s, ends)
<1>1. Closing(y) BY FollowCloses
<1>2. CASE c = "."
  <2>1. State0(s, c) = To(s, "stateDot", "scanContinue") BY <1>2 DEF State0, Exponent
  <2>2. Read(g, c) = Digits(e) BY <1>1, <1>2, ReadFracs
  <2>3. Stable(Digits(e)) BY Terminals DEF Digits
  <2>4. h = Digits(e) BY <2>2, <2>3, PredictStable
  <2>5. h = Ahead("stateDot", y, r) BY <2>4 DEF Ahead
  <2>6. c \notin Space BY <1>2 DEF Space
  <2>7. "stateDot" \in NumberStates BY DEF NumberStates
  <2> QED BY <2>1, <2>5, <2>6, <2>7, NumberSteps, ToAnswered
<1>3. CASE c \in Exponent
  <2>1. State0(s, c) = To(s, "stateE", "scanContinue") BY <1>3 DEF State0, Exponent
  <2>2. Read(g, c) = Powers(v) BY <1>1, <1>3, ReadFracs
  <2>3. h = Powers(v) BY <2>2, ReadPowers, PredictStable
  <2>4. h = Ahead("stateE", y, r) BY <2>3 DEF Ahead
  <2>5. c \notin Space BY <1>3 DEF Space, Exponent
  <2>6. "stateE" \in NumberStates BY DEF NumberStates
  <2> QED BY <2>1, <2>4, <2>5, <2>6, NumberSteps, ToAnswered
<1>4. CASE c \notin Exponent \cup {"."}
  <2>1. State0(s, c) = StateEndValue(s, c) BY <1>4 DEF State0
  <2>2. Read(g, c) = Read(Ends(y), c) BY <1>1, <1>4, ReadFracs
  <2> QED BY <2>1, <2>2, EndValueAnswered
<1> QED BY <1>2, <1>3, <1>4

LEMMA State0Answered ==
  ASSUME NEW s, NEW ends, NEW g, Waits(s, ends, g), ~InKey(s), s.step = "state0",
         NEW c \in Char, NEW h, h = Predict(Read(g, c))
  PROVE  Answered(g, c, State0(s, c), h)
<1> DEFINE y == Follow(s, ends)
<1>1. Base(s) /\ Going(s) /\ Chain(s.parseState, ends) BY DEF Waits
<1>2. g = Fracs(y) BY DEF Waits, Ahead
<1>3. <<>> \in g <=> <<>> \in y BY <1>2, OpensSoon
<1> QED BY <1>1, <1>2, <1>3, FracAnswered

LEMMA State1Answered ==
  ASSUME NEW s, NEW ends, NEW g, Waits(s, ends, g), ~InKey(s), s.step = "state1",
         NEW c \in Char, NEW h, h = Predict(Read(g, c))
  PROVE  Answered(g, c, State1(s, c), h)
<1> DEFINE y == Follow(s, ends)
           f == Before("frac", Before("exp", Before("ws", y)))
           end == Fracs(y)
<1>1. Base(s) /\ Going(s) /\ Chain(s.parseState, ends) BY DEF Waits
<1>2. g = end \cup Digits(f) BY DEF Waits, Ahead
<1>3. Closing(y) BY <1>1, FollowCloses
<1>4. c \in Digit => Read(end, c) = {} BY <1>3, ReadDigitsNone
<1>5. <<>> \in end <=> <<>> \in y BY OpensSoon
<1>6. Predict(Before("digits", f)) = end \cup Digits(f) BY <1>3, PredictNumber DEF Closing
<1> HIDE DEF y, f, end
<1>7. /\ c \in Digit => Read(g, c) = Before("digits", f)
      /\ c \notin Digit => Read(g, c) = Read(end, c)
      /\ <<>> \in g <=> <<>> \in end
  <2> DEFINE d == Digits(f)
  <2>1. /\ c \in Digit => Read(end \cup d, c) = Before("digits", f)
        /\ c \notin Digit => Read(end \cup d, c) = Read(end, c)
        /\ <<>> \in end \cup d <=> <<>> \in end
    BY <1>4, ReadGoesOn
  <2>2. g = end \cup d BY <1>2
  <2> HIDE DEF d
  <2> QED BY <2>1, <2>2
<1>8. CASE c \in Digit
  <2>1. State1(s, c) = To(s, s.step, "scanContinue")
    BY <1>1, <1>8, NumberSteps, StayIsTo DEF State1
  <2>2. h = g BY <1>2, <1>6, <1>7, <1>8
  <2>3. h = Ahead(s.step, Follow(s, ends), Behind(s, ends)) BY <2>2 DEF Waits
  <2>4. c \notin Space BY <1>8 DEF Space, Digit
  <2>5. s.step \in NumberStates BY DEF NumberStates
  <2> QED BY <1>1, <2>1, <2>3, <2>4, <2>5, NumberSteps, ToAnswered
<1>9. CASE c \notin Digit
  <2>1. State1(s, c) = State0(s, c) BY <1>9 DEF State1
  <2>2. Read(g, c) = Read(Fracs(y), c) BY <1>7, <1>9 DEF end
  <2> QED BY <1>1, <1>5, <1>7, <2>1, <2>2, FracAnswered DEF y
<1> QED BY <1>8, <1>9

(* stateNeg: the digits that the sign needs.                               *)
LEMMA NegAnswered ==
  ASSUME NEW s, NEW ends, NEW g, Waits(s, ends, g), ~InKey(s), s.step = "stateNeg",
         NEW c \in Char, NEW h, h = Predict(Read(g, c))
  PROVE  Answered(g, c, StateNeg(s, c), h)
<1> DEFINE y == Follow(s, ends)
           f == Before("frac", Before("exp", Before("ws", y)))
           r == Behind(s, ends)
<1>1. Base(s) /\ Going(s) /\ Chain(s.parseState, ends) BY DEF Waits
<1>2. g = Ints(f) BY DEF Waits, Ahead
<1>3. Closing(y) BY <1>1, FollowCloses
<1>4. <<>> \notin g BY <1>2, OpensSoon
<1>5. Read(g, c) = IF c = "0" THEN f ELSE IF c = "1" THEN Before("digits", f) ELSE {}
  <2>1. f \in Goals BY Typed
  <2> HIDE DEF f
  <2> QED BY <1>2, <2>1, ReadInts
<1>6. CASE c = "0"
  <2>1. StateNeg(s, c) = To(s, "state0", "scanContinue") BY <1>6 DEF StateNeg
  <2>2. Predict(f) = Fracs(y) BY <1>3, PredictNumber DEF Closing
  <2>3. h = Fracs(y) BY <1>5, <1>6, <2>2
  <2>4. h = Ahead("state0", y, r) BY <2>3 DEF Ahead
  <2>5. "state0" \in NumberStates BY DEF NumberStates
  <2> QED BY <1>1, <1>4, <2>1, <2>4, <2>5, NumberSteps, ToAnswered
<1>7. CASE c = "1"
  <2>1. StateNeg(s, c) = To(s, "state1", "scanContinue") BY <1>7 DEF StateNeg
  <2>2. Predict(Before("digits", f)) = Fracs(y) \cup Digits(f)
    BY <1>3, PredictNumber DEF Closing
  <2>3. h = Fracs(y) \cup Digits(f) BY <1>5, <1>7, <2>2
  <2>4. h = Ahead("state1", y, r) BY <2>3 DEF Ahead
  <2>5. "state1" \in NumberStates BY DEF NumberStates
  <2> QED BY <1>1, <1>4, <2>1, <2>4, <2>5, NumberSteps, ToAnswered
<1>8. CASE c \notin {"0", "1"}
  <2>1. StateNeg(s, c) = Error(s) BY <1>8 DEF StateNeg
  <2>2. h = {} BY <1>5, <1>8, PredictNone
  <2> QED BY <1>1, <1>4, <2>1, <2>2, ErrorAnswered
<1> QED BY <1>6, <1>7, <1>8

(* The digits of a fraction.                                               *)
LEMMA DotAnswered ==
  ASSUME NEW s, NEW ends, NEW g, Waits(s, ends, g), ~InKey(s), s.step = "stateDot",
         NEW c \in Char, NEW h, h = Predict(Read(g, c))
  PROVE  Answered(g, c, StateDot(s, c), h)
<1> DEFINE y == Follow(s, ends)
           e == Before("exp", Before("ws", y))
           r == Behind(s, ends)
<1>1. Base(s) /\ Going(s) /\ Chain(s.parseState, ends) BY DEF Waits
<1>2. g = Digits(e) BY DEF Waits, Ahead
<1>3. Closing(y) BY <1>1, FollowCloses
<1>4. <<>> \notin g BY <1>2, OpensSoon
<1>5. Read(g, c) = IF c \in Digit THEN Before("digits", e) ELSE {} BY <1>2, ReadDigits
<1>6. CASE c \in Digit
  <2>1. StateDot(s, c) = To(s, "stateDot0", "scanContinue") BY <1>6 DEF StateDot
  <2>2. Predict(Before("digits", e)) = Exps(y) \cup Digits(e) BY <1>3, PredictNumber DEF Closing
  <2>3. h = Exps(y) \cup Digits(e) BY <1>5, <1>6, <2>2
  <2>4. h = Ahead("stateDot0", y, r) BY <2>3 DEF Ahead
  <2>5. "stateDot0" \in NumberStates BY DEF NumberStates
  <2> QED BY <1>1, <1>4, <2>1, <2>4, <2>5, NumberSteps, ToAnswered
<1>7. CASE c \notin Digit
  <2>1. StateDot(s, c) = Error(s) BY <1>7 DEF StateDot
  <2>2. h = {} BY <1>5, <1>7, PredictNone
  <2> QED BY <1>1, <1>4, <2>1, <2>2, ErrorAnswered
<1> QED BY <1>6, <1>7

LEMMA Dot0Answered ==
  ASSUME NEW s, NEW ends, NEW g, Waits(s, ends, g), ~InKey(s), s.step = "stateDot0",
         NEW c \in Char, NEW h, h = Predict(Read(g, c))
  PROVE  Answered(g, c, StateDot0(s, c), h)
<1> DEFINE y == Follow(s, ends)
           v == Before("ws", y)
           e == Before("exp", v)
           end == Exps(y)
           r == Behind(s, ends)
<1>1. Base(s) /\ Going(s) /\ Chain(s.parseState, ends) BY DEF Waits
<1>2. g = end \cup Digits(e) BY DEF Waits, Ahead
<1>3. Closing(y) BY <1>1, FollowCloses
<1>4. c \in Digit => Read(end, c) = {} BY <1>3, ReadDigitsNone
<1>5. <<>> \in end <=> <<>> \in y BY OpensSoon
<1>6. Predict(Before("digits", e)) = end \cup Digits(e) BY <1>3, PredictNumber DEF Closing
<1> HIDE DEF e, end
<1>7. /\ c \in Digit => Read(g, c) = Before("digits", e)
      /\ c \notin Digit => Read(g, c) = Read(end, c)
      /\ <<>> \in g <=> <<>> \in end
  <2> DEFINE d == Digits(e)
  <2>1. /\ c \in Digit => Read(end \cup d, c) = Before("digits", e)
        /\ c \notin Digit => Read(end \cup d, c) = Read(end, c)
        /\ <<>> \in end \cup d <=> <<>> \in end
    BY <1>4, ReadGoesOn
  <2>2. g = end \cup d BY <1>2
  <2> HIDE DEF d
  <2> QED BY <2>1, <2>2
<1>8. CASE c \in Digit
  <2>1. StateDot0(s, c) = To(s, s.step, "scanContinue")
    BY <1>1, <1>8, NumberSteps, StayIsTo DEF StateDot0, Digit, Exponent
  <2>2. h = g BY <1>2, <1>6, <1>7, <1>8
  <2>3. h = Ahead(s.step, y, r) BY <2>2 DEF Waits
  <2>4. c \notin Space BY <1>8 DEF Space, Digit
  <2>5. s.step \in NumberStates BY DEF NumberStates
  <2> QED BY <1>1, <2>1, <2>3, <2>4, <2>5, NumberSteps, ToAnswered
<1>9. CASE c \in Exponent
  <2>1. c \notin Digit /\ c \notin Space BY <1>9 DEF Digit, Space, Exponent
  <2>2. StateDot0(s, c) = To(s, "stateE", "scanContinue") BY <1>9, <2>1 DEF StateDot0
  <2>3. Read(g, c) = Powers(v) BY <1>3, <1>7, <1>9, <2>1, ReadExps DEF end
  <2>4. h = Powers(v) BY <2>3, ReadPowers, PredictStable
  <2>5. h = Ahead("stateE", y, r) BY <2>4 DEF Ahead
  <2>6. "stateE" \in NumberStates BY DEF NumberStates
  <2> QED BY <1>1, <2>1, <2>2, <2>5, <2>6, NumberSteps, ToAnswered
<1>10. CASE c \notin Digit \cup Exponent
  <2>1. StateDot0(s, c) = StateEndValue(s, c) BY <1>10 DEF StateDot0
  <2>2. Read(g, c) = Read(Ends(y), c) BY <1>3, <1>7, <1>10, ReadExps DEF end
  <2> QED BY <1>1, <1>5, <1>7, <2>1, <2>2, EndValueAnswered
<1> QED BY <1>8, <1>9, <1>10

(* The sign and the digits of an exponent.                                 *)
LEMMA SignedAnswered ==
  ASSUME NEW s, Base(s), Going(s), NEW ends, Chain(s.parseState, ends),
         NEW y, y = Follow(s, ends), NEW v, v = Before("ws", y),
         NEW g, <<>> \notin g, NEW c \in Char,
         Read(g, c) = IF c \in Digit THEN Before("digits", v) ELSE {},
         NEW h, h = Predict(Read(g, c))
  PROVE  Answered(g, c, StateESign(s, c), h)
<1> DEFINE r == Behind(s, ends)
<1>1. Closing(y) BY FollowCloses
<1>2. CASE c \in Digit
  <2>1. StateESign(s, c) = To(s, "stateE0", "scanContinue") BY <1>2 DEF StateESign
  <2>2. Predict(Before("digits", v)) = Ends(y) \cup Digits(v) BY <1>1, PredictNumber DEF Closing
  <2>3. h = Ends(y) \cup Digits(v) BY <1>2, <2>2
  <2>4. h = Ahead("stateE0", y, r) BY <2>3 DEF Ahead
  <2>5. "stateE0" \in NumberStates BY DEF NumberStates
  <2> QED BY <2>1, <2>4, <2>5, NumberSteps, ToAnswered
<1>3. CASE c \notin Digit
  <2>1. StateESign(s, c) = Error(s) BY <1>3 DEF StateESign
  <2>2. h = {} BY <1>3, PredictNone
  <2> QED BY <2>1, <2>2, ErrorAnswered
<1> QED BY <1>2, <1>3

LEMMA ESignAnswered ==
  ASSUME NEW s, NEW ends, NEW g, Waits(s, ends, g), ~InKey(s), s.step = "stateESign",
         NEW c \in Char, NEW h, h = Predict(Read(g, c))
  PROVE  Answered(g, c, StateESign(s, c), h)
<1> DEFINE v == Before("ws", Follow(s, ends))
<1>1. Base(s) /\ Going(s) /\ Chain(s.parseState, ends) BY DEF Waits
<1>2. g = Digits(v) BY DEF Waits, Ahead
<1>3. <<>> \notin g BY <1>2, OpensSoon
<1>4. Read(g, c) = IF c \in Digit THEN Before("digits", v) ELSE {} BY <1>2, ReadDigits
<1> QED BY <1>1, <1>3, <1>4, SignedAnswered

LEMMA EAnswered ==
  ASSUME NEW s, NEW ends, NEW g, Waits(s, ends, g), ~InKey(s), s.step = "stateE",
         NEW c \in Char, NEW h, h = Predict(Read(g, c))
  PROVE  Answered(g, c, StateE(s, c), h)
<1> DEFINE y == Follow(s, ends)
           v == Before("ws", y)
           r == Behind(s, ends)
<1>1. Base(s) /\ Going(s) /\ Chain(s.parseState, ends) BY DEF Waits
<1>2. g = Powers(v) BY DEF Waits, Ahead
<1>3. <<>> \notin g BY <1>2, OpensSoon
<1>4. CASE c \in {"+", "-"}
  <2>1. StateE(s, c) = To(s, "stateESign", "scanContinue") BY <1>4 DEF StateE
  <2>2. Read(g, c) = Digits(v) BY <1>2, <1>4, ReadPowers
  <2>3. Stable(Digits(v)) BY Terminals DEF Digits
  <2>4. h = Digits(v) BY <2>2, <2>3, PredictStable
  <2>5. h = Ahead("stateESign", y, r) BY <2>4 DEF Ahead
  <2>6. "stateESign" \in NumberStates BY DEF NumberStates
  <2> QED BY <1>1, <1>3, <2>1, <2>5, <2>6, NumberSteps, ToAnswered
<1>5. CASE c \notin {"+", "-"}
  <2>1. StateE(s, c) = StateESign(s, c) BY <1>5 DEF StateE
  <2>2. Read(g, c) = IF c \in Digit THEN Before("digits", v) ELSE {} BY <1>2, <1>5, ReadPowers
  <2> QED BY <1>1, <1>3, <2>1, <2>2, SignedAnswered
<1> QED BY <1>4, <1>5

LEMMA E0Answered ==
  ASSUME NEW s, NEW ends, NEW g, Waits(s, ends, g), ~InKey(s), s.step = "stateE0",
         NEW c \in Char, NEW h, h = Predict(Read(g, c))
  PROVE  Answered(g, c, StateE0(s, c), h)
<1> DEFINE y == Follow(s, ends)
           v == Before("ws", y)
           end == Ends(y)
<1>1. Base(s) /\ Going(s) /\ Chain(s.parseState, ends) BY DEF Waits
<1>2. g = end \cup Digits(v) BY DEF Waits, Ahead
<1>3. Closing(y) BY <1>1, FollowCloses
<1>4. c \in Digit => Read(end, c) = {} BY <1>3, ReadDigitsNone
<1>5. <<>> \in end <=> <<>> \in y BY OpensSoon
<1>6. Predict(Before("digits", v)) = end \cup Digits(v) BY <1>3, PredictNumber DEF Closing
<1> HIDE DEF v, end
<1>7. /\ c \in Digit => Read(g, c) = Before("digits", v)
      /\ c \notin Digit => Read(g, c) = Read(end, c)
      /\ <<>> \in g <=> <<>> \in end
  <2> DEFINE d == Digits(v)
  <2>1. /\ c \in Digit => Read(end \cup d, c) = Before("digits", v)
        /\ c \notin Digit => Read(end \cup d, c) = Read(end, c)
        /\ <<>> \in end \cup d <=> <<>> \in end
    BY <1>4, ReadGoesOn
  <2>2. g = end \cup d BY <1>2
  <2> HIDE DEF d
  <2> QED BY <2>1, <2>2
<1>8. CASE c \in Digit
  <2>1. StateE0(s, c) = To(s, s.step, "scanContinue")
    BY <1>1, <1>8, NumberSteps, StayIsTo DEF StateE0
  <2>2. h = g BY <1>2, <1>6, <1>7, <1>8
  <2>3. h = Ahead(s.step, Follow(s, ends), Behind(s, ends)) BY <2>2 DEF Waits
  <2>4. c \notin Space BY <1>8 DEF Space, Digit
  <2>5. s.step \in NumberStates BY DEF NumberStates
  <2> QED BY <1>1, <2>1, <2>3, <2>4, <2>5, NumberSteps, ToAnswered
<1>9. CASE c \notin Digit
  <2>1. StateE0(s, c) = StateEndValue(s, c) BY <1>9 DEF StateE0
  <2>2. Read(g, c) = Read(Ends(y), c) BY <1>7, <1>9 DEF end
  <2> QED BY <1>1, <1>5, <1>7, <2>1, <2>2, EndValueAnswered
<1> QED BY <1>8, <1>9

----------------------------------------------------------------------------
(* Whatever the byte, the scanner answers it as the grammar does.          *)
LEMMA TopAnswered ==
  ASSUME NEW s, Base(s), Flags(s), s.step = "stateEndTop", NEW ends, Chain(s.parseState, ends),
         NEW g, g = Ahead(s.step, Follow(s, ends), Behind(s, ends)),
         NEW c \in Char, NEW h, h = Predict(Read(g, c))
  PROVE  Answered(g, c, StateEndTop(s, c), h)
<1> DEFINE y == {<<>>}
<1>1. s.parseState = <<>> /\ s.endTop = TRUE /\ s.err = FALSE BY DEF Flags, Base, Scanners
<1>2. Follow(s, ends) = y
  <2>1. Len(<<>>) = 0 OBVIOUS
  <2> QED BY <1>1, <2>1 DEF Follow, InKey, Chain
<1>3. g = Ends(y) BY <1>2 DEF Ahead
<1>4. Closing(y) BY TextCloses
<1>5. <<>> \in g
  <2>1. <<>> \in y OBVIOUS
  <2> HIDE DEF y
  <2> QED BY <1>3, <2>1, OpensSoon
<1>6. h = IF c \in Space THEN Ends(y) ELSE {}
  <2>1. Read(y, c) = {} BY ReadText
  <2> DEFINE w == Before("ws", y)
  <2>2. Predict(w) = Ends(y) BY <1>4, PredictWs DEF Closing
  <2> HIDE DEF y
  <2>3. c \in Space => Read(g, c) = Read(y, c) \cup w BY <1>3, <1>4, ReadEnds DEF Closing
  <2>4. c \notin Space => Read(g, c) = Read(y, c) BY <1>3, <1>4, ReadEnds DEF Closing
  <2> HIDE DEF w
  <2>5. c \in Space => Read(g, c) = w BY <2>1, <2>3
  <2>6. c \notin Space => h = {} BY <2>1, <2>4, PredictNone
  <2> QED BY <2>2, <2>5, <2>6
<1>7. s = [s EXCEPT !.step = "stateEndTop", !.endTop = TRUE] BY <1>1 DEF Base, Scanners
<1> QED BY <1>1, <1>5, <1>6, <1>7, TextEndAnswered

LEMMA StepAnswered ==
  ASSUME NEW s, WellFormed(s), Flags(s), s.step # "stateError", NEW g, Fits(s, g),
         NEW c \in Char, NEW h, h = Predict(Read(g, c))
  PROVE  Answered(g, c, Step(s, c), h)
<1> USE DEF HexStates, WordStates
<1>1. Base(s) BY WellFormedBase
<1>2. PICK ends : /\ Chain(s.parseState, ends)
                  /\ g = Ahead(s.step, Follow(s, ends), Behind(s, ends))
  BY DEF Fits
<1>3. CASE s.step = "stateEndTop"
  <2>1. Step(s, c) = StateEndTop(s, c) BY <1>3 DEF Step
  <2> QED BY <1>1, <1>2, <1>3, <2>1, TopAnswered
<1>4. CASE s.step # "stateEndTop"
  <2>1. Going(s) BY <1>1, <1>4 DEF Flags, Going, Base, Scanners
  <2>2. Waits(s, ends, g) BY <1>1, <1>2, <2>1 DEF Waits
  <2>3. /\ s.step \in {"stateBeginString", "stateBeginStringOrEmpty"} => InKey(s)
        /\ s.step \in {"stateBeginValue", "stateBeginValueOrEmpty"} \cup NumberStates \cup WordStates
             => ~InKey(s)
    BY DEF WellFormed
  <2>4. CASE s.step = "stateBeginValue"
    <3>1. Step(s, c) = StateBeginValue(s, c) BY <2>4 DEF Step
    <3> QED BY <2>2, <2>3, <2>4, <3>1, BeginValueAnswered
  <2>5. CASE s.step = "stateBeginValueOrEmpty"
    <3>1. Step(s, c) = StateBeginValueOrEmpty(s, c) BY <2>5 DEF Step
    <3>2. s.parseState # <<>> /\ Top(s) = "parseArrayValue" BY <2>5 DEF Flags
    <3> QED BY <2>2, <2>5, <3>1, <3>2, BeginValueOrEmptyAnswered
  <2>6. CASE s.step = "stateBeginString"
    <3>1. Step(s, c) = StateBeginString(s, c) BY <2>6 DEF Step
    <3> QED BY <2>2, <2>3, <2>6, <3>1, BeginStringAnswered
  <2>7. CASE s.step = "stateBeginStringOrEmpty"
    <3>1. Step(s, c) = StateBeginStringOrEmpty(s, c) BY <2>7 DEF Step
    <3> QED BY <2>2, <2>3, <2>7, <3>1, BeginStringOrEmptyAnswered
  <2>8. CASE s.step = "stateEndValue"
    <3> DEFINE y == Follow(s, ends)
    <3>1. Step(s, c) = StateEndValue(s, c) BY <2>8 DEF Step
    <3>2. g = Ends(y) BY <1>2, <2>8 DEF Ahead
    <3>3. <<>> \in g <=> <<>> \in y BY <3>2, OpensSoon
    <3> QED BY <1>1, <1>2, <2>1, <2>8, <3>1, <3>2, <3>3, EndValueAnswered
  <2>9. CASE s.step = "stateInString"
    <3>1. Step(s, c) = StateInString(s, c) BY <2>9 DEF Step
    <3> QED BY <2>2, <2>9, <3>1, InStringAnswered
  <2>10. CASE s.step = "stateInStringEsc"
    <3>1. Step(s, c) = StateInStringEsc(s, c) BY <2>10 DEF Step
    <3> QED BY <2>2, <2>10, <3>1, EscapeAnswered
  <2>11. CASE s.step \in HexStates
    <3>1. Step(s, c) = StateInStringEscU(s, c) BY <2>11 DEF Step
    <3> QED BY <2>2, <2>11, <3>1, HexAnswered
  <2>12. CASE s.step \in WordStates
    <3>1. Step(s, c) = StateInWord(s, c) BY <2>12 DEF Step
    <3> QED BY <2>2, <2>12, <3>1, WordAnswered
  <2>13. CASE s.step = "stateNeg"
    <3>1. Step(s, c) = StateNeg(s, c) /\ s.step \in NumberStates BY <2>13 DEF Step, NumberStates
    <3> QED BY <2>2, <2>3, <2>13, <3>1, NegAnswered
  <2>14. CASE s.step = "state1"
    <3>1. Step(s, c) = State1(s, c) /\ s.step \in NumberStates BY <2>14 DEF Step, NumberStates
    <3> QED BY <2>2, <2>3, <2>14, <3>1, State1Answered
  <2>15. CASE s.step = "state0"
    <3>1. Step(s, c) = State0(s, c) /\ s.step \in NumberStates BY <2>15 DEF Step, NumberStates
    <3> QED BY <2>2, <2>3, <2>15, <3>1, State0Answered
  <2>16. CASE s.step = "stateDot"
    <3>1. Step(s, c) = StateDot(s, c) /\ s.step \in NumberStates BY <2>16 DEF Step, NumberStates
    <3> QED BY <2>2, <2>3, <2>16, <3>1, DotAnswered
  <2>17. CASE s.step = "stateDot0"
    <3>1. Step(s, c) = StateDot0(s, c) /\ s.step \in NumberStates BY <2>17 DEF Step, NumberStates
    <3> QED BY <2>2, <2>3, <2>17, <3>1, Dot0Answered
  <2>18. CASE s.step = "stateE"
    <3>1. Step(s, c) = StateE(s, c) /\ s.step \in NumberStates BY <2>18 DEF Step, NumberStates
    <3> QED BY <2>2, <2>3, <2>18, <3>1, EAnswered
  <2>19. CASE s.step = "stateESign"
    <3>1. Step(s, c) = StateESign(s, c) /\ s.step \in NumberStates BY <2>19 DEF Step, NumberStates
    <3> QED BY <2>2, <2>3, <2>19, <3>1, ESignAnswered
  <2>20. CASE s.step = "stateE0"
    <3>1. Step(s, c) = StateE0(s, c) /\ s.step \in NumberStates BY <2>20 DEF Step, NumberStates
    <3> QED BY <2>2, <2>3, <2>20, <3>1, E0Answered
  <2>21. s.step \in Steps BY <1>1 DEF Base, Scanners
  <2> QED
    BY <1>4, <2>4, <2>5, <2>6, <2>7, <2>8, <2>9, <2>10, <2>11, <2>12, <2>13, <2>14, <2>15, <2>16,
       <2>17, <2>18, <2>19, <2>20, <2>21 DEF Steps, NumberStates
<1> QED BY <1>3, <1>4

(* Once in error, the scanner stays there, and nothing can come.           *)
LEMMA ErrorStays ==
  ASSUME NEW s, Base(s), Flags(s), s.step = "stateError", NEW g, Fits(s, g),
         NEW c, NEW h, h = Predict(Read(g, c))
  PROVE  Step(s, c).op = "scanError" /\ Fits(Step(s, c), h) /\ Flags(Step(s, c))
<1> DEFINE r == Stay(s, "scanError")
<1>1. Step(s, c) = r BY DEF Step, HexStates, WordStates
<1>2. /\ r.step = "stateError" /\ r.err = s.err /\ r.parseState = s.parseState
      /\ r.op = "scanError"
  BY DEF Stay, Base, Scanners
<1>3. PICK ends : Chain(s.parseState, ends) /\ g = Ahead(s.step, Follow(s, ends), Behind(s, ends))
  BY DEF Fits
<1>4. g = {} BY <1>3 DEF Ahead
<1>5. Read(g, c) = {} BY <1>4 DEF Read
<1>6. h = {} BY <1>5, PredictNone
<1> HIDE DEF r
<1>7. h = Ahead(r.step, Follow(r, ends), Behind(r, ends)) BY <1>2, <1>6 DEF Ahead
<1>8. Fits(r, h) BY <1>2, <1>3, <1>7 DEF Fits
<1>9. Flags(r) BY <1>2 DEF Flags
<1> QED BY <1>1, <1>2, <1>8, <1>9

(* A scanner that is not in error waits for something.                     *)
LEMMA AheadSome ==
  ASSUME NEW step \in Steps, step # "stateError", NEW y \in Full, NEW r
  PROVE  Ahead(step, y, r) # {}
<1> DEFINE v == Before("ws", y)
           q == Quoted(v)
           e == Before("exp", v)
           f == Before("frac", e)
<1>1. v \in Full BY Symbols, FullBefore
<1>2. q \in Full /\ e \in Full
  <2>1. Before("\"", v) \in Full BY <1>1, Symbols, FullBefore
  <2> QED BY <1>1, <2>1, Symbols, FullBefore DEF Quoted
<1>3. f \in Full BY <1>2, Symbols, FullBefore
<1> HIDE DEF f, e, q, v
<1>4. y # {} BY DEF Full
<1>5. Ends(y) # {} BY <1>4 DEF Ends
<1>6. Exps(y) # {} BY <1>5 DEF Exps
<1>7. Fracs(y) # {} BY <1>6 DEF Fracs
<1>8. ASSUME NEW x \in Symbol, NEW w \in Full PROVE Before(x, w) # {} BY FullBefore DEF Full
<1>9. ASSUME NEW w \in Full PROVE Digits(w) # {}
  <2>1. Before("digits", w) \in Full BY Symbols, FullBefore
  <2> QED BY <1>8, <2>1, Symbols DEF Digits
<1>10. Powers(v) # {} BY <1>1, <1>9 DEF Powers
<1>11. Strings(v) # {} BY <1>1, <1>8, Symbols DEF Strings
<1>12. Escapes(q) # {} BY <1>2, <1>8, Symbols DEF Escapes
<1>13. Ints(f) # {} BY <1>3, <1>8, Symbols DEF Ints
<1>14. Values(v) # {}
  <2>1. Before("\"", Quoted(v)) # {} BY <1>2, <1>8, Symbols DEF q
  <2> QED BY <2>1 DEF Values
<1>15. ValueAhead(v) # {} BY <1>14 DEF ValueAhead
<1>16. KeyAhead(v) # {}
  <2>1. Before("\"", Quoted(v)) # {} BY <1>2, <1>8, Symbols DEF q
  <2> QED BY <2>1 DEF KeyAhead
<1>17. ASSUME NEW w \in Full
       PROVE  /\ Before("hex", w) \in Full /\ Before("e", w) \in Full /\ Before("u", w) \in Full
              /\ Before("r", w) \in Full /\ Before("s", w) \in Full /\ Before("l", w) \in Full
              /\ Before("a", w) \in Full
  BY Symbols, FullBefore
<1>18. CASE step \in {"stateBeginValue", "stateBeginValueOrEmpty", "stateBeginString",
                      "stateBeginStringOrEmpty"}
  <2>1. Ahead(step, y, r) \in {ValueAhead(v), ValueAhead(v) \cup Ends(Before("]", r)), KeyAhead(v),
                               KeyAhead(v) \cup Ends(Before(Close, r))}
    BY <1>18 DEF Ahead, v
  <2> QED BY <1>15, <1>16, <2>1
<1>19. CASE step \in {"stateEndValue", "stateEndTop"} BY <1>5, <1>19 DEF Ahead
<1>20. CASE step = "stateInString" BY <1>11, <1>20 DEF Ahead, v
<1>21. CASE step = "stateInStringEsc" BY <1>12, <1>21 DEF Ahead, v, q
<1>22. CASE step \in HexStates
  <2>1. Ahead(step, y, r) \in {Before("hex", Before("hex", Before("hex", Before("hex", q)))),
                               Before("hex", Before("hex", Before("hex", q))),
                               Before("hex", Before("hex", q)), Before("hex", q)}
    BY <1>22 DEF Ahead, HexStates, v, q
  <2>2. Before("hex", q) \in Full BY <1>2, <1>17
  <2>3. Before("hex", Before("hex", q)) \in Full BY <1>17, <2>2
  <2>4. Before("hex", Before("hex", Before("hex", q))) \in Full BY <1>17, <2>3
  <2>5. Before("hex", Before("hex", Before("hex", Before("hex", q)))) \in Full BY <1>17, <2>4
  <2> QED BY <2>1, <2>2, <2>3, <2>4, <2>5 DEF Full
<1>23. CASE step \in WordStates
  <2> DEFINE e1 == Before("e", v)
             e2 == Before("u", e1)
             e3 == Before("r", e2)
             s2 == Before("s", e1)
             s3 == Before("l", s2)
             s4 == Before("a", s3)
             l1 == Before("l", v)
             l2 == Before("l", l1)
             l3 == Before("u", l2)
  <2>1. Ahead(step, y, r) \in {e1, e2, e3, s2, s3, s4, l1, l2, l3}
    BY <1>23 DEF Ahead, WordStates, v
  <2> HIDE DEF e1, e2, e3, s2, s3, s4, l1, l2, l3
  <2>2. e1 \in Full /\ l1 \in Full BY <1>1, <1>17 DEF e1, l1
  <2>3. e2 \in Full /\ s2 \in Full /\ l2 \in Full BY <1>17, <2>2 DEF e2, s2, l2
  <2>4. e3 \in Full /\ s3 \in Full /\ l3 \in Full BY <1>17, <2>3 DEF e3, s3, l3
  <2>5. s4 \in Full BY <1>17, <2>4 DEF s4
  <2> QED BY <2>1, <2>2, <2>3, <2>4, <2>5 DEF Full
<1>24. CASE step = "stateNeg" BY <1>13, <1>24 DEF Ahead, v, e, f
<1>25. CASE step = "state1" BY <1>7, <1>25 DEF Ahead
<1>26. CASE step = "state0" BY <1>7, <1>26 DEF Ahead
<1>27. CASE step = "stateDot" BY <1>2, <1>9, <1>27 DEF Ahead, v, e
<1>28. CASE step = "stateDot0" BY <1>6, <1>28 DEF Ahead
<1>29. CASE step = "stateE" BY <1>10, <1>29 DEF Ahead, v
<1>30. CASE step = "stateESign" BY <1>1, <1>9, <1>30 DEF Ahead, v
<1>31. CASE step = "stateE0" BY <1>5, <1>31 DEF Ahead
<1> QED
  BY <1>18, <1>19, <1>20, <1>21, <1>22, <1>23, <1>24, <1>25, <1>26,
     <1>27, <1>28, <1>29, <1>30, <1>31 DEF Steps, NumberStates

----------------------------------------------------------------------------
(* The inductive invariant: the scanner is well formed, its flags are in   *)
(* step with its state function, and the goals that are left are those     *)
(* that its state and its stack stand for.                                 *)
Inv == WellFormed(scan) /\ Flags(scan) /\ Fits(scan, goals)

LEMMA InitInv == ASSUME Init PROVE Inv
<1> DEFINE y == {<<>>}
           ends == [k \in Nat |-> y]
<1>1. /\ scan.step = "stateBeginValue" /\ scan.parseState = <<>>
      /\ scan.endTop = FALSE /\ scan.err = FALSE
      /\ scan \in Scanners
  BY EmptySeq DEF Init, NewScanner, Scanners, Steps, Opcodes
<1>2. Len(<<>>) = 0 OBVIOUS
<1>3. ~InKey(scan) BY <1>1 DEF InKey
<1>4. WellFormed(scan) BY <1>1, <1>2, <1>3 DEF WellFormed, Scanners
<1>5. Flags(scan) BY <1>1 DEF Flags
<1>6. y \in Full BY ReadText DEF Full
<1>7. goals = ValueAhead(Before("ws", y)) BY PredictText DEF Init
<1> HIDE DEF y
<1>8. /\ ends \in [Nat -> Full]
      /\ ends[0] = y
  BY <1>6
<1> HIDE DEF ends
<1>9. Chain(scan.parseState, ends) BY <1>1, <1>2, <1>8 DEF Chain, y
<1>10. Follow(scan, ends) = y BY <1>1, <1>2, <1>3, <1>8 DEF Follow
<1>11. goals = Ahead(scan.step, Follow(scan, ends), Behind(scan, ends))
  BY <1>1, <1>7, <1>10 DEF Ahead
<1> QED BY <1>4, <1>5, <1>9, <1>11 DEF Inv, Fits

(* Feeding a byte keeps the invariant, and tells what it should.           *)
LEMMA FeedInv ==
  ASSUME Inv, NEW c \in Char, Feed(c)
  PROVE  /\ Inv'
         /\ scan'.op = "scanEnd" => <<>> \in goals
         /\ scan'.op = "scanError" /\ ~scan.err => <<>> \notin goals
<1> DEFINE r == Step(scan, c)
           h == Predict(Read(goals, c))
<1>1. scan' = r /\ goals' = h BY DEF Feed
<1>2. WellFormed(scan) /\ Flags(scan) /\ Fits(scan, goals) BY DEF Inv
<1>3. WellFormed(r) BY <1>2, StepAnswers DEF Answers
<1>4. CASE scan.step = "stateError"
  <2>1. Base(scan) BY <1>2, WellFormedBase
  <2>2. r.op = "scanError" /\ Fits(r, h) /\ Flags(r) BY <1>2, <1>4, <2>1, ErrorStays
  <2>3. scan.err BY <1>2, <1>4 DEF Flags
  <2> HIDE DEF r, h
  <2> QED BY <1>1, <1>3, <2>2, <2>3 DEF Inv
<1>5. CASE scan.step # "stateError"
  <2>1. Answered(goals, c, r, h) BY <1>2, <1>5, StepAnswered
  <2> HIDE DEF r, h
  <2> QED BY <1>1, <1>3, <2>1 DEF Answered, Inv
<1> QED BY <1>4, <1>5

(* For every input of any length, nested to any depth: the scanner and the *)
(* grammar stand for the same.                                             *)
THEOREM RecogniserInvariant == Spec => []Inv
<1>1. Inv /\ [Next]_vars => Inv'
  <2> SUFFICES ASSUME Inv, [Next]_vars PROVE Inv' OBVIOUS
  <2>1. CASE Next BY <2>1, FeedInv DEF Next
  <2>2. CASE UNCHANGED vars BY <2>2 DEF vars, Inv
  <2> QED BY <2>1, <2>2
<1> QED BY <1>1, InitInv, PTL DEF Spec

LEMMA InvRejects == ASSUME Inv PROVE RejectsAtOnce
<1>1. WellFormed(scan) /\ Flags(scan) BY DEF Inv
<1>2. Base(scan) BY <1>1, WellFormedBase
<1>3. PICK ends : /\ Chain(scan.parseState, ends)
                  /\ goals = Ahead(scan.step, Follow(scan, ends), Behind(scan, ends))
  BY DEF Inv, Fits
<1>4. CASE scan.step = "stateError"
  <2>1. scan.err BY <1>1, <1>4 DEF Flags
  <2>2. goals = {} BY <1>3, <1>4 DEF Ahead
  <2> QED BY <2>1, <2>2 DEF RejectsAtOnce
<1>5. CASE scan.step # "stateError"
  <2>1. ~scan.err BY <1>1, <1>5 DEF Flags
  <2>2. scan.step \in Steps BY <1>2 DEF Base, Scanners
  <2>3. Follow(scan, ends) \in Full BY <1>2, <1>3, FollowCloses
  <2>4. goals # {} BY <1>3, <1>5, <2>2, <2>3, AheadSome
  <2> QED BY <2>1, <2>4 DEF RejectsAtOnce
<1> QED BY <1>4, <1>5

(* The scanner records an error with the very byte that no JSON text can   *)
(* continue with, no sooner and no later.                                  *)
THEOREM RecogniserRejectsAtOnce == Spec => []RejectsAtOnce
<1>1. Inv => RejectsAtOnce BY InvRejects
<1> QED BY <1>1, RecogniserInvariant, PTL

LEMMA InvAccepts == ASSUME Inv PROVE AcceptsJson
<1>1. WellFormed(scan) /\ Flags(scan) /\ Fits(scan, goals) BY DEF Inv
<1>2. Base(scan) BY <1>1, WellFormedBase
<1>3. PICK ends : /\ Chain(scan.parseState, ends)
                  /\ goals = Ahead(scan.step, Follow(scan, ends), Behind(scan, ends))
  BY DEF Inv, Fits
<1>4. CASE scan.step = "stateError"
  <2>1. scan.err BY <1>1, <1>4 DEF Flags
  <2>2. goals = {} BY <1>3, <1>4 DEF Ahead
  <2> QED BY <2>1, <2>2 DEF AcceptsJson, Eof, IsText
<1>5. CASE scan.step = "stateEndTop"
  <2>1. ~scan.err /\ scan.endTop /\ scan.parseState = <<>> BY <1>1, <1>5 DEF Flags
  <2>2. <<>> \in Follow(scan, ends) BY <1>2, <1>3, <2>1, FollowCloses
  <2>3. goals = Ends(Follow(scan, ends)) BY <1>3, <1>5 DEF Ahead
  <2>4. <<>> \in goals BY <2>2, <2>3, OpensSoon
  <2> QED BY <2>1, <2>4 DEF AcceptsJson, Eof, IsText
<1>6. CASE scan.step \notin {"stateError", "stateEndTop"}
  <2>1. ~scan.err /\ ~scan.endTop BY <1>1, <1>6 DEF Flags
  <2>2. " " \in Char /\ " " \in Space BY DEF Char, Space
  <2> DEFINE r == Step(scan, " ")
             h == Predict(Read(goals, " "))
  <2>3. Answered(goals, " ", r, h) BY <1>1, <1>6, <2>2, StepAnswered
  <2> HIDE DEF h, r
  <2>4. r.endTop <=> <<>> \in goals BY <2>2, <2>3 DEF Answered
  <2> QED BY <2>1, <2>4 DEF AcceptsJson, Eof, IsText, r
<1> QED BY <1>4, <1>5, <1>6

(* eof accepts what was read exactly if it is a JSON text.                 *)
THEOREM RecogniserAcceptsJson == Spec => []AcceptsJson
<1>1. Inv => AcceptsJson BY InvAccepts
<1> QED BY <1>1, RecogniserInvariant, PTL

(* scanEnd is answered only behind a JSON text, and the first stop after   *)
(* the end of the value is always scanEnd.                                 *)
THEOREM RecogniserEnds == Spec => EndComesAfterTheValue
<1>1. Inv /\ [Next]_vars
        => [/\ scan'.op = "scanEnd" => IsText
            /\ scan'.op = "scanError" /\ ~scan.err => ~IsText]_vars
  BY FeedInv DEF Next, IsText
<1> QED BY <1>1, RecogniserInvariant, PTL DEF Spec, EndComesAfterTheValue

----------------------------------------------------------------------------
(* Six expansions suffice: no goal ever begins with a symbol of a rule.    *)
LEMMA PredictedBefore ==
  ASSUME NEW x \in Symbol, x \notin DOMAIN Rule, NEW rest
  PROVE  Predicted(Before(x, rest))
<1>1. ASSUME NEW goal \in rest \cap Seq(Symbol)
      PROVE  <<x>> \o goal # <<>> => Head(<<x>> \o goal) \notin DOMAIN Rule
  BY Prefixed
<1> QED BY <1>1 DEF Before, Predicted

LEMMA PredictedUnion ==
  ASSUME NEW g, Predicted(g), NEW h, Predicted(h)
  PROVE  Predicted(g \cup h)
  BY DEF Predicted

LEMMA PredictedTerminals ==
  ASSUME NEW rest
  PROVE  /\ Predicted(Before("t", rest)) /\ Predicted(Before("r", rest))
         /\ Predicted(Before("u", rest)) /\ Predicted(Before("e", rest))
         /\ Predicted(Before("f", rest)) /\ Predicted(Before("a", rest))
         /\ Predicted(Before("l", rest)) /\ Predicted(Before("s", rest))
         /\ Predicted(Before("n", rest)) /\ Predicted(Before(Open, rest))
         /\ Predicted(Before(Close, rest)) /\ Predicted(Before(",", rest))
         /\ Predicted(Before(":", rest)) /\ Predicted(Before("[", rest))
         /\ Predicted(Before("]", rest)) /\ Predicted(Before("\"", rest))
         /\ Predicted(Before("plain", rest)) /\ Predicted(Before("\\", rest))
         /\ Predicted(Before("short", rest)) /\ Predicted(Before("hex", rest))
         /\ Predicted(Before("-", rest)) /\ Predicted(Before("0", rest))
         /\ Predicted(Before("1", rest)) /\ Predicted(Before("digit", rest))
         /\ Predicted(Before(".", rest)) /\ Predicted(Before("exponent", rest))
         /\ Predicted(Before("sign", rest)) /\ Predicted(Before("space", rest))
<1>1. /\ "t" \notin DOMAIN Rule /\ "r" \notin DOMAIN Rule /\ "u" \notin DOMAIN Rule
      /\ "e" \notin DOMAIN Rule /\ "f" \notin DOMAIN Rule /\ "a" \notin DOMAIN Rule
      /\ "l" \notin DOMAIN Rule /\ "s" \notin DOMAIN Rule /\ "n" \notin DOMAIN Rule
      /\ Open \notin DOMAIN Rule /\ Close \notin DOMAIN Rule /\ "," \notin DOMAIN Rule
      /\ ":" \notin DOMAIN Rule /\ "[" \notin DOMAIN Rule /\ "]" \notin DOMAIN Rule
      /\ "\"" \notin DOMAIN Rule /\ "plain" \notin DOMAIN Rule /\ "\\" \notin DOMAIN Rule
      /\ "short" \notin DOMAIN Rule /\ "hex" \notin DOMAIN Rule /\ "-" \notin DOMAIN Rule
      /\ "0" \notin DOMAIN Rule /\ "1" \notin DOMAIN Rule /\ "digit" \notin DOMAIN Rule
      /\ "." \notin DOMAIN Rule /\ "exponent" \notin DOMAIN Rule /\ "sign" \notin DOMAIN Rule
      /\ "space" \notin DOMAIN Rule
  BY Nonterminals DEF Open, Close
<1> QED BY <1>1, Symbols, PredictedBefore

LEMMA PredictedEnds ==
  ASSUME NEW y, Predicted(y)
  PROVE  Predicted(Ends(y)) /\ Predicted(Exps(y)) /\ Predicted(Fracs(y))
<1> DEFINE v == Before("ws", y)
<1>1. Predicted(Ends(y)) BY PredictedTerminals, PredictedUnion DEF Ends
<1>2. Predicted(Exponents(v)) BY PredictedTerminals, PredictedUnion DEF Exponents
<1>3. Predicted(Exps(y)) BY <1>1, <1>2, PredictedUnion DEF Exps
<1>4. Predicted(Fracs(y)) BY <1>3, PredictedTerminals, PredictedUnion DEF Fracs
<1> QED BY <1>1, <1>3, <1>4

LEMMA PredictedParts ==
  ASSUME NEW v
  PROVE  /\ Predicted(Strings(v)) /\ Predicted(Escapes(v)) /\ Predicted(Ints(v))
         /\ Predicted(Digits(v)) /\ Predicted(Powers(v)) /\ Predicted(Values(v))
         /\ Predicted(ValueAhead(v)) /\ Predicted(KeyAhead(v)) /\ Predicted(Colon(v))
<1>1. Predicted(Strings(v)) BY PredictedTerminals, PredictedUnion DEF Strings
<1>2. Predicted(Escapes(v)) BY PredictedTerminals, PredictedUnion DEF Escapes
<1>3. ASSUME NEW n PROVE Predicted(Ints(n)) BY PredictedTerminals, PredictedUnion DEF Ints
<1>4. Predicted(Digits(v)) BY PredictedTerminals DEF Digits
<1>5. Predicted(Powers(v)) BY <1>4, PredictedTerminals, PredictedUnion DEF Powers
<1>6. Predicted(Objects(v)) BY PredictedTerminals, PredictedUnion DEF Objects
<1>7. Predicted(Arrays(v)) BY PredictedTerminals, PredictedUnion DEF Arrays
<1>8. Predicted(Words(v)) BY PredictedTerminals, PredictedUnion DEF Words
<1>9. ASSUME NEW n PROVE Predicted(Numbers(n))
  BY <1>3, PredictedTerminals, PredictedUnion DEF Numbers
<1>10. Predicted(Before("\"", Quoted(v))) BY PredictedTerminals
<1>11. Predicted(Values(v))
  <2> DEFINE n == Numbers(Before("frac", Before("exp", v)))
             b == Before("\"", Quoted(v))
  <2>1. Predicted(n) BY <1>9
  <2> HIDE DEF n, b
  <2>2. Predicted(Objects(v) \cup Arrays(v)) BY <1>6, <1>7, PredictedUnion
  <2>3. Predicted((Objects(v) \cup Arrays(v)) \cup b) BY <1>10, <2>2, PredictedUnion DEF b
  <2>4. Predicted(((Objects(v) \cup Arrays(v)) \cup b) \cup n) BY <2>1, <2>3, PredictedUnion
  <2>5. Predicted((((Objects(v) \cup Arrays(v)) \cup b) \cup n) \cup Words(v))
    BY <1>8, <2>4, PredictedUnion
  <2> QED BY <2>5 DEF Values, b, n
<1>12. Predicted(ValueAhead(v)) BY <1>11, PredictedTerminals, PredictedUnion DEF ValueAhead
<1>13. Predicted(KeyAhead(v)) BY PredictedTerminals, PredictedUnion DEF KeyAhead
<1>14. Predicted(Colon(v)) BY PredictedTerminals DEF Colon
<1> QED BY <1>1, <1>2, <1>3, <1>4, <1>5, <1>11, <1>12, <1>13, <1>14

LEMMA FollowPredicted ==
  ASSUME NEW s, Base(s), NEW ends, Chain(s.parseState, ends)
  PROVE  Predicted(Follow(s, ends))
<1> DEFINE y == ends[Len(s.parseState)]
<1>1. s.parseState \in Seq(Contexts) BY DEF Base, Scanners
<1>2. CASE InKey(s) BY <1>2, PredictedParts DEF Follow
<1>3. CASE ~InKey(s) /\ s.parseState = <<>>
  <2>1. Len(<<>>) = 0 OBVIOUS
  <2>2. Follow(s, ends) = {<<>>} BY <1>3, <2>1 DEF Follow, Chain
  <2> QED BY <2>2 DEF Predicted
<1>4. CASE ~InKey(s) /\ s.parseState # <<>>
  <2> DEFINE r == Before("ws", ends[Len(s.parseState) - 1])
             context == s.parseState[Len(s.parseState)]
  <2>1. Follow(s, ends) = Closers(context, r) BY <1>1, <1>4, ChainEnds DEF Follow
  <2> HIDE DEF r, context
  <2>2. Predicted(Closers(context, r)) BY PredictedTerminals, PredictedUnion DEF Closers
  <2> QED BY <2>1, <2>2
<1> QED BY <1>2, <1>3, <1>4

LEMMA AheadPredicted ==
  ASSUME NEW step \in Steps, NEW y, Predicted(y), NEW r
  PROVE  Predicted(Ahead(step, y, r))
<1> DEFINE v == Before("ws", y)
           q == Quoted(v)
           e == Before("exp", v)
           f == Before("frac", e)
<1> HIDE DEF v, q, e, f
<1>1. CASE step \in {"stateBeginValue", "stateBeginValueOrEmpty"}
  <2> DEFINE b == Before("]", r)
  <2>1. Predicted(Ends(b)) BY PredictedTerminals, PredictedEnds
  <2>2. Ahead(step, y, r) \in {ValueAhead(v), ValueAhead(v) \cup Ends(b)} BY <1>1 DEF Ahead, v
  <2> HIDE DEF b
  <2> QED BY <2>1, <2>2, PredictedParts, PredictedUnion
<1>2. CASE step \in {"stateBeginString", "stateBeginStringOrEmpty"}
  <2> DEFINE b == Before(Close, r)
  <2>1. Predicted(Ends(b)) BY PredictedTerminals, PredictedEnds
  <2>2. Ahead(step, y, r) \in {KeyAhead(v), KeyAhead(v) \cup Ends(b)} BY <1>2 DEF Ahead, v
  <2> HIDE DEF b
  <2> QED BY <2>1, <2>2, PredictedParts, PredictedUnion
<1>3. CASE step \in {"stateEndValue", "stateEndTop", "state0"}
  <2>1. Ahead(step, y, r) \in {Ends(y), Fracs(y)} BY <1>3 DEF Ahead
  <2> QED BY <2>1, PredictedEnds
<1>4. CASE step \in {"stateInString", "stateInStringEsc", "stateNeg", "stateDot", "stateE", "stateESign"}
  <2>1. Ahead(step, y, r) \in {Strings(v), Escapes(q), Ints(f), Digits(e), Powers(v), Digits(v)}
    BY <1>4 DEF Ahead, v, q, e, f
  <2> QED BY <2>1, PredictedParts
<1>5. CASE step \in {"state1", "stateDot0", "stateE0"}
  <2>1. Ahead(step, y, r) \in {Fracs(y) \cup Digits(f), Exps(y) \cup Digits(e), Ends(y) \cup Digits(v)}
    BY <1>5 DEF Ahead, v, e, f
  <2>2. Predicted(Fracs(y) \cup Digits(f)) BY PredictedEnds, PredictedParts, PredictedUnion
  <2>3. Predicted(Exps(y) \cup Digits(e)) BY PredictedEnds, PredictedParts, PredictedUnion
  <2>4. Predicted(Ends(y) \cup Digits(v)) BY PredictedEnds, PredictedParts, PredictedUnion
  <2> QED BY <2>1, <2>2, <2>3, <2>4
<1>6. CASE step \in HexStates
  <2>1. \E w : Ahead(step, y, r) = Before("hex", w) BY <1>6 DEF Ahead, HexStates
  <2> QED BY <2>1, PredictedTerminals
<1>7. CASE step \in WordStates
  <2>1. \E w : Ahead(step, y, r) \in {Before("r", w), Before("u", w), Before("e", w), Before("a", w),
                                     Before("l", w), Before("s", w)}
    BY <1>7 DEF Ahead, WordStates
  <2> QED BY <2>1, PredictedTerminals
<1>8. CASE step = "stateError" BY <1>8 DEF Ahead, Predicted
<1> QED BY <1>1, <1>2, <1>3, <1>4, <1>5, <1>6, <1>7, <1>8 DEF Steps, NumberStates

LEMMA InvPredicted == ASSUME Inv PROVE Predicted(goals)
<1>1. WellFormed(scan) BY DEF Inv
<1>2. Base(scan) BY <1>1, WellFormedBase
<1>3. scan.step \in Steps BY <1>2 DEF Base, Scanners
<1>4. PICK ends : /\ Chain(scan.parseState, ends)
                  /\ goals = Ahead(scan.step, Follow(scan, ends), Behind(scan, ends))
  BY DEF Inv, Fits
<1>5. Predicted(Follow(scan, ends)) BY <1>2, <1>4, FollowPredicted
<1> QED BY <1>3, <1>4, <1>5, AheadPredicted

(* Every goal that is left begins with a byte or a class of bytes, or is   *)
(* empty: the six expansions of Predict leave no rule to be applied, so    *)
(* the goals are those of the grammar.                                     *)
THEOREM RecogniserPredicts == Spec => []Predicted(goals)
<1>1. Inv => Predicted(goals) BY InvPredicted
<1> QED BY <1>1, RecogniserInvariant, PTL
=============================================================================
