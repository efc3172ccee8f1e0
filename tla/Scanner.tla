------------------------------ MODULE Scanner ------------------------------
(***************************************************************************)
(* The JSON scanner of the gamestate package (proxy/gamestate/scanner.go): *)
(* a state machine that is fed one byte at a time and answers each with an *)
(* opcode.  A scanner is a record: the state function that takes the next  *)
(* byte (step), the stack of the contexts it is in (parseState), whether   *)
(* the top-level value is complete (endTop), whether an error was recorded *)
(* (err), and the opcode it answered last (op).                            *)
(*                                                                         *)
(* Bytes that no state function tells apart are one member of Char: "1" is *)
(* a digit other than 0, "c" a letter that is only a hex digit, "/" only   *)
(* an escape, "tab" a space below 0x20, "control" another byte below 0x20, *)
(* "x" any byte that occurs in strings only.                               *)
(***************************************************************************)
EXTENDS Naturals, Sequences

Space == {" ", "tab"}
Digit == {"0", "1"}
Hex == Digit \cup {"a", "b", "c", "e", "E", "f"}
Escape == {"b", "f", "n", "r", "t", "u", "\\", "/", "\""}
Exponent == {"e", "E"}
Char == Space \cup Hex \cup Escape
          \cup {"{", "}", "[", "]", ":", ",", "-", "+", ".", "l", "s", "x", "control"}

Contexts == {"parseObjectKey", "parseObjectValue", "parseArrayValue"}

(* What the states inside of a literal word wait for, and go to.           *)
WordStates == {"stateT", "stateTr", "stateTru", "stateF", "stateFa", "stateFal",
               "stateFals", "stateN", "stateNu", "stateNul"}

Letter == [stateT |-> "r", stateTr |-> "u", stateTru |-> "e",
           stateF |-> "a", stateFa |-> "l", stateFal |-> "s", stateFals |-> "e",
           stateN |-> "u", stateNu |-> "l", stateNul |-> "l"]

AfterLetter ==
  [stateT |-> "stateTr", stateTr |-> "stateTru", stateTru |-> "stateEndValue",
   stateF |-> "stateFa", stateFa |-> "stateFal", stateFal |-> "stateFals",
   stateFals |-> "stateEndValue",
   stateN |-> "stateNu", stateNu |-> "stateNul", stateNul |-> "stateEndValue"]

(* The states that count the four hex digits of an escape.                 *)
HexStates == {"stateInStringEscU", "stateInStringEscU1", "stateInStringEscU12",
              "stateInStringEscU123"}

AfterHex == [stateInStringEscU    |-> "stateInStringEscU1",
             stateInStringEscU1   |-> "stateInStringEscU12",
             stateInStringEscU12  |-> "stateInStringEscU123",
             stateInStringEscU123 |-> "stateInString"]

NumberStates == {"stateNeg", "state1", "state0", "stateDot", "stateDot0", "stateE",
                 "stateESign", "stateE0"}

Steps == {"stateBeginValue", "stateBeginValueOrEmpty", "stateBeginString",
          "stateBeginStringOrEmpty", "stateEndValue", "stateEndTop", "stateInString",
          "stateInStringEsc", "stateError"}
           \cup HexStates \cup NumberStates \cup WordStates

Opcodes == {"scanContinue", "scanBeginLiteral", "scanBeginObject", "scanObjectKey",
            "scanObjectValue", "scanEndObject", "scanBeginArray", "scanArrayValue",
            "scanEndArray", "scanSkipSpace", "scanEnd", "scanError"}

----------------------------------------------------------------------------
(* newScanner and reset, whatever scan the pooled scanner was left in.     *)
NewScanner == [step |-> "stateBeginValue", parseState |-> <<>>, endTop |-> FALSE,
               err |-> FALSE, op |-> "scanContinue"]

(* s answers op and takes the next byte in state step.                     *)
To(s, step, op) == [s EXCEPT !.step = step, !.op = op]
Stay(s, op) == [s EXCEPT !.op = op]
Error(s) == [s EXCEPT !.step = "stateError", !.err = TRUE, !.op = "scanError"]

Top(s) == s.parseState[Len(s.parseState)]

(* Slip: the context is not changed.                                       *)
SetTop_Forgotten(s, context) == s

SetTop(s, context) == [s EXCEPT !.parseState[Len(s.parseState)] = context]
Push(s, context) == [s EXCEPT !.parseState = Append(@, context)]

(* Slip: endTop is left unset.                                             *)
Pop_NoEnd(s) ==
  LET rest == SubSeq(s.parseState, 1, Len(s.parseState) - 1) IN
  [s EXCEPT !.parseState = rest,
            !.step = IF rest = <<>> THEN "stateEndTop" ELSE "stateEndValue"]

(* popParseState                                                           *)
Pop(s) ==
  LET rest == SubSeq(s.parseState, 1, Len(s.parseState) - 1) IN
  [s EXCEPT !.parseState = rest,
            !.step = IF rest = <<>> THEN "stateEndTop" ELSE "stateEndValue",
            !.endTop = @ \/ rest = <<>>]

(* The error of a byte behind the value is reported with the next byte.    *)
StateEndTop(s, c) ==
  IF c \in Space THEN Stay(s, "scanEnd") ELSE [Error(s) EXCEPT !.op = "scanEnd"]

StateEndValue(s, c) ==
  CASE s.parseState = <<>> ->
         StateEndTop([s EXCEPT !.step = "stateEndTop", !.endTop = TRUE], c)
    [] s.parseState # <<>> /\ c \in Space -> To(s, "stateEndValue", "scanSkipSpace")
    [] s.parseState # <<>> /\ c = ":" /\ Top(s) = "parseObjectKey" ->
         To(SetTop(s, "parseObjectValue"), "stateBeginValue", "scanObjectKey")
    [] s.parseState # <<>> /\ c = "," /\ Top(s) = "parseObjectValue" ->
         To(SetTop(s, "parseObjectKey"), "stateBeginString", "scanObjectValue")
    [] s.parseState # <<>> /\ c = "," /\ Top(s) = "parseArrayValue" ->
         To(s, "stateBeginValue", "scanArrayValue")
    [] s.parseState # <<>> /\ c = "}" /\ Top(s) = "parseObjectValue" ->
         Stay(Pop(s), "scanEndObject")
    [] s.parseState # <<>> /\ c = "]" /\ Top(s) = "parseArrayValue" ->
         Stay(Pop(s), "scanEndArray")
    [] OTHER -> Error(s)

(* The state that the first byte of a literal leads to.                    *)
Literals == {"\"", "-", "0", "1", "t", "f", "n"}
BeginLiteral(c) ==
  CASE c = "\"" -> "stateInString" [] c = "-" -> "stateNeg" [] c = "0" -> "state0"
    [] c = "1" -> "state1" [] c = "t" -> "stateT" [] c = "f" -> "stateF"
    [] c = "n" -> "stateN"

StateBeginValue(s, c) ==
  CASE c \in Space -> Stay(s, "scanSkipSpace")
    [] c = "{" -> To(Push(s, "parseObjectKey"), "stateBeginStringOrEmpty", "scanBeginObject")
    [] c = "[" -> To(Push(s, "parseArrayValue"), "stateBeginValueOrEmpty", "scanBeginArray")
    [] c \in Literals -> To(s, BeginLiteral(c), "scanBeginLiteral")
    [] OTHER -> Error(s)

StateBeginValueOrEmpty(s, c) ==
  IF c = "]" THEN StateEndValue(s, c) ELSE StateBeginValue(s, c)

StateBeginString(s, c) ==
  CASE c \in Space -> Stay(s, "scanSkipSpace")
    [] c = "\"" -> To(s, "stateInString", "scanBeginLiteral")
    [] OTHER -> Error(s)

StateBeginStringOrEmpty(s, c) ==
  IF c = "}" THEN StateEndValue(SetTop(s, "parseObjectValue"), c) ELSE StateBeginString(s, c)

StateInString(s, c) ==
  CASE c = "\"" -> To(s, "stateEndValue", "scanContinue")
    [] c = "\\" -> To(s, "stateInStringEsc", "scanContinue")
    [] c \in {"tab", "control"} -> Error(s)
    [] OTHER -> Stay(s, "scanContinue")

StateInStringEsc(s, c) ==
  CASE c = "u" -> To(s, "stateInStringEscU", "scanContinue")
    [] c \in Escape \ {"u"} -> To(s, "stateInString", "scanContinue")
    [] OTHER -> Error(s)

StateInStringEscU(s, c) ==
  IF c \in Hex THEN To(s, AfterHex[s.step], "scanContinue") ELSE Error(s)

StateInWord(s, c) ==
  IF c = Letter[s.step] THEN To(s, AfterLetter[s.step], "scanContinue") ELSE Error(s)

(* Slip: an integer may begin with 0.                                      *)
State0_Octal(s, c) ==
  CASE c = "." -> To(s, "stateDot", "scanContinue")
    [] c \in Exponent -> To(s, "stateE", "scanContinue")
    [] c \in Digit -> Stay(s, "scanContinue")
    [] OTHER -> StateEndValue(s, c)

State0(s, c) ==
  CASE c = "." -> To(s, "stateDot", "scanContinue")
    [] c \in Exponent -> To(s, "stateE", "scanContinue")
    [] OTHER -> StateEndValue(s, c)

State1(s, c) == IF c \in Digit THEN Stay(s, "scanContinue") ELSE State0(s, c)

(* Slip: digits need not follow the sign.                                  *)
StateNeg_Alone(s, c) ==
  CASE c = "0" -> To(s, "state0", "scanContinue")
    [] c = "1" -> To(s, "state1", "scanContinue")
    [] OTHER -> StateEndValue(s, c)

StateNeg(s, c) ==
  CASE c = "0" -> To(s, "state0", "scanContinue")
    [] c = "1" -> To(s, "state1", "scanContinue")
    [] OTHER -> Error(s)

StateDot(s, c) == IF c \in Digit THEN To(s, "stateDot0", "scanContinue") ELSE Error(s)

StateDot0(s, c) ==
  CASE c \in Digit -> Stay(s, "scanContinue")
    [] c \in Exponent -> To(s, "stateE", "scanContinue")
    [] OTHER -> StateEndValue(s, c)

StateESign(s, c) == IF c \in Digit THEN To(s, "stateE0", "scanContinue") ELSE Error(s)

StateE(s, c) ==
  IF c \in {"+", "-"} THEN To(s, "stateESign", "scanContinue") ELSE StateESign(s, c)

StateE0(s, c) == IF c \in Digit THEN Stay(s, "scanContinue") ELSE StateEndValue(s, c)

(* scan.step(scan, c)                                                      *)
Step(s, c) ==
  CASE s.step = "stateBeginValue"         -> StateBeginValue(s, c)
    [] s.step = "stateBeginValueOrEmpty"  -> StateBeginValueOrEmpty(s, c)
    [] s.step = "stateBeginString"        -> StateBeginString(s, c)
    [] s.step = "stateBeginStringOrEmpty" -> StateBeginStringOrEmpty(s, c)
    [] s.step = "stateEndValue"           -> StateEndValue(s, c)
    [] s.step = "stateEndTop"             -> StateEndTop(s, c)
    [] s.step = "stateInString"           -> StateInString(s, c)
    [] s.step = "stateInStringEsc"        -> StateInStringEsc(s, c)
    [] s.step \in HexStates               -> StateInStringEscU(s, c)
    [] s.step \in WordStates              -> StateInWord(s, c)
    [] s.step = "stateNeg"                -> StateNeg(s, c)
    [] s.step = "state1"                  -> State1(s, c)
    [] s.step = "state0"                  -> State0(s, c)
    [] s.step = "stateDot"                -> StateDot(s, c)
    [] s.step = "stateDot0"               -> StateDot0(s, c)
    [] s.step = "stateE"                  -> StateE(s, c)
    [] s.step = "stateESign"              -> StateESign(s, c)
    [] s.step = "stateE0"                 -> StateE0(s, c)
    [] s.step = "stateError"              -> Stay(s, "scanError")

(* eof: a number is only complete when a byte follows it.                  *)
Eof(s) ==
  IF ~s.err /\ (s.endTop \/ Step(s, " ").endTop) THEN "scanEnd" ELSE "scanError"

----------------------------------------------------------------------------
(* A scanner is well formed if it never indexes an empty parseState, and   *)
(* only the innermost context can be waiting for a key.                    *)
InKey(s) == s.parseState # <<>> /\ Top(s) = "parseObjectKey"

WellFormed(s) ==
  /\ s \in [step : Steps, parseState : Seq(Contexts), endTop : BOOLEAN, err : BOOLEAN,
            op : Opcodes]
  /\ \A i \in 1..Len(s.parseState) - 1 : s.parseState[i] # "parseObjectKey"
  /\ s.step \in {"stateBeginString", "stateBeginStringOrEmpty"} => InKey(s)
  /\ s.step \in {"stateBeginValue", "stateBeginValueOrEmpty"} \cup NumberStates \cup WordStates
       => ~InKey(s)
============================================================================
