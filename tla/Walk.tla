-------------------------------- MODULE Walk --------------------------------
(***************************************************************************)
(* WalkAndNotify (proxy/gamestate/scanner.go): one pass of the scanner     *)
(* over the bytes of a delta, which derives the path of every object key   *)
(* from a slice of maxPathDepth keys.  The slice comes from a pool and     *)
(* still holds the keys of an earlier walk.  What a path is used for, the  *)
(* hooks it notifies, is in module GameState, whose Walk[p] is what events *)
(* is here.  A path is the sequence of its keys; the code joins them with  *)
(* dots.                                                                   *)
(***************************************************************************)
EXTENDS Scanner

CONSTANT MaxPathDepth   \* maxPathDepth = 64

ASSUME WalkAssumption == MaxPathDepth \in Nat \ {0}

VARIABLES
  data,            \* the bytes, counted from 1
  i,               \* the next byte
  scan,            \* the scanner
  lastLiteralPos,  \* where the last literal began
  path,            \* the slice of keys
  events,          \* the paths notified so far
  result           \* "walking", or what WalkAndNotify returned

vars == <<data, i, scan, lastLiteralPos, path, events, result>>

Init ==
  /\ data \in Seq(Char)
  /\ i = 1
  /\ scan = NewScanner
  /\ lastLiteralPos = 1
  /\ path \in [1..MaxPathDepth -> Seq(Char)]
  /\ events = <<>>
  /\ result = "walking"

Reading == result = "walking" /\ i <= Len(data)

(* scan.step(scan, c), for the next byte                                   *)
Stepped == Step(scan, data[i])
Depth == Len(Stepped.parseState)

(* Slip: the bytes inside a literal count as its beginning, too.           *)
Skip_Continue ==
  /\ Reading
  /\ Stepped.op \notin {"scanError", "scanObjectKey"}
  /\ i' = i + 1
  /\ scan' = Stepped
  /\ lastLiteralPos' = IF Stepped.op \in {"scanBeginLiteral", "scanContinue"} THEN i
                       ELSE lastLiteralPos
  /\ UNCHANGED <<data, path, events, result>>

(* Any byte but the one behind a key, or an erroneous one.                 *)
Skip ==
  /\ Reading
  /\ Stepped.op \notin {"scanError", "scanObjectKey"}
  /\ i' = i + 1
  /\ scan' = Stepped
  /\ lastLiteralPos' = IF Stepped.op = "scanBeginLiteral" THEN i ELSE lastLiteralPos
  /\ UNCHANGED <<data, path, events, result>>

SyntaxError ==
  /\ Reading
  /\ Stepped.op = "scanError"
  /\ scan' = Stepped
  /\ result' = "syntax error"
  /\ UNCHANGED <<data, i, lastLiteralPos, path, events>>

MaxPathError ==
  /\ Reading
  /\ Stepped.op = "scanObjectKey"
  /\ Depth > MaxPathDepth
  /\ scan' = Stepped
  /\ result' = "maximum path depth"
  /\ UNCHANGED <<data, i, lastLiteralPos, path, events>>

(* Slip: the whole slice is joined, not its first depth keys.              *)
ObjectKey_WholeSlice ==
  /\ Reading
  /\ Stepped.op = "scanObjectKey"
  /\ Depth <= MaxPathDepth
  /\ i' = i + 1
  /\ scan' = Stepped
  /\ path' = [path EXCEPT ![Depth] = SubSeq(data, lastLiteralPos + 1, i - 2)]
  /\ events' = Append(events, path')
  /\ UNCHANGED <<data, lastLiteralPos, result>>

(* The colon behind a key: data[lastLiteralPos+1 : i-1], which is what is  *)
(* between the quotes if the colon follows at once.                        *)
ObjectKey ==
  /\ Reading
  /\ Stepped.op = "scanObjectKey"
  /\ Depth <= MaxPathDepth
  /\ i' = i + 1
  /\ scan' = Stepped
  /\ path' = [path EXCEPT ![Depth] = SubSeq(data, lastLiteralPos + 1, i - 2)]
  /\ events' = Append(events, SubSeq(path', 1, Depth))
  /\ UNCHANGED <<data, lastLiteralPos, result>>

Finish ==
  /\ result = "walking"
  /\ i > Len(data)
  /\ result' = IF Eof(scan) = "scanError" THEN "syntax error" ELSE "nil"
  /\ UNCHANGED <<data, i, scan, lastLiteralPos, path, events>>

Next == Skip \/ SyntaxError \/ MaxPathError \/ ObjectKey \/ Finish

Spec == Init /\ [][Next]_vars

----------------------------------------------------------------------------
TypeOK ==
  /\ data \in Seq(Char)
  /\ i \in Nat \ {0}
  /\ WellFormed(scan)
  /\ lastLiteralPos \in 1..i
  /\ path \in [1..MaxPathDepth -> Seq(Char)]
  /\ events \in Seq(Seq(Seq(Char)))
  /\ result \in {"walking", "nil", "syntax error", "maximum path depth"}

(* None of the index expressions is ever out of range, whatever the bytes: *)
(* parseState[n-1], path[depth-1] and data[lastLiteralPos+1 : i-1].        *)
NeverPanics ==
  Reading =>
    /\ scan.step = "stateBeginStringOrEmpty" => scan.parseState # <<>>
    /\ Stepped.op = "scanObjectKey" /\ Depth <= MaxPathDepth
         => Depth >= 1 /\ lastLiteralPos + 1 <= i - 1
=============================================================================
