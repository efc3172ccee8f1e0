----------------------------- MODULE Recogniser -----------------------------
(***************************************************************************)
(* The scanner and the grammar are fed the same bytes: any number of them, *)
(* nested to any depth.                                                    *)
(***************************************************************************)
EXTENDS JsonGrammar

VARIABLES
  scan,   \* the scanner
  goals   \* what the grammar may still expect; empty once it has failed
vars == <<scan, goals>>

Init ==
  /\ scan = NewScanner
  /\ goals = Predict({<<"text">>})

Feed(c) ==
  /\ scan' = Step(scan, c)
  /\ goals' = Predict(Read(goals, c))

Next == \E c \in Char : Feed(c)

Spec == Init /\ [][Next]_vars

(* What was read is a JSON text.                                           *)
IsText == <<>> \in goals

(* The scanner records an error with the very byte that no JSON text can   *)
(* continue with, no sooner and no later.                                  *)
RejectsAtOnce == scan.err <=> goals = {}

(* eof accepts what was read exactly if it is a JSON text.                 *)
AcceptsJson == Eof(scan) = "scanEnd" <=> IsText

(* scanEnd tells that the value ended "*before* the byte that just got     *)
(* passed in", which is what makes the end of a number recognisable, and   *)
(* the first stop after the end of the value is always scanEnd.            *)
EndComesAfterTheValue ==
  [][/\ scan'.op = "scanEnd" => IsText
     /\ scan'.op = "scanError" /\ ~scan.err => ~IsText]_vars
============================================================================
