------------------------------ MODULE WalkKeys ------------------------------
(***************************************************************************)
(* A second reader beside the walk, which does without path and without    *)
(* lastLiteralPos: it keeps a key with the object that it was read in, as  *)
(* long as the object is open, and puts a key together byte by byte.       *)
(***************************************************************************)
EXTENDS Walk

VARIABLES
  keys,      \* for each open object or array the key that was read in it
             \* last, a set of one, or none if there is none or a space
             \* came before its colon
  literal,   \* the bytes between the quotes of the last string, so far
  ended,     \* did the last byte end a string?
  reported   \* keys when a key had been read, for each key of data

readerVars == <<keys, literal, ended, reported>>
keysVars == <<vars, readerVars>>

KeysInit ==
  /\ Init
  /\ keys = <<>>
  /\ literal = <<>>
  /\ ended = FALSE
  /\ reported = <<>>

InString(s) == s.step \in {"stateInString", "stateInStringEsc"} \cup HexStates

(* The key that a colon is behind.                                         *)
KeyRead == IF ended THEN {literal} ELSE {}

ReadOn ==
  /\ Skip \/ ObjectKey
  /\ keys' = [d \in 1..Depth |->
                IF Stepped.op = "scanObjectKey" /\ d = Depth THEN KeyRead
                ELSE IF d \in DOMAIN keys THEN keys[d] ELSE {}]
  /\ literal' = IF Stepped.op = "scanBeginLiteral" THEN <<>>
                ELSE IF InString(scan) /\ InString(Stepped) THEN Append(literal, data[i])
                ELSE literal
  /\ ended' = (InString(scan) /\ ~InString(Stepped))
  /\ reported' = IF Stepped.op = "scanObjectKey" THEN Append(reported, keys') ELSE reported

Return ==
  /\ SyntaxError \/ MaxPathError \/ Finish
  /\ UNCHANGED readerVars

KeysNext == ReadOn \/ Return

KeysSpec == KeysInit /\ [][KeysNext]_keysVars

----------------------------------------------------------------------------
(* A path that is notified has one key for each object or array around the *)
(* key, and the one of an object is the key that was read in it last, if   *)
(* its colon followed at once: only what stands at an array, or before a   *)
(* space, is another.                                                      *)
KeysInPlace ==
  /\ Len(events) = Len(reported)
  /\ \A n \in DOMAIN events :
       /\ Len(events[n]) = Len(reported[n])
       /\ \A d \in DOMAIN reported[n] : \A key \in reported[n][d] : events[n][d] = key
=============================================================================
