---------------------------- MODULE JsonGrammar ----------------------------
(***************************************************************************)
(* The grammar of JSON (RFC 8259), read as a recogniser: the reference     *)
(* that the scanner is compared with.  A goal is a sequence of symbols     *)
(* that what is still to come has to match; the recogniser keeps all goals *)
(* that are left, with the rules of their first symbols applied.           *)
(***************************************************************************)
EXTENDS Scanner

Rule ==
  [text     |-> {<<"ws", "value", "ws">>},
   value    |-> {<<"object">>, <<"array">>, <<"string">>, <<"number">>,
                 <<"t", "r", "u", "e">>, <<"f", "a", "l", "s", "e">>, <<"n", "u", "l", "l">>},
   object   |-> {<<"{", "ws", "}">>, <<"{", "members", "}">>},
   members  |-> {<<"member">>, <<"member", ",", "members">>},
   member   |-> {<<"ws", "string", "ws", ":", "element">>},
   element  |-> {<<"ws", "value", "ws">>},
   array    |-> {<<"[", "ws", "]">>, <<"[", "elements", "]">>},
   elements |-> {<<"element">>, <<"element", ",", "elements">>},
   string   |-> {<<"\"", "chars", "\"">>},
   chars    |-> {<<>>, <<"plain", "chars">>, <<"\\", "escaped", "chars">>},
   escaped  |-> {<<"short">>, <<"u", "hex", "hex", "hex", "hex">>},
   number   |-> {<<"int", "frac", "exp">>, <<"-", "int", "frac", "exp">>},
   int      |-> {<<"0">>, <<"1", "digits">>},
   digits   |-> {<<>>, <<"digit", "digits">>},
   frac     |-> {<<>>, <<".", "digit", "digits">>},
   exp      |-> {<<>>, <<"exponent", "digit", "digits">>,
                 <<"exponent", "sign", "digit", "digits">>},
   ws       |-> {<<>>, <<"space", "ws">>}]

Class ==
  [plain    |-> Char \ {"\"", "\\", "tab", "control"},
   short    |-> Escape \ {"u"},
   hex      |-> Hex,
   digit    |-> Digit,
   exponent |-> {"e", "E"},
   sign     |-> {"+", "-"},
   space    |-> Space]

(* symbol stands for the byte c: a class for its members, a byte for itself. *)
Matches(symbol, c) ==
  IF symbol \in DOMAIN Class THEN c \in Class[symbol] ELSE c = symbol

(* The rules of a goal's first symbol, applied.  A goal that begins with a *)
(* byte or a class, or that is empty, stays as it is.                      *)
Expanded(goal) ==
  IF goal # <<>> /\ Head(goal) \in DOMAIN Rule
  THEN {alternative \o Tail(goal) : alternative \in Rule[Head(goal)]}
  ELSE {goal}

Expand(goals) == UNION {Expanded(goal) : goal \in goals}

(* What goals come down to when the rules of their first symbols have been *)
(* applied: the longest way is from elements to the first digit of an int, *)
(* by element, ws, value, number and int.                                  *)
Predict(goals) == Expand(Expand(Expand(Expand(Expand(Expand(goals))))))

(* Predict has nothing left to do: no goal begins with a symbol of a rule. *)
Predicted(goals) == \A goal \in goals : goal # <<>> => Head(goal) \notin DOMAIN Rule

(* What is left of predicted goals when c has come.                        *)
Read(goals, c) == {Tail(goal) : goal \in {g \in goals : g # <<>> /\ Matches(Head(g), c)}}
============================================================================
