------------------------------- MODULE MCWalk -------------------------------
(***************************************************************************)
(* Walks of documents.  A document is a tree: an object with members, an   *)
(* array with elements (members without keys), or a string.  Render writes *)
(* it down, Keys lists what a walk should report, in document order.       *)
(***************************************************************************)
EXTENDS WalkKeys, SequencesExt

CONSTANTS
  Spaces,   \* may a space stand between a key and its colon?
  Rubbish   \* what may follow a document

VARIABLES
  doc,      \* the document that data renders
  spaced    \* is it written with spaces before its colons?

mcVars == <<keysVars, doc, spaced>>

Tree(kind, members) == [kind |-> kind, members |-> members]
Member(key, value) == [key |-> key, value |-> value]

Str == Tree("string", <<>>)

(* Objects and arrays with at most two members taken from values.          *)
Objects(values) ==
  {Tree("object", <<>>)}
    \cup {Tree("object", <<Member("a", v)>>) : v \in values}
    \cup {Tree("object", <<Member("a", v), Member("b", w)>>) : v, w \in values}

Arrays(values) == {Tree("array", <<>>)} \cup {Tree("array", <<Member("", v)>>) : v \in values}

Depth0 == {Str}
Depth1 == Depth0 \cup Objects(Depth0) \cup Arrays(Depth0)
Depth2 == Depth0 \cup Objects(Depth1) \cup Arrays(Depth1)
TooDeep == Tree("object", <<Member("a", Tree("object", <<Member("a",
             CHOOSE v \in Objects(Objects({Str})) : Len(v.members) = 1)>>))>>)
Docs == Objects(Depth1) \cup {TooDeep} \cup
  {Tree("object", <<Member("a", p[1]), Member("b", p[2])>>) :
     p \in (Depth1 \X Depth2) \cup (Depth2 \X Depth1)}

Colon(space) == IF space THEN <<" ", ":">> ELSE <<":">>

(* Members are separated by commas.                                        *)
Listed(texts) ==
  FlattenSeq([k \in 1..Len(texts) |-> IF k = 1 THEN texts[k] ELSE <<",">> \o texts[k]])

RECURSIVE Render(_, _)
Render(tree, space) ==
  LET values == [k \in DOMAIN tree.members |-> Render(tree.members[k].value, space)]
      members == [k \in DOMAIN tree.members |->
                    <<"\"", tree.members[k].key, "\"">> \o Colon(space) \o values[k]]
  IN  CASE tree.kind = "object" -> <<"{">> \o Listed(members) \o <<"}">>
        [] tree.kind = "array"  -> <<"[">> \o Listed(values) \o <<"]">>
        [] tree.kind = "string" -> <<"\"", "\\", "\"", "s", "\"">>

(* The keys of tree, which is at path prefix, in an array or not.          *)
RECURSIVE Keys(_, _, _)
Keys(tree, prefix, inArray) ==
  CASE tree.kind = "string" -> <<>>
    [] tree.kind = "array" ->
         FlattenSeq([k \in DOMAIN tree.members |-> Keys(tree.members[k].value, prefix, TRUE)])
    [] tree.kind = "object" ->
         FlattenSeq([k \in DOMAIN tree.members |->
           LET here == Append(prefix, <<tree.members[k].key>>) IN
           <<[path |-> here, inArray |-> inArray]>>
             \o Keys(tree.members[k].value, here, inArray)])

Compact == {FALSE}
Either == {FALSE, TRUE}
Whole == {<<>>}
Broken == {<<>>, <<",">>}

MCInit ==
  /\ doc \in Docs
  /\ spaced \in Spaces
  /\ data \in {Render(doc, spaced) \o r : r \in Rubbish}
  /\ path = [d \in 1..MaxPathDepth |-> <<"c">>]
  /\ KeysInit

MCNext == KeysNext /\ UNCHANGED <<doc, spaced>>
Returned == result # "walking" /\ UNCHANGED mcVars
MCSpec == MCInit /\ [][MCNext \/ Returned]_mcVars

----------------------------------------------------------------------------
Expected == Keys(doc, <<>>, FALSE)

(* Every key that no array encloses and whose colon follows at once is     *)
(* notified by the path of the keys that enclose it, in document order,    *)
(* whatever arrays came before it and whatever the pooled slice held; keys *)
(* in arrays and spaced colons change paths, not their number, and of the  *)
(* paths only what is at an array or is a spaced key.                      *)
PathsExact ==
  /\ KeysInPlace
  /\ \A n \in DOMAIN events :
       n \in DOMAIN Expected
         /\ (~spaced /\ ~Expected[n].inArray => events[n] = Expected[n].path)
  /\ result = "nil" => Len(events) = Len(Expected)

(* The same in arrays: paths are "based on the JSON keys".                 *)
ArrayPathsExact == \A n \in DOMAIN events : events[n] = Expected[n].path

=============================================================================
