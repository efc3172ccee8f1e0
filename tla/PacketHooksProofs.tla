------------------------- MODULE PacketHooksProofs -------------------------
(***************************************************************************)
(* What holds of the packet hooks whatever the handlers do: no slice ever  *)
(* shows a cell without a hook, however many goroutines are at the map.    *)
(* The argument: an array keeps its length, and a cell in which a hook was *)
(* stored never loses hooks again, for append fills cells, sorting moves   *)
(* hooks among the cells of a slice, and removal closes a gap with hooks.  *)
(***************************************************************************)
EXTENDS PacketHooks, FiniteSetTheorems, SequenceTheorems, TLAPS

Cell == Hooks \cup {NoHook}
Heaps == Seq(Seq(Cell))
SlicesOf(heap) == [array : 1..Len(heap), len : Nat]

(* The slice s shows hooks only in these arrays.                           *)
SolidIn(heap, s) ==
  s.len <= Len(heap[s.array]) /\ \A i \in 1..s.len : heap[s.array][i] \in Hooks

(* What no operation on the arrays undoes.                                 *)
Grows(old, new) ==
  /\ new \in Heaps
  /\ Len(old) <= Len(new)
  /\ \A a \in 1..Len(old) :
       /\ Len(new[a]) = Len(old[a])
       /\ \A i \in 1..Len(old[a]) : old[a][i] \in Hooks => new[a][i] \in Hooks

Calls(heap) ==
  {NoCall} \cup [kind : {"insert", "remove"}, hook : Hooks, slice : SlicesOf(heap)]

HolesInv == TypeOK /\ NoHoles

----------------------------------------------------------------------------
(* Arrays                                                                  *)

LEMMA HeapFacts ==
  ASSUME NEW heap \in Heaps
  PROVE  /\ Len(heap) \in Nat
         /\ \A a \in 1..Len(heap) :
              /\ heap[a] \in Seq(Cell)
              /\ Len(heap[a]) \in Nat
              /\ \A i \in 1..Len(heap[a]) : heap[a][i] \in Cell
<1>1. Len(heap) \in Nat BY LenProperties DEF Heaps
<1>2. \A a \in 1..Len(heap) : heap[a] \in Seq(Cell) BY ElementOfSeq DEF Heaps
<1>3. \A a \in 1..Len(heap) : Len(heap[a]) \in Nat BY <1>2, LenProperties
<1>4. \A a \in 1..Len(heap) : \A i \in 1..Len(heap[a]) : heap[a][i] \in Cell
  BY <1>2, ElementOfSeq
<1> QED BY <1>1, <1>2, <1>3, <1>4

(* A slice that shows hooks only shows hooks only from then on.            *)
LEMMA SolidStays ==
  ASSUME NEW old \in Heaps, NEW new, Grows(old, new),
         NEW s \in SlicesOf(old), SolidIn(old, s)
  PROVE  s \in SlicesOf(new) /\ SolidIn(new, s)
<1>1. Len(old) \in Nat /\ Len(new) \in Nat BY HeapFacts DEF Grows
<1>2. s.array \in 1..Len(old) /\ s.len \in Nat BY DEF SlicesOf
<1>3. Len(old[s.array]) \in Nat BY <1>2, HeapFacts
<1>4. s \in SlicesOf(new) BY <1>1 DEF SlicesOf, Grows
<1>5. SolidIn(new, s)
  <2>1. Len(new[s.array]) = Len(old[s.array]) BY <1>2 DEF Grows
  <2>2. ASSUME NEW i \in 1..s.len PROVE new[s.array][i] \in Hooks
    <3>1. i \in 1..Len(old[s.array]) /\ old[s.array][i] \in Hooks
      BY <1>2, <1>3 DEF SolidIn
    <3> QED BY <3>1, <1>2 DEF Grows
  <2> QED BY <2>1, <2>2 DEF SolidIn
<1> QED BY <1>4, <1>5

LEMMA GrowsTransitive ==
  ASSUME NEW x \in Heaps, NEW y \in Heaps, NEW z, Grows(x, y), Grows(y, z)
  PROVE  Grows(x, z)
<1>1. Len(x) \in Nat /\ Len(y) \in Nat /\ Len(z) \in Nat BY HeapFacts DEF Grows
<1>2. Len(x) <= Len(z) BY <1>1 DEF Grows
<1>3. ASSUME NEW a \in 1..Len(x)
      PROVE  /\ Len(z[a]) = Len(x[a])
             /\ \A i \in 1..Len(x[a]) : x[a][i] \in Hooks => z[a][i] \in Hooks
  <2>1. a \in 1..Len(y) BY <1>1 DEF Grows
  <2>2. Len(y[a]) = Len(x[a]) /\ Len(z[a]) = Len(y[a]) BY <2>1 DEF Grows
  <2>3. \A i \in 1..Len(x[a]) : x[a][i] \in Hooks => y[a][i] \in Hooks BY DEF Grows
  <2>4. \A i \in 1..Len(y[a]) : y[a][i] \in Hooks => z[a][i] \in Hooks BY <2>1 DEF Grows
  <2> QED BY <2>2, <2>3, <2>4
<1> QED BY <1>2, <1>3 DEF Grows

(* One array is replaced by one that keeps its hooks.                      *)
LEMMA ArrayReplaced ==
  ASSUME NEW heap \in Heaps, NEW a \in 1..Len(heap),
         NEW array, array \in Seq(Cell), Len(array) = Len(heap[a]),
         \A i \in 1..Len(heap[a]) : heap[a][i] \in Hooks => array[i] \in Hooks
  PROVE  /\ Grows(heap, [heap EXCEPT ![a] = array])
         /\ [heap EXCEPT ![a] = array][a] = array
         /\ \A b \in 1..Len(heap) : b # a => [heap EXCEPT ![a] = array][b] = heap[b]
         /\ Len([heap EXCEPT ![a] = array]) = Len(heap)
<1> DEFINE new == [heap EXCEPT ![a] = array]
<1>1. Len(heap) \in Nat BY HeapFacts
<1>2. /\ new \in Heaps
      /\ Len(new) = Len(heap)
      /\ \A b \in 1..Len(heap) : new[b] = IF b = a THEN array ELSE heap[b]
  BY ExceptSeq DEF Heaps
<1> HIDE DEF new
<1>3. Grows(heap, new)
  BY <1>1, <1>2 DEF Grows
<1> QED BY <1>2, <1>3 DEF new

----------------------------------------------------------------------------
(* append, sort.Sort and removal                                           *)

(* append(s, h) shows the hooks of s and then h; it writes to the array of *)
(* s, which then has cells, or to a new one.                               *)
AppendedAs(s, h, new, slice) ==
  /\ Grows(arrays, new)
  /\ slice \in SlicesOf(new)
  /\ SolidIn(new, slice)
  /\ slice.len = s.len + 1
  /\ \A i \in 1..s.len : new[slice.array][i] = arrays[s.array][i]
  /\ new[slice.array][s.len + 1] = h
  /\ \A a \in 1..Len(arrays) : a # slice.array => new[a] = arrays[a]
  /\ \/ slice.array = Len(arrays) + 1
     \/ slice.array = s.array /\ Len(arrays[s.array]) > 0

LEMMA AppendInPlace ==
  ASSUME arrays \in Heaps, NEW s \in SlicesOf(arrays), SolidIn(arrays, s), NEW h \in Hooks,
         s.len < Len(arrays[s.array])
  PROVE  AppendedAs(s, h, Appended(s, h).arrays, Appended(s, h).slice)
<1> DEFINE old == arrays[s.array]
           array == [old EXCEPT ![s.len + 1] = h]
           new == [arrays EXCEPT ![s.array] = array]
           slice == [s EXCEPT !.len = @ + 1]
<1>1. Appended(s, h) = [arrays |-> new, slice |-> slice]
  BY DEF Appended
<1>2. s.array \in 1..Len(arrays) /\ s.len \in Nat /\ Len(arrays) \in Nat
  BY HeapFacts DEF SlicesOf
<1>3. old \in Seq(Cell) /\ Len(old) \in Nat BY <1>2, HeapFacts
<1>4. s.len + 1 \in 1..Len(old) BY <1>2, <1>3
<1>5. /\ array \in Seq(Cell)
      /\ Len(array) = Len(old)
      /\ \A i \in 1..Len(old) : array[i] = IF i = s.len + 1 THEN h ELSE old[i]
  BY <1>3, <1>4, ExceptSeq DEF Cell
<1>6. slice \in SlicesOf(arrays) /\ slice.array = s.array /\ slice.len = s.len + 1
  BY <1>2 DEF SlicesOf
<1> HIDE DEF array, slice
<1>7. \A i \in 1..Len(arrays[s.array]) : arrays[s.array][i] \in Hooks => array[i] \in Hooks
  BY <1>5
<1>8. /\ Grows(arrays, new)
      /\ new[s.array] = array
      /\ \A a \in 1..Len(arrays) : a # s.array => new[a] = arrays[a]
      /\ Len(new) = Len(arrays)
  BY <1>2, <1>5, <1>7, ArrayReplaced
<1> HIDE DEF new
<1>9. slice \in SlicesOf(new) BY <1>6, <1>8 DEF SlicesOf
<1>10. \A i \in 1..s.len : array[i] = old[i] /\ old[i] \in Hooks
  BY <1>2, <1>3, <1>4, <1>5 DEF SolidIn
<1>11. array[s.len + 1] = h BY <1>4, <1>5
<1>12. SolidIn(new, slice)
  <2>1. slice.len <= Len(new[slice.array]) BY <1>3, <1>4, <1>5, <1>6, <1>8
  <2>2. ASSUME NEW i \in 1..slice.len PROVE new[slice.array][i] \in Hooks
    <3>1. i \in 1..s.len \/ i = s.len + 1 BY <1>2, <1>6
    <3> QED BY <3>1, <1>6, <1>8, <1>10, <1>11
  <2> QED BY <2>1, <2>2 DEF SolidIn
<1>13. Len(old) > 0 BY <1>2, <1>3
<1> HIDE DEF old
<1> QED BY <1>1, <1>6, <1>8, <1>9, <1>10, <1>11, <1>12, <1>13 DEF AppendedAs, old

LEMMA AppendMoves ==
  ASSUME arrays \in Heaps, NEW s \in SlicesOf(arrays), SolidIn(arrays, s), NEW h \in Hooks,
         ~(s.len < Len(arrays[s.array]))
  PROVE  AppendedAs(s, h, Appended(s, h).arrays, Appended(s, h).slice)
<1> DEFINE old == arrays[s.array]
           array == [i \in 1..Grow(s) |-> IF i <= s.len THEN old[i]
                                          ELSE IF i = s.len + 1 THEN h ELSE NoHook]
           new == Append(arrays, array)
           slice == [array |-> Len(arrays) + 1, len |-> s.len + 1]
<1>1. Appended(s, h) = [arrays |-> new, slice |-> slice]
  BY DEF Appended
<1>2. s.array \in 1..Len(arrays) /\ s.len \in Nat /\ Len(arrays) \in Nat
  BY HeapFacts DEF SlicesOf
<1>3. Grow(s) \in Nat /\ s.len + 1 <= Grow(s) BY <1>2 DEF Grow
<1>4. \A i \in 1..s.len : old[i] \in Hooks BY DEF SolidIn
<1>5. array \in [1..Grow(s) -> Cell]
  <2>1. ASSUME NEW i \in 1..Grow(s)
        PROVE  (IF i <= s.len THEN old[i] ELSE IF i = s.len + 1 THEN h ELSE NoHook) \in Cell
    <3>1. i <= s.len => i \in 1..s.len BY <1>2
    <3> QED BY <3>1, <1>4 DEF Cell
  <2> QED BY <2>1
<1>6. /\ \A i \in 1..s.len : array[i] = old[i]
      /\ array[s.len + 1] = h
  BY <1>2, <1>3
<1> HIDE DEF array
<1>7. array \in Seq(Cell) /\ Len(array) = Grow(s)
  <2>1. array \in Seq(Cell) BY <1>3, <1>5
  <2> QED BY <2>1, <1>3, <1>5, LenProperties
<1>8. /\ new \in Heaps
      /\ Len(new) = Len(arrays) + 1
      /\ \A a \in 1..Len(arrays) : new[a] = arrays[a]
      /\ new[Len(arrays) + 1] = array
  BY <1>7, AppendProperties DEF Heaps
<1> HIDE DEF new
<1>9. Grows(arrays, new) BY <1>2, <1>8 DEF Grows
<1>10. slice \in SlicesOf(new) BY <1>2, <1>8 DEF SlicesOf
<1>11. slice.array = Len(arrays) + 1 /\ slice.len = s.len + 1 OBVIOUS
<1> HIDE DEF slice
<1>12. SolidIn(new, slice)
  <2>1. slice.len <= Len(new[slice.array]) BY <1>3, <1>7, <1>8, <1>11
  <2>2. ASSUME NEW i \in 1..slice.len PROVE new[slice.array][i] \in Hooks
    <3>1. i \in 1..s.len \/ i = s.len + 1 BY <1>2, <1>11
    <3> QED BY <3>1, <1>4, <1>6, <1>8, <1>11
  <2> QED BY <2>1, <2>2 DEF SolidIn
<1> QED BY <1>1, <1>6, <1>8, <1>9, <1>10, <1>11, <1>12 DEF AppendedAs

LEMMA AppendedFacts ==
  ASSUME arrays \in Heaps, NEW s \in SlicesOf(arrays), SolidIn(arrays, s), NEW h \in Hooks
  PROVE  AppendedAs(s, h, Appended(s, h).arrays, Appended(s, h).slice)
  BY AppendInPlace, AppendMoves

(* Sorting moves the hooks of the slice and touches nothing else.          *)
LEMMA ReorderedFacts ==
  ASSUME NEW heap \in Heaps, NEW s \in SlicesOf(heap), SolidIn(heap, s),
         NEW order \in Orders(heap, s)
  PROVE  LET new == Reordered(heap, s, order) IN
         /\ Grows(heap, new)
         /\ Len(new) = Len(heap)
         /\ SolidIn(new, s)
         /\ \A a \in 1..Len(heap) : a # s.array => new[a] = heap[a]
         /\ \A i \in 1..s.len : order[i] \in 1..s.len /\ new[s.array][i] = heap[s.array][order[i]]
<1> DEFINE old == heap[s.array]
           array == [i \in 1..Len(old) |-> IF i <= s.len THEN old[order[i]] ELSE old[i]]
           new == [heap EXCEPT ![s.array] = array]
<1>1. Reordered(heap, s, order) = new BY DEF Reordered
<1>2. s.array \in 1..Len(heap) /\ s.len \in Nat /\ Len(heap) \in Nat
  BY HeapFacts DEF SlicesOf
<1>3. old \in Seq(Cell) /\ Len(old) \in Nat /\ \A i \in 1..Len(old) : old[i] \in Cell
  BY <1>2, HeapFacts
<1>4. s.len <= Len(old) /\ \A i \in 1..s.len : old[i] \in Hooks BY DEF SolidIn
<1>5. \A i \in 1..s.len : order[i] \in 1..s.len BY DEF Orders
<1> HIDE DEF old
<1>6. ASSUME NEW i \in 1..Len(old)
      PROVE  /\ array[i] \in Cell
             /\ i \in 1..s.len => array[i] = old[order[i]] /\ array[i] \in Hooks
             /\ i \notin 1..s.len => array[i] = old[i]
  <2>1. i <= s.len <=> i \in 1..s.len BY <1>2
  <2> QED BY <2>1, <1>3, <1>4, <1>5 DEF Cell
<1>7. array \in [1..Len(old) -> Cell] BY <1>6
<1> HIDE DEF array
<1>8. array \in Seq(Cell) /\ Len(array) = Len(old)
  <2>1. array \in Seq(Cell) BY <1>3, <1>7
  <2> QED BY <2>1, <1>3, <1>7, LenProperties
<1>9. \A i \in 1..Len(old) : old[i] \in Hooks => array[i] \in Hooks BY <1>6
<1>10. /\ Grows(heap, new)
       /\ new[s.array] = array
       /\ \A a \in 1..Len(heap) : a # s.array => new[a] = heap[a]
       /\ Len(new) = Len(heap)
  BY <1>2, <1>8, <1>9, ArrayReplaced DEF old
<1> HIDE DEF new
<1>11. \A i \in 1..s.len : i \in 1..Len(old) BY <1>2, <1>3, <1>4
<1>12. SolidIn(new, s) BY <1>4, <1>6, <1>8, <1>10, <1>11 DEF SolidIn
<1>13. \A i \in 1..s.len : new[s.array][i] = old[order[i]] BY <1>6, <1>10, <1>11
<1> QED BY <1>1, <1>5, <1>10, <1>12, <1>13 DEF old

(* Removal shifts the hooks behind cell i of the slice; the last of them   *)
(* stays in its cell, too.                                                 *)
LEMMA RemovedFacts ==
  ASSUME arrays \in Heaps, NEW s \in SlicesOf(arrays), SolidIn(arrays, s),
         NEW i \in 1..s.len
  PROVE  LET new == Removed(s, i) IN
         /\ Grows(arrays, new)
         /\ Len(new) = Len(arrays)
         /\ \A a \in 1..Len(arrays) : a # s.array => new[a] = arrays[a]
         /\ \A j \in 1..Len(arrays[s.array]) :
              new[s.array][j] = IF j \in i..(s.len - 1) THEN arrays[s.array][j + 1]
                                ELSE arrays[s.array][j]
<1> DEFINE old == arrays[s.array]
           array == [j \in 1..Len(old) |-> IF j \in i..(s.len - 1) THEN old[j + 1] ELSE old[j]]
           new == [arrays EXCEPT ![s.array] = array]
<1>1. Removed(s, i) = new BY DEF Removed
<1>2. s.array \in 1..Len(arrays) /\ s.len \in Nat /\ Len(arrays) \in Nat
  BY HeapFacts DEF SlicesOf
<1>3. old \in Seq(Cell) /\ Len(old) \in Nat /\ \A j \in 1..Len(old) : old[j] \in Cell
  BY <1>2, HeapFacts
<1>4. s.len <= Len(old) /\ \A j \in 1..s.len : old[j] \in Hooks BY DEF SolidIn
<1> HIDE DEF old
<1>5. ASSUME NEW j \in 1..Len(old)
      PROVE  /\ array[j] = IF j \in i..(s.len - 1) THEN old[j + 1] ELSE old[j]
             /\ array[j] \in Cell
             /\ old[j] \in Hooks => array[j] \in Hooks
  <2>1. j \in i..(s.len - 1) => j + 1 \in 1..s.len BY <1>2
  <2> QED BY <2>1, <1>3, <1>4 DEF Cell
<1>6. array \in [1..Len(old) -> Cell] BY <1>5
<1> HIDE DEF array
<1>7. array \in Seq(Cell) /\ Len(array) = Len(old)
  <2>1. array \in Seq(Cell) BY <1>3, <1>6
  <2> QED BY <2>1, <1>3, <1>6, LenProperties
<1>8. \A j \in 1..Len(old) : old[j] \in Hooks => array[j] \in Hooks BY <1>5
<1>9. /\ Grows(arrays, new)
      /\ new[s.array] = array
      /\ \A a \in 1..Len(arrays) : a # s.array => new[a] = arrays[a]
      /\ Len(new) = Len(arrays)
  BY <1>2, <1>7, <1>8, ArrayReplaced DEF old
<1> HIDE DEF new
<1> QED BY <1>1, <1>5, <1>9 DEF old

----------------------------------------------------------------------------
(* The invariant: types, and no slice shows a cell without a hook          *)

HooksSolid(heap, slices) ==
  /\ slices \in [Targets -> SlicesOf(heap)]
  /\ \A t \in Targets : SolidIn(heap, slices[t])

RangeSolid(heap, ranges) ==
  /\ ranges \in [Packets -> SlicesOf(heap)]
  /\ \A p \in Packets : SolidIn(heap, ranges[p])

CallSolid(heap, calls) ==
  /\ calls \in [Packets -> Calls(heap)]
  /\ \A p \in Packets : calls[p] # NoCall => SolidIn(heap, calls[p].slice)

AllSolid(heap, slices, ranges, calls) ==
  /\ heap \in Heaps
  /\ HooksSolid(heap, slices)
  /\ RangeSolid(heap, ranges)
  /\ CallSolid(heap, calls)

(* The conjuncts of TypeOK that have no slices in them.                    *)
MapTypes == initialized \in BOOLEAN /\ crashed \in BOOLEAN
              /\ status \in [Hooks -> {"idle", "hooked", "unhooked"}]
LoopTypes ==
  /\ op \in [Packets -> Ops]
  /\ stage \in [Packets -> {"idle", "wild", "op", "done"}]
  /\ next \in [Packets -> Nat \ {0}]
  /\ busy \in [Packets -> Cell]
  /\ data \in [Packets -> {"body", "nil"}]
  /\ called \in [Packets -> Seq(Cell)]
HistoryTypes ==
  /\ attached \in [Packets -> SUBSET Hooks]
  /\ changes \in [Packets -> SUBSET {"insert", "remove", "none"}]

LEMMA HolesParts ==
  HolesInv <=> AllSolid(arrays, hooks, range, call) /\ MapTypes /\ LoopTypes /\ HistoryTypes
  BY DEF HolesInv, TypeOK, NoHoles, AllSolid, HooksSolid, RangeSolid, CallSolid, MapTypes,
         LoopTypes, HistoryTypes, Heaps, Cell, Slices, SlicesOf, Calls, Solid, SolidIn

LEMMA HolesPartsPrimed ==
  HolesInv' <=> AllSolid(arrays', hooks', range', call') /\ MapTypes' /\ LoopTypes' /\ HistoryTypes'
  BY DEF HolesInv, TypeOK, NoHoles, AllSolid, HooksSolid, RangeSolid, CallSolid, MapTypes,
         LoopTypes, HistoryTypes, Heaps, Cell, Slices, SlicesOf, Calls, Solid, SolidIn

LEMMA SolidAfter ==
  ASSUME NEW old, NEW new, NEW slices, NEW ranges, NEW calls,
         AllSolid(old, slices, ranges, calls), Grows(old, new)
  PROVE  AllSolid(new, slices, ranges, calls)
<1>1. old \in Heaps /\ new \in Heaps BY DEF AllSolid, Grows
<1>2. HooksSolid(new, slices)
  <2>1. \A t \in Targets : slices[t] \in SlicesOf(new) /\ SolidIn(new, slices[t])
    BY <1>1, SolidStays DEF AllSolid, HooksSolid
  <2> QED BY <2>1 DEF AllSolid, HooksSolid
<1>3. RangeSolid(new, ranges)
  <2>1. \A p \in Packets : ranges[p] \in SlicesOf(new) /\ SolidIn(new, ranges[p])
    BY <1>1, SolidStays DEF AllSolid, RangeSolid
  <2> QED BY <2>1 DEF AllSolid, RangeSolid
<1>4. CallSolid(new, calls)
  <2>1. ASSUME NEW p \in Packets
        PROVE  calls[p] \in Calls(new) /\ (calls[p] # NoCall => SolidIn(new, calls[p].slice))
    <3>1. CASE calls[p] = NoCall BY <3>1 DEF Calls
    <3>2. CASE calls[p] # NoCall
      <4>1. /\ calls[p] \in [kind : {"insert", "remove"}, hook : Hooks, slice : SlicesOf(old)]
            /\ SolidIn(old, calls[p].slice)
        BY <3>2 DEF AllSolid, CallSolid, Calls
      <4>2. calls[p].slice \in SlicesOf(new) /\ SolidIn(new, calls[p].slice)
        BY <1>1, <4>1, SolidStays
      <4> QED BY <4>1, <4>2 DEF Calls
    <3> QED BY <3>1, <3>2
  <2> QED BY <2>1 DEF AllSolid, CallSolid
<1> QED BY <1>1, <1>2, <1>3, <1>4 DEF AllSolid

(* A target, a loop or a call gets a slice that shows hooks only.          *)
LEMMA SolidStored ==
  ASSUME NEW heap, NEW slices, NEW ranges, NEW calls, AllSolid(heap, slices, ranges, calls),
         NEW s \in SlicesOf(heap), SolidIn(heap, s)
  PROVE  /\ \A t \in Targets : AllSolid(heap, [slices EXCEPT ![t] = s], ranges, calls)
         /\ \A p \in Packets : AllSolid(heap, slices, [ranges EXCEPT ![p] = s], calls)
         /\ \A p \in Packets, h \in Hooks, kind \in {"insert", "remove"} :
              AllSolid(heap, slices, ranges,
                       [calls EXCEPT ![p] = [kind |-> kind, hook |-> h, slice |-> s]])
<1>1. ASSUME NEW t \in Targets PROVE HooksSolid(heap, [slices EXCEPT ![t] = s])
  BY DEF AllSolid, HooksSolid
<1>2. ASSUME NEW p \in Packets PROVE RangeSolid(heap, [ranges EXCEPT ![p] = s])
  BY DEF AllSolid, RangeSolid
<1>3. ASSUME NEW p \in Packets, NEW h \in Hooks, NEW kind \in {"insert", "remove"}
      PROVE  CallSolid(heap, [calls EXCEPT ![p] = [kind |-> kind, hook |-> h, slice |-> s]])
  <2> DEFINE c == [kind |-> kind, hook |-> h, slice |-> s]
             new == [calls EXCEPT ![p] = c]
  <2>1. c \in Calls(heap) /\ c.slice = s BY DEF Calls
  <2> HIDE DEF c
  <2>2. new \in [Packets -> Calls(heap)] BY <2>1 DEF AllSolid, CallSolid
  <2>3. \A q \in Packets : new[q] = IF q = p THEN c ELSE calls[q]
    BY DEF AllSolid, CallSolid
  <2> HIDE DEF new
  <2>4. CallSolid(heap, new) BY <2>1, <2>2, <2>3 DEF AllSolid, CallSolid
  <2> QED BY <2>4 DEF new, c
<1> QED BY <1>1, <1>2, <1>3 DEF AllSolid

LEMMA SolidReturn ==
  ASSUME NEW heap, NEW slices, NEW ranges, NEW calls, AllSolid(heap, slices, ranges, calls),
         NEW p \in Packets
  PROVE  AllSolid(heap, slices, ranges, [calls EXCEPT ![p] = NoCall])
<1> DEFINE new == [calls EXCEPT ![p] = NoCall]
<1>1. NoCall \in Calls(heap) BY DEF Calls
<1>2. /\ new \in [Packets -> Calls(heap)]
      /\ \A q \in Packets : new[q] = IF q = p THEN NoCall ELSE calls[q]
  BY <1>1 DEF AllSolid, CallSolid
<1> HIDE DEF new
<1>3. CallSolid(heap, new) BY <1>2 DEF AllSolid, CallSolid
<1> QED BY <1>3 DEF AllSolid, new

(* A call that is in progress has its hook and its slice.                  *)
LEMMA CallFacts ==
  ASSUME HolesInv, NEW p \in Packets, call[p] # NoCall
  PROVE  /\ call[p].hook \in Hooks
         /\ Target[call[p].hook] \in Targets
         /\ call[p].slice \in SlicesOf(arrays)
         /\ SolidIn(arrays, call[p].slice)
         /\ arrays \in Heaps
  BY HolesParts, ConstantsAssumption DEF AllSolid, CallSolid, Calls

LEMMA InACall ==
  ASSUME NEW p, call[p].kind \in {"insert", "remove"}
  PROVE  call[p] # NoCall
  BY DEF NoCall

(* What a call leaves in the histories is of its type.                     *)
LEMMA RecordTypes ==
  ASSUME HistoryTypes, NEW kind \in {"insert", "remove", "none"}, NEW lost, Record(kind, lost)
  PROVE  HistoryTypes'
  BY DEF HistoryTypes, Record

(* sortHooks reorders arrays of targets and leaves the others alone.       *)
SortedAt(order, new, a) ==
  \/ /\ new[a] = arrays[a]
     /\ \A t \in Targets : hooks[t].array = a => ~(hooks[t].len > 0)
  \/ \E t \in Targets : /\ hooks[t].array = a
                        /\ new[a] = Reordered(arrays, hooks[t], order[t])[a]

AllSorted(order) ==
  [a \in 1..Len(arrays) |->
     IF \E t \in Targets : hooks[t].array = a /\ hooks[t].len > 0
     THEN LET t == CHOOSE t \in Targets : hooks[t].array = a
          IN  Reordered(arrays, hooks[t], order[t])[a]
     ELSE arrays[a]]

LEMMA SortedWhere ==
  ASSUME NEW order
  PROVE  LET new == AllSorted(order) IN
         /\ DOMAIN new = 1..Len(arrays)
         /\ new = [a \in 1..Len(arrays) |-> new[a]]
         /\ \A a \in 1..Len(arrays) : SortedAt(order, new, a)
<1> DEFINE new == AllSorted(order)
<1> USE DEF AllSorted
<1>1. ASSUME NEW a \in 1..Len(arrays) PROVE SortedAt(order, new, a)
  <2>1. CASE \E t \in Targets : hooks[t].array = a /\ hooks[t].len > 0
    <3> DEFINE u == CHOOSE t \in Targets : hooks[t].array = a
    <3>1. u \in Targets /\ hooks[u].array = a BY <2>1
    <3>2. new[a] = Reordered(arrays, hooks[u], order[u])[a] BY <2>1
    <3> QED BY <3>1, <3>2 DEF SortedAt
  <2>2. CASE ~\E t \in Targets : hooks[t].array = a /\ hooks[t].len > 0
    BY <2>2 DEF SortedAt
  <2> QED BY <2>1, <2>2
<1>2. DOMAIN new = 1..Len(arrays) OBVIOUS
<1>3. new = [a \in 1..Len(arrays) |-> new[a]] OBVIOUS
<1> HIDE DEF new, AllSorted
<1> QED BY <1>1, <1>2, <1>3 DEF new

LEMMA SortedGrows ==
  ASSUME HolesInv, NEW order, \A t \in Targets : order[t] \in Orders(arrays, hooks[t]),
         NEW new, DOMAIN new = 1..Len(arrays), new = [a \in 1..Len(arrays) |-> new[a]],
         \A a \in 1..Len(arrays) : SortedAt(order, new, a)
  PROVE  Grows(arrays, new) /\ Len(new) = Len(arrays)
<1>1. /\ arrays \in Heaps
      /\ \A t \in Targets : hooks[t] \in SlicesOf(arrays) /\ SolidIn(arrays, hooks[t])
  BY HolesParts DEF AllSolid, HooksSolid
<1>2. Len(arrays) \in Nat BY <1>1, HeapFacts
<1>3. ASSUME NEW a \in 1..Len(arrays)
      PROVE  /\ new[a] \in Seq(Cell)
             /\ Len(new[a]) = Len(arrays[a])
             /\ \A i \in 1..Len(arrays[a]) : arrays[a][i] \in Hooks => new[a][i] \in Hooks
  <2>1. CASE new[a] = arrays[a] BY <2>1, <1>1, HeapFacts
  <2>2. ASSUME NEW t \in Targets, hooks[t].array = a,
               new[a] = Reordered(arrays, hooks[t], order[t])[a]
        PROVE  /\ new[a] \in Seq(Cell)
               /\ Len(new[a]) = Len(arrays[a])
               /\ \A i \in 1..Len(arrays[a]) :
                    arrays[a][i] \in Hooks => new[a][i] \in Hooks
    <3> DEFINE sorted == Reordered(arrays, hooks[t], order[t])
    <3>1. Grows(arrays, sorted) /\ Len(sorted) = Len(arrays) BY <1>1, ReorderedFacts
    <3>2. sorted \in Heaps BY <3>1 DEF Grows
    <3> HIDE DEF sorted
    <3>3. sorted[a] \in Seq(Cell) BY <3>1, <3>2, HeapFacts
    <3>4. new[a] = sorted[a] BY <2>2 DEF sorted
    <3> QED BY <3>1, <3>3, <3>4 DEF Grows
  <2> QED BY <2>1, <2>2 DEF SortedAt
<1>4. new \in [1..Len(arrays) -> Seq(Cell)]
  <2>1. \A a \in 1..Len(arrays) : new[a] \in Seq(Cell) BY <1>3
  <2> QED BY <2>1
<1>5. new \in Heaps
  <2> DEFINE n == Len(arrays)
             T == Seq(Cell)
  <2>1. n \in Nat /\ new \in [1..n -> T] BY <1>2, <1>4
  <2> HIDE DEF n, T
  <2>2. new \in Seq(T) BY <2>1
  <2> QED BY <2>2 DEF T, Heaps
<1>6. Len(new) = Len(arrays)
  <2>1. DOMAIN new = 1..Len(new) /\ Len(new) \in Nat BY <1>5, LenProperties DEF Heaps
  <2> QED BY <1>2, <2>1
<1>7. Grows(arrays, new)
  <2>1. Len(arrays) <= Len(new) BY <1>2, <1>6
  <2> QED BY <1>3, <1>5, <2>1 DEF Grows
<1> QED BY <1>6, <1>7

LEMMA SortedArrays ==
  ASSUME HolesInv, InitDone
  PROVE  /\ Grows(arrays, arrays')
         /\ Len(arrays') = Len(arrays)
         /\ \E order :
              /\ \A t \in Targets : order[t] \in Orders(arrays, hooks[t])
              /\ \A a \in 1..Len(arrays) : SortedAt(order, arrays', a)
<1>1. PICK order :
        /\ \A t \in Targets : order[t] \in Orders(arrays, hooks[t])
        /\ arrays' = AllSorted(order)
  BY DEF InitDone, AllSorted
<1>2. /\ DOMAIN arrays' = 1..Len(arrays)
      /\ arrays' = [a \in 1..Len(arrays) |-> arrays'[a]]
      /\ \A a \in 1..Len(arrays) : SortedAt(order, arrays', a)
  BY <1>1, SortedWhere
<1> QED BY <1>1, <1>2, SortedGrows

----------------------------------------------------------------------------
(* The steps                                                               *)

LEMMA HolesInit == Init => HolesInv
<1> SUFFICES ASSUME Init PROVE HolesInv
  OBVIOUS
<1>1. arrays \in Heaps /\ Len(arrays) = 1 BY DEF Init, Heaps, Cell
<1>2. EmptySlice \in SlicesOf(arrays) BY <1>1 DEF EmptySlice, SlicesOf
<1>3. arrays[1] = <<>> BY DEF Init
<1>4. SolidIn(arrays, EmptySlice) BY <1>3 DEF EmptySlice, SolidIn
<1>5. AllSolid(arrays, hooks, range, call)
  BY <1>1, <1>2, <1>4 DEF Init, AllSolid, HooksSolid, RangeSolid, CallSolid, Calls
<1>6. MapTypes /\ HistoryTypes BY DEF Init, MapTypes, HistoryTypes
<1>7. LoopTypes BY DEF Init, LoopTypes, Cell
<1> QED BY <1>5, <1>6, <1>7, HolesParts

LEMMA HolesInitHook ==
  ASSUME HolesInv, NEW h \in Hooks, InitHook(h)
  PROVE  HolesInv'
<1> DEFINE t == Target[h]
           s == hooks[t]
           slice == Appended(s, h).slice
<1>1. t \in Targets BY ConstantsAssumption
<1>2. AllSolid(arrays, hooks, range, call) /\ MapTypes /\ LoopTypes /\ HistoryTypes
  BY HolesParts
<1>3. arrays \in Heaps /\ s \in SlicesOf(arrays) /\ SolidIn(arrays, s)
  BY <1>1, <1>2 DEF AllSolid, HooksSolid
<1>4. arrays' = Appended(s, h).arrays /\ hooks' = [hooks EXCEPT ![t] = slice]
  BY <1>1, <1>2 DEF InitHook, AllSolid, HooksSolid
<1>5. Grows(arrays, arrays') /\ slice \in SlicesOf(arrays') /\ SolidIn(arrays', slice)
  BY <1>3, <1>4, AppendedFacts DEF AppendedAs
<1> HIDE DEF slice, s, t
<1>6. AllSolid(arrays', hooks, range, call) BY <1>2, <1>5, SolidAfter
<1>7. AllSolid(arrays', hooks', range, call) BY <1>1, <1>4, <1>5, <1>6, SolidStored
<1>8. AllSolid(arrays', hooks', range', call') BY <1>7 DEF InitHook, loopVars
<1>9. MapTypes' BY <1>2 DEF InitHook, MapTypes
<1>10. LoopTypes' /\ HistoryTypes'
  BY <1>2 DEF InitHook, LoopTypes, HistoryTypes, loopVars
<1> QED BY <1>8, <1>9, <1>10, HolesPartsPrimed

LEMMA HolesInitDone ==
  ASSUME HolesInv, InitDone
  PROVE  HolesInv'
<1>1. AllSolid(arrays, hooks, range, call) /\ MapTypes /\ LoopTypes /\ HistoryTypes
  BY HolesParts
<1>2. Grows(arrays, arrays') BY SortedArrays DEF InitDone
<1>3. AllSolid(arrays', hooks, range, call) BY <1>1, <1>2, SolidAfter
<1>4. AllSolid(arrays', hooks', range', call') BY <1>3 DEF InitDone, loopVars
<1>5. MapTypes' BY <1>1 DEF InitDone, MapTypes
<1>6. LoopTypes' /\ HistoryTypes'
  BY <1>1 DEF InitDone, LoopTypes, HistoryTypes, loopVars
<1> QED BY <1>4, <1>5, <1>6, HolesPartsPrimed

(* The steps of a dispatch leave the arrays and the map alone; only the    *)
(* start of a loop stores a slice.                                         *)
LEMMA HolesStartLoop ==
  ASSUME HolesInv, NEW p \in Packets, NEW name, NEW t \in Targets, StartLoop(p, name, t),
         UNCHANGED <<arrays, hooks, call>>
  PROVE  AllSolid(arrays', hooks', range', call')
<1>1. AllSolid(arrays, hooks, range, call) BY HolesParts
<1>2. hooks[t] \in SlicesOf(arrays) /\ SolidIn(arrays, hooks[t])
  BY <1>1 DEF AllSolid, HooksSolid
<1> DEFINE s == hooks[t]
<1>3. range' = [range EXCEPT ![p] = s] BY DEF StartLoop
<1> HIDE DEF s
<1>4. AllSolid(arrays, hooks, [range EXCEPT ![p] = s], call)
  BY <1>1, <1>2, SolidStored DEF s
<1> QED BY <1>3, <1>4

LEMMA HolesDispatch ==
  ASSUME HolesInv, NEW p \in Packets, NEW o \in Ops, Dispatch(p, o)
  PROVE  HolesInv'
<1>1. MapTypes /\ LoopTypes /\ HistoryTypes BY HolesParts
<1>2. AllSolid(arrays', hooks', range', call')
  BY HolesStartLoop DEF Dispatch, mapVars, Targets
<1>3. MapTypes' BY <1>1 DEF Dispatch, MapTypes, mapVars
<1>4. LoopTypes'
  <2>1. <<>> \in Seq(Cell) BY EmptySeq
  <2> QED BY <1>1, <2>1 DEF Dispatch, StartLoop, LoopTypes
<1>5. HistoryTypes'
  <2>1. {h \in Hooks : status[h] = "hooked" /\ Target[h] \in {Wild, o}} \in SUBSET Hooks
    OBVIOUS
  <2> QED BY <1>1, <2>1 DEF Dispatch, HistoryTypes
<1> QED BY <1>2, <1>3, <1>4, <1>5, HolesPartsPrimed

(* No loop hands its packet to a nil hook.                                 *)
LEMMA CalledIsHook ==
  ASSUME HolesInv, NEW p \in Packets, CallHook(p)
  PROVE  /\ arrays[range[p].array][next[p]] \in Hooks
         /\ next[p] \in 1..range[p].len
         /\ busy' = [busy EXCEPT ![p] = arrays[range[p].array][next[p]]]
         /\ called' = [called EXCEPT ![p] = Append(called[p], arrays[range[p].array][next[p]])]
<1>1. AllSolid(arrays, hooks, range, call) /\ LoopTypes BY HolesParts
<1>2. range[p].len \in Nat /\ next[p] \in Nat \ {0}
  BY <1>1 DEF AllSolid, RangeSolid, SlicesOf, LoopTypes
<1>3. next[p] \in 1..range[p].len BY <1>2 DEF CallHook
<1>4. arrays[range[p].array][next[p]] \in Hooks
  BY <1>1, <1>3 DEF AllSolid, RangeSolid, SolidIn
<1> DEFINE h == arrays[range[p].array][next[p]]
<1>5. busy' = [busy EXCEPT ![p] = h] /\ called' = [called EXCEPT ![p] = Append(@, busy'[p])]
  BY DEF CallHook
<1> HIDE DEF h
<1>6. busy'[p] = h BY <1>1, <1>5 DEF LoopTypes
<1>7. called' = [called EXCEPT ![p] = Append(called[p], h)]
  BY <1>1, <1>5, <1>6 DEF LoopTypes
<1> QED BY <1>3, <1>4, <1>5, <1>7 DEF h

LEMMA HolesCallHook ==
  ASSUME HolesInv, NEW p \in Packets, CallHook(p)
  PROVE  HolesInv'
<1>1. AllSolid(arrays, hooks, range, call) /\ MapTypes /\ LoopTypes /\ HistoryTypes
  BY HolesParts
<1>2. AllSolid(arrays', hooks', range', call') BY <1>1 DEF CallHook, mapVars
<1>3. MapTypes' /\ HistoryTypes'
  BY <1>1 DEF CallHook, MapTypes, HistoryTypes, mapVars
<1>4. LoopTypes'
  <2> DEFINE h == arrays[range[p].array][next[p]]
             more == Append(called[p], h)
  <2>1. /\ h \in Cell
        /\ busy' = [busy EXCEPT ![p] = h]
        /\ called' = [called EXCEPT ![p] = more]
    BY CalledIsHook DEF Cell
  <2> HIDE DEF h
  <2>2. more \in Seq(Cell) BY <1>1, <2>1, AppendProperties DEF LoopTypes
  <2> HIDE DEF more
  <2>3. next[p] + 1 \in Nat \ {0} BY <1>1 DEF LoopTypes
  <2> QED BY <1>1, <2>1, <2>2, <2>3 DEF CallHook, LoopTypes
<1> QED BY <1>2, <1>3, <1>4, HolesPartsPrimed

LEMMA HolesHandler ==
  ASSUME HolesInv, NEW p \in Packets, HandlerReturn(p) \/ HandlerPanic(p) \/ DispatchDone(p)
  PROVE  HolesInv'
<1>1. AllSolid(arrays, hooks, range, call) /\ MapTypes /\ LoopTypes /\ HistoryTypes
  BY HolesParts
<1>2. AllSolid(arrays', hooks', range', call')
  BY <1>1 DEF HandlerReturn, HandlerPanic, DispatchDone, mapVars
<1>3. MapTypes' /\ HistoryTypes'
  BY <1>1 DEF HandlerReturn, HandlerPanic, DispatchDone, MapTypes, HistoryTypes, mapVars
<1>4. LoopTypes'
  BY <1>1 DEF HandlerReturn, HandlerPanic, DispatchDone, LoopTypes, Cell
<1> QED BY <1>2, <1>3, <1>4, HolesPartsPrimed

LEMMA HolesNextLoop ==
  ASSUME HolesInv, NEW p \in Packets, NextLoop(p)
  PROVE  HolesInv'
<1>1. MapTypes /\ LoopTypes /\ HistoryTypes BY HolesParts
<1>2. op[p] \in Targets BY <1>1 DEF LoopTypes, Targets
<1>3. AllSolid(arrays', hooks', range', call')
  BY <1>2, HolesStartLoop DEF NextLoop, mapVars
<1>4. MapTypes' /\ HistoryTypes' BY <1>1 DEF NextLoop, MapTypes, HistoryTypes, mapVars
<1>5. LoopTypes' BY <1>1 DEF NextLoop, StartLoop, LoopTypes
<1> QED BY <1>3, <1>4, <1>5, HolesPartsPrimed

(* Both calls keep the slice they loaded.                                  *)
LEMMA HolesLoad ==
  ASSUME HolesInv, NEW p \in Packets, NEW h \in Hooks, HookLoad(p, h) \/ UnhookLoad(p, h)
  PROVE  HolesInv'
<1>1. AllSolid(arrays, hooks, range, call) /\ MapTypes /\ LoopTypes /\ HistoryTypes
  BY HolesParts
<1> DEFINE s == hooks[Target[h]]
<1>2. s \in SlicesOf(arrays) /\ SolidIn(arrays, s)
  BY <1>1, ConstantsAssumption DEF AllSolid, HooksSolid
<1> HIDE DEF s
<1>3. PICK kind \in {"insert", "remove"} :
        call' = [call EXCEPT ![p] = [kind |-> kind, hook |-> h, slice |-> s]]
  BY DEF HookLoad, UnhookLoad, s
<1>4. AllSolid(arrays, hooks, range, call') BY <1>1, <1>2, <1>3, SolidStored
<1>5. AllSolid(arrays', hooks', range', call')
  BY <1>4 DEF HookLoad, UnhookLoad, mapVars, loopVars
<1>6. MapTypes' BY <1>1 DEF HookLoad, UnhookLoad, MapTypes, mapVars
<1>7. LoopTypes' /\ HistoryTypes'
  BY <1>1 DEF HookLoad, UnhookLoad, LoopTypes, HistoryTypes, loopVars
<1> QED BY <1>5, <1>6, <1>7, HolesPartsPrimed

(* insertHook appends and then sorts; what the slice shows afterwards are  *)
(* the hooks it showed and the new one, in some order.                     *)
LEMMA StoreFacts ==
  ASSUME HolesInv, NEW p \in Packets, HookStore(p)
  PROVE  \E mid, slice, order :
           /\ AppendedAs(call[p].slice, call[p].hook, mid, slice)
           /\ order \in Orders(mid, slice)
           /\ arrays' = Reordered(mid, slice, order)
           /\ hooks' = [hooks EXCEPT ![Target[call[p].hook]] = slice]
           /\ Grows(arrays, arrays')
           /\ Len(arrays') = Len(mid)
           /\ slice \in SlicesOf(arrays')
           /\ SolidIn(arrays', slice)
<1>1. call[p] # NoCall BY InACall DEF HookStore
<1> DEFINE h == call[p].hook
           s == call[p].slice
           mid == Appended(s, h).arrays
           slice == Appended(s, h).slice
<1>2. arrays \in Heaps /\ h \in Hooks /\ s \in SlicesOf(arrays) /\ SolidIn(arrays, s)
  BY <1>1, CallFacts
<1>3. PICK order \in Orders(mid, slice) : arrays' = Reordered(mid, slice, order)
  BY DEF HookStore
<1>4. hooks' = [hooks EXCEPT ![Target[h]] = slice] BY DEF HookStore
<1>5. AppendedAs(s, h, mid, slice) BY <1>2, AppendedFacts
<1> HIDE DEF mid, slice
<1>6. Grows(arrays, mid) /\ slice \in SlicesOf(mid) /\ SolidIn(mid, slice) /\ mid \in Heaps
  BY <1>5 DEF AppendedAs, Grows
<1>7. Grows(mid, arrays') /\ Len(arrays') = Len(mid) /\ SolidIn(arrays', slice)
  BY <1>3, <1>6, ReorderedFacts
<1>8. Grows(arrays, arrays') BY <1>2, <1>6, <1>7, GrowsTransitive
<1>9. slice \in SlicesOf(arrays') BY <1>6, <1>7 DEF SlicesOf
<1> QED BY <1>3, <1>4, <1>5, <1>7, <1>8, <1>9

LEMMA HolesHookStore ==
  ASSUME HolesInv, NEW p \in Packets, HookStore(p)
  PROVE  HolesInv'
<1>1. AllSolid(arrays, hooks, range, call) /\ MapTypes /\ LoopTypes /\ HistoryTypes
  BY HolesParts
<1>2. Target[call[p].hook] \in Targets
  BY InACall, CallFacts DEF HookStore
<1>3. PICK slice :
        /\ hooks' = [hooks EXCEPT ![Target[call[p].hook]] = slice]
        /\ Grows(arrays, arrays')
        /\ slice \in SlicesOf(arrays')
        /\ SolidIn(arrays', slice)
  BY StoreFacts
<1>4. AllSolid(arrays', hooks, range, call) BY <1>1, <1>3, SolidAfter
<1>5. AllSolid(arrays', hooks', range, call) BY <1>2, <1>3, <1>4, SolidStored
<1>6. call' = [call EXCEPT ![p] = NoCall] /\ range' = range
  BY DEF HookStore, loopVars
<1>7. AllSolid(arrays', hooks', range', call') BY <1>5, <1>6, SolidReturn
<1>8. MapTypes' BY <1>1 DEF HookStore, MapTypes
<1>9. LoopTypes' BY <1>1 DEF HookStore, LoopTypes, loopVars
<1>10. HistoryTypes' BY <1>1, RecordTypes DEF HookStore
<1> QED BY <1>7, <1>8, <1>9, <1>10, HolesPartsPrimed

(* removeHook closes the gap in the slice that it loaded.                  *)
LEMMA RemoveFacts ==
  ASSUME HolesInv, NEW p \in Packets, UnhookStore(p)
  PROVE  \E i \in 1..call[p].slice.len : \E shorter :
           /\ arrays[call[p].slice.array][i] = call[p].hook
           /\ arrays' = Removed(call[p].slice, i)
           /\ shorter.array = call[p].slice.array
           /\ shorter.len = call[p].slice.len - 1
           /\ hooks' = [hooks EXCEPT ![Target[call[p].hook]] = shorter]
           /\ Grows(arrays, arrays')
           /\ shorter \in SlicesOf(arrays')
           /\ SolidIn(arrays', shorter)
<1>1. call[p] # NoCall BY InACall DEF UnhookStore
<1> DEFINE h == call[p].hook
           s == call[p].slice
           shorter == [s EXCEPT !.len = @ - 1]
<1>2. arrays \in Heaps /\ h \in Hooks /\ s \in SlicesOf(arrays) /\ SolidIn(arrays, s)
  BY <1>1, CallFacts
<1>3. PICK i \in Found(s, h) :
        arrays' = Removed(s, i) /\ hooks' = [hooks EXCEPT ![Target[h]] = shorter]
  BY DEF UnhookStore
<1>4. i \in 1..s.len /\ arrays[s.array][i] = h BY DEF Found
<1>5. s.array \in 1..Len(arrays) /\ s.len \in Nat BY <1>2 DEF SlicesOf
<1>6. shorter.array = s.array /\ shorter.len = s.len - 1 BY <1>2 DEF SlicesOf
<1>7. shorter \in SlicesOf(arrays) BY <1>2, <1>4, <1>5 DEF SlicesOf
<1>8. Grows(arrays, arrays') BY <1>2, <1>3, <1>4, RemovedFacts
<1> HIDE DEF shorter
<1>9. SolidIn(arrays, shorter)
  <2>1. Len(arrays[s.array]) \in Nat BY <1>2, <1>5, HeapFacts
  <2>2. shorter.len <= Len(arrays[shorter.array]) BY <1>2, <1>5, <1>6, <2>1 DEF SolidIn
  <2>3. \A j \in 1..shorter.len : j \in 1..s.len BY <1>5, <1>6
  <2> QED BY <1>2, <1>6, <2>2, <2>3 DEF SolidIn
<1>10. shorter \in SlicesOf(arrays') /\ SolidIn(arrays', shorter)
  BY <1>2, <1>7, <1>8, <1>9, SolidStays
<1> QED BY <1>3, <1>4, <1>6, <1>8, <1>10

LEMMA HolesUnhookStore ==
  ASSUME HolesInv, NEW p \in Packets, UnhookStore(p)
  PROVE  HolesInv'
<1>1. AllSolid(arrays, hooks, range, call) /\ MapTypes /\ LoopTypes /\ HistoryTypes
  BY HolesParts
<1>2. Target[call[p].hook] \in Targets
  BY InACall, CallFacts DEF UnhookStore
<1>3. PICK slice :
        /\ hooks' = [hooks EXCEPT ![Target[call[p].hook]] = slice]
        /\ Grows(arrays, arrays')
        /\ slice \in SlicesOf(arrays')
        /\ SolidIn(arrays', slice)
  BY RemoveFacts
<1>4. AllSolid(arrays', hooks, range, call) BY <1>1, <1>3, SolidAfter
<1>5. AllSolid(arrays', hooks', range, call) BY <1>2, <1>3, <1>4, SolidStored
<1>6. call' = [call EXCEPT ![p] = NoCall] /\ range' = range
  BY DEF UnhookStore, loopVars
<1>7. AllSolid(arrays', hooks', range', call') BY <1>5, <1>6, SolidReturn
<1>8. MapTypes' BY <1>1 DEF UnhookStore, MapTypes
<1>9. LoopTypes' BY <1>1 DEF UnhookStore, LoopTypes, loopVars
<1>10. HistoryTypes' BY <1>1, RecordTypes DEF UnhookStore
<1> QED BY <1>7, <1>8, <1>9, <1>10, HolesPartsPrimed

LEMMA HolesUnhookNotFound ==
  ASSUME HolesInv, NEW p \in Packets, UnhookNotFound(p)
  PROVE  HolesInv'
<1>1. AllSolid(arrays, hooks, range, call) /\ MapTypes /\ LoopTypes /\ HistoryTypes
  BY HolesParts
<1>2. AllSolid(arrays', hooks', range', call')
  BY <1>1, SolidReturn DEF UnhookNotFound, loopVars
<1>3. MapTypes' BY <1>1 DEF UnhookNotFound, MapTypes
<1>4. LoopTypes' BY <1>1 DEF UnhookNotFound, LoopTypes, loopVars
<1>5. HistoryTypes' BY <1>1, RecordTypes DEF UnhookNotFound
<1> QED BY <1>2, <1>3, <1>4, <1>5, HolesPartsPrimed

LEMMA HolesMapFault ==
  ASSUME HolesInv, NEW p \in Packets, NEW q \in Packets, MapFault(p, q)
  PROVE  HolesInv'
<1>1. AllSolid(arrays, hooks, range, call) /\ MapTypes /\ LoopTypes /\ HistoryTypes
  BY HolesParts
<1>2. AllSolid(arrays', hooks', range', call') BY <1>1 DEF MapFault, loopVars
<1>3. MapTypes' BY <1>1 DEF MapFault, MapTypes
<1>4. LoopTypes' /\ HistoryTypes' BY <1>1 DEF MapFault, LoopTypes, HistoryTypes, loopVars
<1> QED BY <1>2, <1>3, <1>4, HolesPartsPrimed

LEMMA HolesStutter ==
  ASSUME HolesInv, UNCHANGED vars
  PROVE  HolesInv'
<1>1. AllSolid(arrays, hooks, range, call) /\ MapTypes /\ LoopTypes /\ HistoryTypes
  BY HolesParts
<1> USE DEF vars, mapVars, loopVars
<1>2. AllSolid(arrays', hooks', range', call') BY <1>1
<1>3. MapTypes' BY <1>1 DEF MapTypes
<1>4. LoopTypes' /\ HistoryTypes' BY <1>1 DEF LoopTypes, HistoryTypes
<1> QED BY <1>2, <1>3, <1>4, HolesPartsPrimed

LEMMA HolesNext == HolesInv /\ [Next]_vars => HolesInv'
<1> SUFFICES ASSUME HolesInv, [Next]_vars PROVE HolesInv'
  OBVIOUS
<1>1. CASE \E h \in Hooks : InitHook(h) BY <1>1, HolesInitHook
<1>2. CASE InitDone BY <1>2, HolesInitDone
<1>3. ASSUME NEW p \in Packets, PacketStep(p) PROVE HolesInv'
  BY <1>3, HolesDispatch, HolesCallHook, HolesHandler, HolesNextLoop DEF PacketStep
<1>4. ASSUME NEW p \in Packets, CallStep(p) PROVE HolesInv'
  BY <1>4, HolesLoad, HolesHookStore, HolesUnhookStore, HolesUnhookNotFound, HolesMapFault
     DEF CallStep
<1>5. CASE UNCHANGED vars BY <1>5, HolesStutter
<1> QED BY <1>1, <1>2, <1>3, <1>4, <1>5 DEF Next

(* Every variable keeps its type, whatever the handlers hook and unhook.   *)
THEOREM HookTypes == Spec => []TypeOK
<1>1. Init => HolesInv BY HolesInit
<1>2. HolesInv /\ [Next]_vars => HolesInv' BY HolesNext
<1>3. HolesInv => TypeOK BY DEF HolesInv
<1> QED BY <1>1, <1>2, <1>3, PTL DEF Spec

(* Whatever the handlers hook and unhook, in however many goroutines, no   *)
(* slice that the map, a loop of dispatch or a call of Hook or Unhook      *)
(* holds ever shows a cell without a hook: dispatch never calls a nil      *)
(* hook.                                                                   *)
THEOREM NeverNil == Spec => []NoHoles
<1>1. Init => HolesInv BY HolesInit
<1>2. HolesInv /\ [Next]_vars => HolesInv' BY HolesNext
<1>3. HolesInv => NoHoles BY DEF HolesInv
<1> QED BY <1>1, <1>2, <1>3, PTL DEF Spec

----------------------------------------------------------------------------
(* Who is at the hooks: handlers run in the loops of packets, calls in     *)
(* handlers, and packets come when the modules are initialised.            *)

LoopInv ==
  /\ Len(arrays) > 0
  /\ Len(arrays[1]) = 0
  /\ \A p \in Packets :
       /\ stage[p] # "idle" => initialized
       /\ busy[p] # NoHook => Dispatching(p)
       /\ call[p] # NoCall => busy[p] # NoHook

BaseInv == HolesInv /\ LoopInv

LEMMA EmptyArrayStays ==
  ASSUME HolesInv, LoopInv, Grows(arrays, arrays')
  PROVE  Len(arrays') > 0 /\ Len(arrays'[1]) = 0
<1>1. arrays \in Heaps /\ arrays' \in Heaps BY HolesParts DEF AllSolid, Grows
<1>2. Len(arrays) \in Nat /\ Len(arrays') \in Nat BY <1>1, HeapFacts
<1>3. 1 \in 1..Len(arrays) BY <1>2 DEF LoopInv
<1> QED BY <1>2, <1>3 DEF LoopInv, Grows

LEMMA LoopInit == Init => LoopInv
  BY DEF Init, LoopInv

LEMMA LoopModules ==
  ASSUME HolesInv, LoopInv, (\E h \in Hooks : InitHook(h)) \/ InitDone
  PROVE  LoopInv'
<1>1. Grows(arrays, arrays')
  <2>1. ASSUME NEW h \in Hooks, InitHook(h) PROVE Grows(arrays, arrays')
    <3>1. /\ arrays \in Heaps
          /\ hooks[Target[h]] \in SlicesOf(arrays)
          /\ SolidIn(arrays, hooks[Target[h]])
      BY HolesParts, ConstantsAssumption DEF AllSolid, HooksSolid
    <3>2. arrays' = Appended(hooks[Target[h]], h).arrays BY <2>1 DEF InitHook
    <3> QED BY <3>1, <3>2, AppendedFacts DEF AppendedAs
  <2> QED BY <2>1, SortedArrays
<1>2. UNCHANGED <<stage, busy, call>> /\ (initialized => initialized')
  BY DEF InitHook, InitDone, loopVars
<1>3. Len(arrays') > 0 /\ Len(arrays'[1]) = 0 BY <1>1, EmptyArrayStays
<1> QED BY <1>2, <1>3 DEF LoopInv, Dispatching

LEMMA LoopPacket ==
  ASSUME HolesInv, LoopInv, NEW p \in Packets, PacketStep(p)
  PROVE  LoopInv'
<1>1. UNCHANGED <<arrays, initialized, call>>
  BY DEF PacketStep, Dispatch, CallHook, HandlerReturn, HandlerPanic, NextLoop, DispatchDone,
         mapVars
<1>2. LoopTypes BY HolesParts
<1>3. \A q \in Packets : q # p => stage'[q] = stage[q] /\ busy'[q] = busy[q]
  BY <1>2 DEF PacketStep, Dispatch, CallHook, HandlerReturn, HandlerPanic, NextLoop,
              DispatchDone, StartLoop, LoopTypes
<1>4. /\ stage'[p] # "idle" => initialized
      /\ busy'[p] # NoHook => stage'[p] \in {"wild", "op"}
      /\ call[p] # NoCall => busy'[p] # NoHook
  <2>1. ASSUME NEW o \in Ops, Dispatch(p, o) PROVE <1>4
    BY <2>1, <1>2 DEF Dispatch, StartLoop, LoopInv, LoopTypes, Dispatching
  <2>2. CASE CallHook(p)
    BY <2>2, <1>2 DEF CallHook, LoopInv, LoopTypes, Dispatching
  <2>3. CASE HandlerReturn(p) \/ HandlerPanic(p)
    BY <2>3, <1>2 DEF HandlerReturn, HandlerPanic, LoopInv, LoopTypes, Dispatching
  <2>4. CASE NextLoop(p)
    BY <2>4, <1>2 DEF NextLoop, StartLoop, LoopDone, LoopInv, LoopTypes, Dispatching
  <2>5. CASE DispatchDone(p)
    BY <2>5, <1>2 DEF DispatchDone, LoopDone, LoopInv, LoopTypes, Dispatching
  <2> QED BY <2>1, <2>2, <2>3, <2>4, <2>5 DEF PacketStep
<1> QED BY <1>1, <1>3, <1>4 DEF LoopInv, Dispatching

LEMMA LoopCall ==
  ASSUME HolesInv, LoopInv, NEW p \in Packets, CallStep(p)
  PROVE  LoopInv'
<1>1. UNCHANGED <<stage, busy, initialized>>
  BY DEF CallStep, HookLoad, UnhookLoad, HookStore, UnhookStore, UnhookNotFound, MapFault,
         mapVars, loopVars
<1>2. \A q \in Packets : call'[q] = call[q] \/ call'[q] = NoCall \/ busy[q] # NoHook
  <2>1. call \in [Packets -> Calls(arrays)] BY HolesParts DEF AllSolid, CallSolid
  <2> QED BY <2>1 DEF CallStep, HookLoad, UnhookLoad, HookStore, UnhookStore, UnhookNotFound,
                     MapFault
<1>3. Len(arrays') > 0 /\ Len(arrays'[1]) = 0
  <2>1. CASE UNCHANGED arrays BY <2>1 DEF LoopInv
  <2>2. CASE Grows(arrays, arrays') BY <2>2, EmptyArrayStays
  <2>3. UNCHANGED arrays \/ HookStore(p) \/ UnhookStore(p)
    BY DEF CallStep, HookLoad, UnhookLoad, UnhookNotFound, MapFault, mapVars
  <2>4. HookStore(p) => Grows(arrays, arrays') BY StoreFacts
  <2>5. UnhookStore(p) => Grows(arrays, arrays') BY RemoveFacts
  <2> QED BY <2>1, <2>2, <2>3, <2>4, <2>5
<1> QED BY <1>1, <1>2, <1>3 DEF LoopInv, Dispatching

LEMMA BaseInit == Init => BaseInv
  BY HolesInit, LoopInit DEF BaseInv

LEMMA BaseNext == BaseInv /\ [Next]_vars => BaseInv'
<1> SUFFICES ASSUME BaseInv, [Next]_vars PROVE BaseInv'
  OBVIOUS
<1>1. HolesInv' BY HolesNext DEF BaseInv
<1>2. LoopInv'
  <2>1. CASE UNCHANGED vars
    BY <2>1 DEF BaseInv, LoopInv, Dispatching, vars, mapVars, loopVars
  <2> QED BY <2>1, LoopModules, LoopPacket, LoopCall DEF BaseInv, Next
<1> QED BY <1>1, <1>2 DEF BaseInv

(* While only one packet has been at the hooks, no other has a handler or  *)
(* a call.                                                                 *)
LEMMA OthersIdle ==
  ASSUME LoopInv, Alone, NEW p \in Packets, stage[p] # "idle", NEW q \in Packets, q # p
  PROVE  stage[q] = "idle" /\ busy[q] = NoHook /\ call[q] = NoCall
  BY DEF LoopInv, Alone, Dispatching

(* A dispatch never becomes idle again.                                    *)
LEMMA AloneBefore ==
  ASSUME BaseInv, [Next]_vars, Alone'
  PROVE  Alone
<1>1. LoopTypes BY HolesParts DEF BaseInv
<1>2. \A q \in Packets : stage[q] # "idle" => stage'[q] # "idle"
  <2>1. CASE UNCHANGED stage BY <2>1
  <2>2. ASSUME NEW p \in Packets, PacketStep(p) PROVE <1>2
    BY <2>2, <1>1 DEF PacketStep, Dispatch, CallHook, HandlerReturn, HandlerPanic, NextLoop,
                      DispatchDone, StartLoop, LoopTypes
  <2>3. UNCHANGED stage \/ \E p \in Packets : PacketStep(p)
    BY DEF Next, InitHook, InitDone, CallStep, HookLoad, UnhookLoad, HookStore, UnhookStore,
           UnhookNotFound, MapFault, vars, mapVars, loopVars
  <2> QED BY <2>1, <2>2, <2>3
<1> QED BY <1>2 DEF Alone

----------------------------------------------------------------------------
(* What the slices of the map show while one packet at a time is at the    *)
(* hooks                                                                   *)

(* s shows exactly the hooks of the set, each of them once.                *)
Shows(heap, s, set) ==
  /\ \A h : h \in set <=> \E i \in 1..s.len : heap[s.array][i] = h
  /\ \A i, j \in 1..s.len : heap[s.array][i] = heap[s.array][j] => i = j

(* ... by descending priority.                                             *)
Descends(heap, s) ==
  \A i, j \in 1..s.len : i < j =>
    Priority[heap[s.array][i]] >= Priority[heap[s.array][j]]

LEMMA ShowsElsewhere ==
  ASSUME NEW old, NEW new, NEW s, new[s.array] = old[s.array], NEW set
  PROVE  /\ Shows(old, s, set) => Shows(new, s, set)
         /\ Descends(old, s) => Descends(new, s)
  BY DEF Shows, Descends

LEMMA ShowsAppended ==
  ASSUME NEW s, s.len \in Nat, NEW h, NEW new, NEW slice, AppendedAs(s, h, new, slice),
         NEW set, Shows(arrays, s, set), h \notin set
  PROVE  Shows(new, slice, set \cup {h})
<1> DEFINE N(i) == new[slice.array][i]
           O(i) == arrays[s.array][i]
<1>1. /\ slice.len = s.len + 1
      /\ \A i \in 1..s.len : N(i) = O(i)
      /\ N(s.len + 1) = h
  BY DEF AppendedAs
<1>2. \A i \in 1..slice.len : i \in 1..s.len \/ i = s.len + 1 BY <1>1
<1>3. 1..s.len \subseteq 1..slice.len /\ s.len + 1 \in 1..slice.len BY <1>1
<1>4. /\ \A g : g \in set <=> \E i \in 1..s.len : O(i) = g
      /\ \A i, j \in 1..s.len : O(i) = O(j) => i = j
  BY DEF Shows
<1> HIDE DEF N, O
<1>5. \A g : g \in set \cup {h} <=> \E i \in 1..slice.len : N(i) = g
  <2>1. ASSUME NEW g \in set \cup {h} PROVE \E i \in 1..slice.len : N(i) = g
    BY <1>1, <1>3, <1>4
  <2>2. ASSUME NEW i \in 1..slice.len PROVE N(i) \in set \cup {h}
    BY <1>1, <1>2, <1>4
  <2> QED BY <2>1, <2>2
<1>6. \A i, j \in 1..slice.len : N(i) = N(j) => i = j
  <2>1. ASSUME NEW i \in 1..s.len PROVE N(i) # h BY <1>1, <1>4
  <2>2. ASSUME NEW i \in 1..slice.len, NEW j \in 1..slice.len, N(i) = N(j) PROVE i = j
    <3>1. CASE i \in 1..s.len /\ j \in 1..s.len BY <3>1, <2>2, <1>1, <1>4
    <3>2. CASE i = s.len + 1 /\ j = s.len + 1 BY <3>2
    <3>3. CASE i = s.len + 1 /\ j \in 1..s.len BY <3>3, <2>1, <2>2, <1>1
    <3>4. CASE i \in 1..s.len /\ j = s.len + 1 BY <3>4, <2>1, <2>2, <1>1
    <3> QED BY <3>1, <3>2, <3>3, <3>4, <1>2
  <2> QED BY <2>2
<1> QED BY <1>5, <1>6 DEF Shows, N, O

(* An order that never takes a cell twice takes all of them.               *)
LEMMA OrderIsOnto ==
  ASSUME NEW heap, NEW s, s.len \in Nat, NEW order \in Orders(heap, s)
  PROVE  /\ order \in [1..s.len -> 1..s.len]
         /\ \A i, j \in 1..s.len : order[i] = order[j] => i = j
         /\ \A j \in 1..s.len : \E i \in 1..s.len : order[i] = j
<1>1. /\ order \in [1..s.len -> 1..s.len]
      /\ \A i, j \in 1..s.len : i < j => order[i] # order[j]
  BY DEF Orders
<1>2. \A i, j \in 1..s.len : order[i] = order[j] => i = j
  <2>1. \A i, j \in 1..s.len : i < j \/ j < i \/ i = j OBVIOUS
  <2> QED BY <1>1, <2>1
<1>3. order \in Injection(1..s.len, 1..s.len)
  <2> DEFINE S == 1..s.len
  <2>1. order \in [S -> S] /\ \A i, j \in S : order[i] = order[j] => i = j
    BY <1>1, <1>2
  <2> HIDE DEF S
  <2>2. order \in Injection(S, S) BY <2>1 DEF Injection, IsInjective
  <2> QED BY <2>2 DEF S
<1>4. IsFiniteSet(1..s.len) BY FS_Interval
<1>5. order \in Surjection(1..s.len, 1..s.len) BY <1>3, <1>4, FS_Injection
<1>6. \A j \in 1..s.len : \E i \in 1..s.len : order[i] = j
  BY <1>5 DEF Surjection
<1> QED BY <1>1, <1>2, <1>6

LEMMA ShowsReordered ==
  ASSUME NEW heap \in Heaps, NEW s \in SlicesOf(heap), SolidIn(heap, s),
         NEW order \in Orders(heap, s), NEW set, Shows(heap, s, set)
  PROVE  LET new == Reordered(heap, s, order)
         IN  Shows(new, s, set) /\ Descends(new, s)
<1> DEFINE new == Reordered(heap, s, order)
<1>1. s.len \in Nat BY DEF SlicesOf
<1>2. /\ order \in [1..s.len -> 1..s.len]
      /\ \A i, j \in 1..s.len : order[i] = order[j] => i = j
      /\ \A j \in 1..s.len : \E i \in 1..s.len : order[i] = j
  BY <1>1, OrderIsOnto
<1>3. \A i \in 1..s.len : new[s.array][i] = heap[s.array][order[i]]
  BY ReorderedFacts
<1> HIDE DEF new
<1>4. Shows(new, s, set)
  <2>1. ASSUME NEW h \in set PROVE \E i \in 1..s.len : new[s.array][i] = h
    <3>1. PICK j \in 1..s.len : heap[s.array][j] = h BY DEF Shows
    <3>2. PICK i \in 1..s.len : order[i] = j BY <1>2
    <3> QED BY <3>1, <3>2, <1>3
  <2>2. ASSUME NEW i \in 1..s.len PROVE new[s.array][i] \in set
    <3>1. order[i] \in 1..s.len BY <1>2
    <3>2. heap[s.array][order[i]] \in set BY <3>1 DEF Shows
    <3> QED BY <3>2, <1>3
  <2>3. ASSUME NEW i \in 1..s.len, NEW j \in 1..s.len, new[s.array][i] = new[s.array][j]
        PROVE  i = j
    <3>1. order[i] \in 1..s.len /\ order[j] \in 1..s.len BY <1>2
    <3>2. heap[s.array][order[i]] = heap[s.array][order[j]] BY <2>3, <1>3
    <3>3. order[i] = order[j] BY <3>1, <3>2 DEF Shows
    <3> QED BY <3>3, <1>2
  <2> QED BY <2>1, <2>2, <2>3 DEF Shows
<1>5. Descends(new, s) BY <1>3 DEF Orders, Descends
<1> QED BY <1>4, <1>5 DEF new

LEMMA ShowsRemoved ==
  ASSUME arrays \in Heaps, NEW s \in SlicesOf(arrays), SolidIn(arrays, s),
         NEW i \in 1..s.len, NEW shorter, shorter.array = s.array, shorter.len = s.len - 1,
         NEW set, Shows(arrays, s, set)
  PROVE  /\ Shows(Removed(s, i), shorter, set \ {arrays[s.array][i]})
         /\ Descends(arrays, s) => Descends(Removed(s, i), shorter)
<1> DEFINE new == Removed(s, i)
           O(j) == arrays[s.array][j]
           N(j) == new[s.array][j]
           back(j) == IF j < i THEN j ELSE j + 1
<1>1. s.array \in 1..Len(arrays) /\ s.len \in Nat BY DEF SlicesOf
<1>2. Len(arrays[s.array]) \in Nat /\ s.len <= Len(arrays[s.array])
  BY <1>1, HeapFacts DEF SolidIn
<1>3. ASSUME NEW j \in 1..shorter.len PROVE back(j) \in 1..s.len /\ back(j) # i /\ N(j) = O(back(j))
  <2>1. N(j) = IF j \in i..(s.len - 1) THEN O(j + 1) ELSE O(j)
    <3>1. j \in 1..Len(arrays[s.array]) BY <1>1, <1>2
    <3> QED BY <3>1, RemovedFacts
  <2> HIDE DEF N, O
  <2> QED BY <2>1, <1>1
<1>4. \A j, k \in 1..shorter.len : (back(j) = back(k) => j = k) /\ (j < k => back(j) < back(k))
  BY <1>1
<1>5. \A k \in 1..s.len : k # i => \E j \in 1..shorter.len : back(j) = k
  <2> TAKE k \in 1..s.len
  <2>1. CASE k < i BY <2>1, <1>1
  <2>2. CASE k > i
    <3>1. k - 1 \in 1..shorter.len /\ back(k - 1) = k BY <2>2, <1>1
    <3> QED BY <3>1
  <2> QED BY <2>1, <2>2, <1>1
<1>6. /\ \A h : h \in set <=> \E j \in 1..s.len : O(j) = h
      /\ \A j, k \in 1..s.len : O(j) = O(k) => j = k
  BY DEF Shows
<1>7. \A j \in 1..shorter.len : back(j) \in 1..s.len /\ back(j) # i /\ N(j) = O(back(j))
  BY <1>3
<1> HIDE DEF back, N, O
<1>8. \A h : h \in set \ {O(i)} <=> \E j \in 1..shorter.len : N(j) = h
  <2>1. ASSUME NEW h \in set, h # O(i) PROVE \E j \in 1..shorter.len : N(j) = h
    <3>1. PICK k \in 1..s.len : O(k) = h BY <1>6
    <3>2. k # i BY <2>1, <3>1
    <3>3. PICK j \in 1..shorter.len : back(j) = k BY <3>2, <1>5
    <3> QED BY <3>1, <3>3, <1>7
  <2>2. ASSUME NEW j \in 1..shorter.len PROVE N(j) \in set /\ N(j) # O(i)
    BY <1>6, <1>7
  <2> QED BY <2>1, <2>2
<1>9. \A j, k \in 1..shorter.len : N(j) = N(k) => j = k
  BY <1>4, <1>6, <1>7
<1>10. ASSUME Descends(arrays, s), NEW j \in 1..shorter.len, NEW k \in 1..shorter.len, j < k
       PROVE  Priority[N(j)] >= Priority[N(k)]
  <2>1. back(j) < back(k) /\ back(j) \in 1..s.len /\ back(k) \in 1..s.len
    BY <1>4, <1>7, <1>10
  <2>2. Priority[O(back(j))] >= Priority[O(back(k))]
    BY <2>1, <1>10 DEF Descends, O
  <2> QED BY <2>2, <1>7
<1> QED BY <1>8, <1>9, <1>10 DEF Shows, Descends, N, O

----------------------------------------------------------------------------
(* The map while one packet at a time is at the hooks                      *)

(* The hooks of a target that were stored in the map and not unhooked.     *)
Attached(t) ==
  {h \in Hooks : /\ status[h] = "hooked"
                 /\ Target[h] = t
                 /\ \A p \in Packets : ~(call[p].kind = "insert" /\ call[p].hook = h)}

(* Targets share nothing but the array without cells.                      *)
OwnArrays ==
  \A t, u \in Targets : t # u /\ hooks[t].array = hooks[u].array => hooks[t].array = 1

(* A call works on what the map holds.                                     *)
FreshCalls ==
  \A p \in Packets : call[p] # NoCall =>
    /\ call[p].slice = hooks[Target[call[p].hook]]
    /\ call[p].kind = "insert" => status[call[p].hook] = "hooked"

MapShown ==
  \A t \in Targets :
    /\ Shows(arrays, hooks[t], Attached(t))
    /\ initialized => Descends(arrays, hooks[t])

MapInv == Alone => OwnArrays /\ FreshCalls /\ MapShown

LEMMA MapInit == Init => MapInv
<1> SUFFICES ASSUME Init PROVE OwnArrays /\ FreshCalls /\ MapShown
  BY DEF MapInv
<1>1. \A t \in Targets : hooks[t].array = 1 /\ hooks[t].len = 0
  BY DEF Init, EmptySlice
<1>2. \A t \in Targets : Attached(t) = {} BY DEF Init, Attached
<1> QED BY <1>1, <1>2 DEF OwnArrays, FreshCalls, MapShown, Shows, Init

(* Steps that leave the map and the calls alone.                           *)
LEMMA MapFrame ==
  ASSUME BaseInv, MapInv, [Next]_vars,
         UNCHANGED <<initialized, arrays, hooks, status, call>>
  PROVE  MapInv'
<1> SUFFICES ASSUME Alone' PROVE (OwnArrays /\ FreshCalls /\ MapShown)'
  BY DEF MapInv
<1>1. OwnArrays /\ FreshCalls /\ MapShown BY AloneBefore DEF MapInv
<1>2. \A t \in Targets : Attached(t)' = Attached(t) BY DEF Attached
<1> QED BY <1>1, <1>2 DEF OwnArrays, FreshCalls, MapShown

(* What the map's slices need to be found in the arrays.                   *)
LEMMA SliceFacts ==
  ASSUME BaseInv, NEW t \in Targets
  PROVE  /\ arrays \in Heaps
         /\ hooks[t] \in SlicesOf(arrays)
         /\ SolidIn(arrays, hooks[t])
         /\ hooks[t].array \in 1..Len(arrays)
         /\ hooks[t].len \in Nat
         /\ Len(arrays) \in Nat
         /\ hooks \in [Targets -> SlicesOf(arrays)]
<1>1. AllSolid(arrays, hooks, range, call) BY HolesParts DEF BaseInv
<1>2. arrays \in Heaps /\ hooks[t] \in SlicesOf(arrays) /\ SolidIn(arrays, hooks[t])
  BY <1>1 DEF AllSolid, HooksSolid
<1>3. hooks \in [Targets -> SlicesOf(arrays)] BY <1>1 DEF AllSolid, HooksSolid
<1> QED BY <1>2, <1>3, HeapFacts DEF SlicesOf

(* A slice that append returned shares its array with no other target.     *)
LEMMA AppendedIsOwn ==
  ASSUME BaseInv, OwnArrays, NEW t \in Targets, NEW u \in Targets, u # t,
         NEW h, NEW mid, NEW slice, AppendedAs(hooks[t], h, mid, slice)
  PROVE  /\ hooks[u].array # slice.array
         /\ mid[hooks[u].array] = arrays[hooks[u].array]
<1>1. hooks[u].array \in 1..Len(arrays) /\ Len(arrays) \in Nat BY SliceFacts
<1>2. hooks[u].array # slice.array
  <2>1. CASE slice.array = Len(arrays) + 1 BY <2>1, <1>1
  <2>2. CASE slice.array = hooks[t].array /\ Len(arrays[hooks[t].array]) > 0
    <3>1. hooks[t].array # 1 BY <2>2 DEF BaseInv, LoopInv
    <3> QED BY <2>2, <3>1 DEF OwnArrays
  <2> QED BY <2>1, <2>2 DEF AppendedAs
<1> QED BY <1>1, <1>2 DEF AppendedAs

(* One target gets a slice of its own.                                     *)
LEMMA OwnArraysStored ==
  ASSUME BaseInv, OwnArrays, NEW t \in Targets, NEW slice,
         hooks' = [hooks EXCEPT ![t] = slice],
         \A u \in Targets : u # t => hooks[u].array # slice.array \/ slice.array = hooks[t].array
  PROVE  OwnArrays'
<1>1. \A u \in Targets : hooks'[u] = IF u = t THEN slice ELSE hooks[u]
  BY SliceFacts
<1> QED BY <1>1 DEF OwnArrays

LEMMA MapInitHook ==
  ASSUME BaseInv, MapInv, NEW h \in Hooks, InitHook(h)
  PROVE  MapInv'
<1> SUFFICES ASSUME Alone' PROVE (OwnArrays /\ FreshCalls /\ MapShown)'
  BY DEF MapInv
<1>1. Alone BY DEF Alone, InitHook, loopVars
<1>2. OwnArrays /\ MapShown BY <1>1 DEF MapInv
<1> DEFINE t == Target[h]
           s == hooks[t]
           mid == Appended(s, h).arrays
           slice == Appended(s, h).slice
<1>3. t \in Targets BY ConstantsAssumption
<1>4. arrays \in Heaps /\ s \in SlicesOf(arrays) /\ SolidIn(arrays, s) /\ s.len \in Nat
  BY <1>3, SliceFacts
<1>5. AppendedAs(s, h, mid, slice) BY <1>4, AppendedFacts
<1>6. arrays' = mid /\ hooks' = [hooks EXCEPT ![t] = slice]
  BY <1>3, SliceFacts DEF InitHook
<1>7. /\ initialized' = FALSE
      /\ status[h] = "idle"
      /\ status' = [status EXCEPT ![h] = "hooked"]
      /\ call' = call
  BY DEF InitHook
<1>8. \A q \in Packets : call[q] = NoCall
  BY DEF InitHook, BaseInv, LoopInv, Dispatching
<1>9. FreshCalls' BY <1>7, <1>8 DEF FreshCalls
<1>10. status \in [Hooks -> {"idle", "hooked", "unhooked"}]
  BY HolesParts DEF BaseInv, MapTypes
<1> HIDE DEF mid, slice
<1>11. OwnArrays'
  <2>1. \A u \in Targets : u # t => hooks[u].array # slice.array
    BY <1>2, <1>3, <1>5, AppendedIsOwn
  <2> QED BY <1>2, <1>3, <1>6, <2>1, OwnArraysStored
<1>12. /\ h \notin Attached(t)
       /\ Attached(t)' = Attached(t) \cup {h}
       /\ \A u \in Targets : u # t => Attached(u)' = Attached(u)
  BY <1>7, <1>8, <1>10 DEF Attached, NoCall
<1>13. MapShown'
  <2> SUFFICES ASSUME NEW u \in Targets PROVE Shows(arrays', hooks'[u], Attached(u)')
    BY <1>7 DEF MapShown
  <2>1. CASE u = t
    <3>1. hooks'[u] = slice BY <1>3, <1>6, <2>1, SliceFacts
    <3>2. Shows(arrays, s, Attached(t)) BY <1>2, <1>3 DEF MapShown
    <3> HIDE DEF s
    <3>3. Shows(mid, slice, Attached(t) \cup {h})
      BY <1>4, <1>5, <1>12, <3>2, ShowsAppended
    <3> QED BY <1>6, <1>12, <2>1, <3>1, <3>3
  <2>2. CASE u # t
    <3>1. hooks'[u] = hooks[u] BY <1>6, <2>2, SliceFacts
    <3>2. Shows(arrays, hooks[u], Attached(u)) BY <1>2 DEF MapShown
    <3>3. mid[hooks[u].array] = arrays[hooks[u].array]
      BY <1>2, <1>3, <1>5, <2>2, AppendedIsOwn
    <3> QED BY <1>6, <1>12, <2>2, <3>1, <3>2, <3>3, ShowsElsewhere
  <2> QED BY <2>1, <2>2
<1> QED BY <1>9, <1>11, <1>13

(* sortHooks, at the end of initMods, sorts what every target shows.       *)
LEMMA MapInitDone ==
  ASSUME BaseInv, MapInv, InitDone
  PROVE  MapInv'
<1> SUFFICES ASSUME Alone' PROVE (OwnArrays /\ FreshCalls /\ MapShown)'
  BY DEF MapInv
<1>1. Alone BY DEF Alone, InitDone, loopVars
<1>2. OwnArrays /\ FreshCalls /\ MapShown BY <1>1 DEF MapInv
<1>3. UNCHANGED <<hooks, status, call>> BY DEF InitDone
<1>4. \A t \in Targets : Attached(t)' = Attached(t) BY <1>3 DEF Attached
<1>5. OwnArrays' /\ FreshCalls' BY <1>2, <1>3 DEF OwnArrays, FreshCalls
<1>6. PICK order :
        /\ \A t \in Targets : order[t] \in Orders(arrays, hooks[t])
        /\ \A a \in 1..Len(arrays) : SortedAt(order, arrays', a)
  BY SortedArrays DEF BaseInv
<1>7. ASSUME NEW t \in Targets
      PROVE  Shows(arrays', hooks[t], Attached(t)) /\ Descends(arrays', hooks[t])
  <2>1. Shows(arrays, hooks[t], Attached(t)) BY <1>2 DEF MapShown
  <2>2. /\ arrays \in Heaps
        /\ hooks[t] \in SlicesOf(arrays)
        /\ SolidIn(arrays, hooks[t])
        /\ hooks[t].array \in 1..Len(arrays)
        /\ hooks[t].len \in Nat
    BY SliceFacts
  <2>3. CASE hooks[t].len = 0 BY <2>1, <2>3 DEF Shows, Descends
  <2>4. CASE hooks[t].len # 0
    <3>1. hooks[t].len > 0 BY <2>2, <2>4
    <3>2. hooks[t].array # 1 BY <2>2, <3>1 DEF SolidIn, BaseInv, LoopInv
    <3>3. PICK u \in Targets :
            /\ hooks[u].array = hooks[t].array
            /\ arrays'[hooks[t].array]
                 = Reordered(arrays, hooks[u], order[u])[hooks[t].array]
      BY <1>6, <2>2, <3>1 DEF SortedAt
    <3>4. u = t BY <1>2, <3>2, <3>3 DEF OwnArrays
    <3> DEFINE sorted == Reordered(arrays, hooks[t], order[t])
    <3>5. Shows(sorted, hooks[t], Attached(t)) /\ Descends(sorted, hooks[t])
      BY <1>6, <2>1, <2>2, ShowsReordered
    <3>6. arrays'[hooks[t].array] = sorted[hooks[t].array] BY <3>3, <3>4
    <3> HIDE DEF sorted
    <3> QED BY <3>5, <3>6, ShowsElsewhere
  <2> QED BY <2>3, <2>4
<1>8. MapShown' BY <1>3, <1>4, <1>7 DEF MapShown
<1> QED BY <1>5, <1>8

(* What a call that is in progress knows while it is alone.                *)
LEMMA CallAlone ==
  ASSUME BaseInv, MapInv, Alone, NEW p \in Packets, busy[p] # NoHook
  PROVE  /\ OwnArrays /\ FreshCalls /\ MapShown
         /\ initialized
         /\ stage[p] # "idle"
         /\ \A q \in Packets : q # p => call[q] = NoCall
         /\ status \in [Hooks -> {"idle", "hooked", "unhooked"}]
         /\ call \in [Packets -> Calls(arrays)]
<1>1. stage[p] # "idle" /\ initialized BY DEF BaseInv, LoopInv, Dispatching
<1>2. \A q \in Packets : q # p => call[q] = NoCall BY <1>1, OthersIdle DEF BaseInv
<1>3. /\ status \in [Hooks -> {"idle", "hooked", "unhooked"}]
      /\ call \in [Packets -> Calls(arrays)]
  BY HolesParts DEF BaseInv, MapTypes, AllSolid, CallSolid
<1> QED BY <1>1, <1>2, <1>3 DEF MapInv

LEMMA CallOfHandler ==
  ASSUME BaseInv, NEW p \in Packets, call[p] # NoCall
  PROVE  busy[p] # NoHook
  BY DEF BaseInv, LoopInv

(* A call that only loads its slice changes nothing that is attached.      *)
LEMMA LoadAttaches ==
  ASSUME BaseInv, MapInv, Alone, NEW p \in Packets, NEW h \in Hooks,
         HookLoad(p, h) \/ UnhookLoad(p, h)
  PROVE  \A t \in Targets : Attached(t)' = Attached(t)
<1>1. /\ \A q \in Packets : q # p => call[q] = NoCall
      /\ status \in [Hooks -> {"idle", "hooked", "unhooked"}]
      /\ call \in [Packets -> Calls(arrays)]
      /\ call[p] = NoCall
  BY CallAlone DEF HookLoad, UnhookLoad
<1>2. \A q \in Packets : q # p => call'[q] = NoCall
  BY <1>1 DEF HookLoad, UnhookLoad
<1>3. \A t \in Targets : Attached(t) = {g \in Hooks : status[g] = "hooked" /\ Target[g] = t}
  BY <1>1 DEF Attached, NoCall
<1>4. CASE HookLoad(p, h)
  <2>1. /\ status' = [status EXCEPT ![h] = "hooked"]
        /\ status[h] = "idle"
        /\ call'[p].kind = "insert"
        /\ call'[p].hook = h
    BY <1>1, <1>4 DEF HookLoad
  <2> QED BY <1>1, <1>2, <1>3, <2>1 DEF Attached, NoCall
<1>5. CASE UnhookLoad(p, h)
  <2>1. status' = status /\ call'[p].kind = "remove"
    BY <1>1, <1>5 DEF UnhookLoad, mapVars
  <2> QED BY <1>2, <1>3, <2>1 DEF Attached, NoCall
<1> QED BY <1>4, <1>5

LEMMA MapLoad ==
  ASSUME BaseInv, MapInv, [Next]_vars, NEW p \in Packets, NEW h \in Hooks,
         HookLoad(p, h) \/ UnhookLoad(p, h)
  PROVE  MapInv'
<1> SUFFICES ASSUME Alone' PROVE (OwnArrays /\ FreshCalls /\ MapShown)'
  BY DEF MapInv
<1>1. Alone BY AloneBefore
<1>2. /\ OwnArrays /\ FreshCalls /\ MapShown
      /\ \A q \in Packets : q # p => call[q] = NoCall
      /\ status \in [Hooks -> {"idle", "hooked", "unhooked"}]
      /\ call \in [Packets -> Calls(arrays)]
  BY <1>1, CallAlone DEF HookLoad, UnhookLoad
<1>3. UNCHANGED <<initialized, arrays, hooks>> BY DEF HookLoad, UnhookLoad, mapVars
<1>4. \A t \in Targets : Attached(t)' = Attached(t) BY <1>1, LoadAttaches
<1>5. OwnArrays' /\ MapShown' BY <1>2, <1>3, <1>4 DEF OwnArrays, MapShown
<1>6. FreshCalls'
  <2>1. \A q \in Packets : q # p => call'[q] = NoCall
    BY <1>2 DEF HookLoad, UnhookLoad
  <2>2. /\ call'[p].hook = h /\ call'[p].slice = hooks[Target[h]]
        /\ call'[p].kind = "insert" => status'[h] = "hooked"
    BY <1>2 DEF HookLoad, UnhookLoad
  <2> QED BY <1>3, <2>1, <2>2 DEF FreshCalls
<1> QED BY <1>5, <1>6

(* A call that returns leaves the other calls as they were: none.          *)
LEMMA NoCallsLeft ==
  ASSUME NEW p \in Packets, \A q \in Packets : q # p => call[q] = NoCall,
         call \in [Packets -> Calls(arrays)], call' = [call EXCEPT ![p] = NoCall]
  PROVE  \A q \in Packets : call'[q] = NoCall
  OBVIOUS

(* What is attached when no call is in progress, and when one is.          *)
LEMMA AttachedAlone ==
  ASSUME NEW p \in Packets, \A q \in Packets : q # p => call[q] = NoCall, NEW t
  PROVE  Attached(t) = {h \in Hooks : /\ status[h] = "hooked"
                                      /\ Target[h] = t
                                      /\ ~(call[p].kind = "insert" /\ call[p].hook = h)}
  BY DEF Attached, NoCall

LEMMA AttachedAfter ==
  ASSUME \A q \in Packets : call'[q] = NoCall, NEW t
  PROVE  Attached(t)' = {h \in Hooks : status'[h] = "hooked" /\ Target[h] = t}
  BY DEF Attached, NoCall

LEMMA MapHookStore ==
  ASSUME BaseInv, MapInv, [Next]_vars, NEW p \in Packets, HookStore(p)
  PROVE  MapInv'
<1> SUFFICES ASSUME Alone' PROVE (OwnArrays /\ FreshCalls /\ MapShown)'
  BY DEF MapInv
<1>0. PICK h : h = call[p].hook OBVIOUS
<1> DEFINE t == Target[h]
           s == hooks[t]
<1>1. call[p] # NoCall BY InACall DEF HookStore
<1>2. /\ OwnArrays /\ FreshCalls /\ MapShown
      /\ \A q \in Packets : q # p => call[q] = NoCall
      /\ call \in [Packets -> Calls(arrays)]
  BY <1>1, AloneBefore, CallAlone, CallOfHandler
<1>3. h \in Hooks /\ t \in Targets BY <1>0, <1>1, CallFacts DEF BaseInv
<1>4. call[p].slice = s /\ status[h] = "hooked" /\ call[p].kind = "insert"
  BY <1>0, <1>1, <1>2 DEF FreshCalls, HookStore
<1>5. PICK mid, slice, order :
           /\ AppendedAs(s, h, mid, slice)
           /\ order \in Orders(mid, slice)
           /\ arrays' = Reordered(mid, slice, order)
           /\ hooks' = [hooks EXCEPT ![t] = slice]
  BY <1>0, <1>4, StoreFacts DEF BaseInv
<1>6. arrays \in Heaps /\ s \in SlicesOf(arrays) /\ SolidIn(arrays, s) /\ s.len \in Nat
  BY <1>3, SliceFacts
<1>7. mid \in Heaps /\ slice \in SlicesOf(mid) /\ SolidIn(mid, slice) /\ Len(arrays) <= Len(mid)
  BY <1>5 DEF AppendedAs, Grows
<1>8. UNCHANGED <<initialized, status>> /\ call' = [call EXCEPT ![p] = NoCall]
  BY DEF HookStore
<1>9. \A q \in Packets : call'[q] = NoCall BY <1>2, <1>8, NoCallsLeft
<1>10. FreshCalls' BY <1>9 DEF FreshCalls
<1>11. OwnArrays'
  <2>1. \A u \in Targets : u # t => hooks[u].array # slice.array
    BY <1>2, <1>3, <1>5, AppendedIsOwn
  <2>2. hooks' = [hooks EXCEPT ![t] = slice] BY <1>5
  <2> HIDE DEF t
  <2> QED BY <1>2, <1>3, <2>1, <2>2, OwnArraysStored
<1>12. /\ h \notin Attached(t)
       /\ Attached(t)' = Attached(t) \cup {h}
       /\ \A u \in Targets : u # t => Attached(u)' = Attached(u)
  <2>1. \A u : /\ Attached(u) = {g \in Hooks : status[g] = "hooked" /\ Target[g] = u /\ g # h}
               /\ Attached(u)' = {g \in Hooks : status[g] = "hooked" /\ Target[g] = u}
    BY <1>0, <1>2, <1>4, <1>8, <1>9, AttachedAlone, AttachedAfter
  <2> QED BY <1>3, <1>4, <2>1
<1> HIDE DEF t, s
<1>13. MapShown'
  <2> SUFFICES ASSUME NEW u \in Targets
               PROVE  Shows(arrays', hooks'[u], Attached(u)') /\ Descends(arrays', hooks'[u])
    BY DEF MapShown
  <2>1. CASE u = t
    <3>1. hooks'[u] = slice BY <1>3, <1>5, <2>1, SliceFacts
    <3>2. Shows(arrays, s, Attached(t)) BY <1>2, <1>3 DEF MapShown, s
    <3>3. Shows(mid, slice, Attached(t) \cup {h})
      BY <1>5, <1>6, <1>12, <3>2, ShowsAppended
    <3>4. Shows(arrays', slice, Attached(t) \cup {h}) /\ Descends(arrays', slice)
      BY <1>5, <1>7, <3>3, ShowsReordered
    <3> QED BY <1>12, <2>1, <3>1, <3>4
  <2>2. CASE u # t
    <3>1. hooks'[u] = hooks[u] BY <1>5, <2>2, SliceFacts
    <3>2. initialized
      BY <1>1, AloneBefore, CallAlone, CallOfHandler
    <3>3. Shows(arrays, hooks[u], Attached(u)) /\ Descends(arrays, hooks[u])
      BY <1>2, <3>2 DEF MapShown
    <3>4. mid[hooks[u].array] = arrays[hooks[u].array] /\ hooks[u].array # slice.array
      BY <1>2, <1>3, <1>5, <2>2, AppendedIsOwn DEF s
    <3>5. hooks[u].array \in 1..Len(mid)
      <4>1. hooks[u].array \in 1..Len(arrays) /\ Len(arrays) \in Nat BY SliceFacts
      <4>2. Len(mid) \in Nat BY <1>7, HeapFacts
      <4> QED BY <1>7, <4>1, <4>2
    <3>6. arrays'[hooks[u].array] = mid[hooks[u].array]
      BY <1>5, <1>7, <3>4, <3>5, ReorderedFacts
    <3>7. arrays'[hooks[u].array] = arrays[hooks[u].array] BY <3>4, <3>6
    <3>8. Attached(u)' = Attached(u) BY <1>12, <2>2
    <3> QED BY <3>1, <3>3, <3>7, <3>8, ShowsElsewhere
  <2> QED BY <2>1, <2>2
<1> QED BY <1>10, <1>11, <1>13

LEMMA MapUnhookStore ==
  ASSUME BaseInv, MapInv, [Next]_vars, NEW p \in Packets, UnhookStore(p)
  PROVE  MapInv'
<1> SUFFICES ASSUME Alone' PROVE (OwnArrays /\ FreshCalls /\ MapShown)'
  BY DEF MapInv
<1>0. PICK h : h = call[p].hook OBVIOUS
<1> DEFINE t == Target[h]
           s == hooks[t]
<1>1. call[p] # NoCall BY InACall DEF UnhookStore
<1>2. /\ OwnArrays /\ FreshCalls /\ MapShown /\ initialized
      /\ \A q \in Packets : q # p => call[q] = NoCall
      /\ status \in [Hooks -> {"idle", "hooked", "unhooked"}]
      /\ call \in [Packets -> Calls(arrays)]
  BY <1>1, AloneBefore, CallAlone, CallOfHandler
<1>3. h \in Hooks /\ t \in Targets BY <1>0, <1>1, CallFacts DEF BaseInv
<1>4. call[p].slice = s /\ call[p].kind = "remove"
  BY <1>0, <1>1, <1>2 DEF FreshCalls, UnhookStore
<1>5. PICK i \in 1..s.len : \E shorter :
           /\ arrays[s.array][i] = h
           /\ arrays' = Removed(s, i)
           /\ shorter.array = s.array
           /\ shorter.len = s.len - 1
           /\ hooks' = [hooks EXCEPT ![t] = shorter]
  BY <1>0, <1>4, RemoveFacts DEF BaseInv
<1>6. PICK shorter :
           /\ arrays[s.array][i] = h
           /\ arrays' = Removed(s, i)
           /\ shorter.array = s.array
           /\ shorter.len = s.len - 1
           /\ hooks' = [hooks EXCEPT ![t] = shorter]
  BY <1>5
<1>7. /\ arrays \in Heaps /\ s \in SlicesOf(arrays) /\ SolidIn(arrays, s) /\ s.len \in Nat
      /\ s.array \in 1..Len(arrays)
  BY <1>3, SliceFacts
<1>8. /\ initialized' = initialized
      /\ call' = [call EXCEPT ![p] = NoCall]
      /\ status' = [status EXCEPT ![h] = "unhooked"]
  BY <1>0 DEF UnhookStore
<1>9. \A q \in Packets : call'[q] = NoCall BY <1>2, <1>8, NoCallsLeft
<1>10. FreshCalls' BY <1>9 DEF FreshCalls
<1>11. OwnArrays' BY <1>2, <1>3, <1>6, OwnArraysStored
<1>12. /\ Attached(t)' = Attached(t) \ {h}
       /\ \A u \in Targets : u # t => Attached(u)' = Attached(u)
  <2>1. \A u : /\ Attached(u) = {g \in Hooks : status[g] = "hooked" /\ Target[g] = u}
               /\ Attached(u)' = {g \in Hooks : status'[g] = "hooked" /\ Target[g] = u}
    BY <1>2, <1>4, <1>9, AttachedAlone, AttachedAfter
  <2>2. \A g \in Hooks : status'[g] = IF g = h THEN "unhooked" ELSE status[g]
    BY <1>2, <1>3, <1>8
  <2> QED BY <1>3, <2>1, <2>2
<1> HIDE DEF t, s
<1>13. s.array # 1
  <2>1. s.len > 0 BY <1>7
  <2> QED BY <1>7, <2>1 DEF SolidIn, BaseInv, LoopInv
<1>14. MapShown'
  <2> SUFFICES ASSUME NEW u \in Targets
               PROVE  Shows(arrays', hooks'[u], Attached(u)') /\ Descends(arrays', hooks'[u])
    BY DEF MapShown
  <2>1. CASE u = t
    <3>1. hooks'[u] = shorter BY <1>3, <1>6, <2>1, SliceFacts
    <3>2. Shows(arrays, s, Attached(t)) /\ Descends(arrays, s)
      BY <1>2, <1>3 DEF MapShown, s
    <3>3. Shows(arrays', shorter, Attached(t) \ {h}) /\ Descends(arrays', shorter)
      BY <1>6, <1>7, <3>2, ShowsRemoved
    <3> QED BY <1>12, <2>1, <3>1, <3>3
  <2>2. CASE u # t
    <3>1. hooks'[u] = hooks[u] BY <1>6, <2>2, SliceFacts
    <3>2. Shows(arrays, hooks[u], Attached(u)) /\ Descends(arrays, hooks[u])
      BY <1>2 DEF MapShown
    <3>3. hooks[u].array # s.array BY <1>2, <1>3, <1>13, <2>2 DEF OwnArrays, s
    <3>4. hooks[u].array \in 1..Len(arrays) BY SliceFacts
    <3>5. arrays'[hooks[u].array] = arrays[hooks[u].array]
      BY <1>6, <1>7, <3>3, <3>4, RemovedFacts
    <3>6. Attached(u)' = Attached(u) BY <1>12, <2>2
    <3> QED BY <3>1, <3>2, <3>5, <3>6, ShowsElsewhere
  <2> QED BY <2>1, <2>2
<1> QED BY <1>10, <1>11, <1>14

(* A hook that is not found was not attached.                              *)
LEMMA MapUnhookNotFound ==
  ASSUME BaseInv, MapInv, [Next]_vars, NEW p \in Packets, UnhookNotFound(p)
  PROVE  MapInv'
<1> SUFFICES ASSUME Alone' PROVE (OwnArrays /\ FreshCalls /\ MapShown)'
  BY DEF MapInv
<1> DEFINE h == call[p].hook
           t == Target[h]
<1>1. call[p] # NoCall BY InACall DEF UnhookNotFound
<1>2. /\ OwnArrays /\ FreshCalls /\ MapShown
      /\ \A q \in Packets : q # p => call[q] = NoCall
      /\ status \in [Hooks -> {"idle", "hooked", "unhooked"}]
      /\ call \in [Packets -> Calls(arrays)]
  BY <1>1, AloneBefore, CallAlone, CallOfHandler
<1>3. h \in Hooks /\ t \in Targets BY <1>1, CallFacts DEF BaseInv
<1>4. call[p].slice = hooks[t] /\ call[p].kind = "remove"
  BY <1>1, <1>2 DEF FreshCalls, UnhookNotFound
<1>5. UNCHANGED <<initialized, arrays, hooks>>
  BY DEF UnhookNotFound
<1>6. /\ call' = [call EXCEPT ![p] = NoCall]
      /\ status' = [status EXCEPT ![h] = "unhooked"]
  BY DEF UnhookNotFound
<1>7. \A q \in Packets : call'[q] = NoCall BY <1>2, <1>6, NoCallsLeft
<1>8. h \notin Attached(t)
  <2>1. Found(hooks[t], h) = {} BY <1>4 DEF UnhookNotFound
  <2> QED BY <1>2, <1>3, <2>1 DEF MapShown, Shows, Found
<1>9. \A u \in Targets : Attached(u)' = Attached(u)
  <2>1. \A u : /\ Attached(u) = {g \in Hooks : status[g] = "hooked" /\ Target[g] = u}
               /\ Attached(u)' = {g \in Hooks : status'[g] = "hooked" /\ Target[g] = u}
    BY <1>2, <1>4, <1>7, AttachedAlone, AttachedAfter
  <2>2. \A g \in Hooks : status'[g] = IF g = h THEN "unhooked" ELSE status[g]
    BY <1>2, <1>3, <1>6
  <2>3. status[h] # "hooked" BY <1>3, <1>8, <2>1
  <2> QED BY <2>1, <2>2, <2>3
<1>10. FreshCalls' BY <1>7 DEF FreshCalls
<1>11. OwnArrays' /\ MapShown' BY <1>2, <1>5, <1>9 DEF OwnArrays, MapShown
<1> QED BY <1>10, <1>11

LEMMA MapNext ==
  ASSUME BaseInv, MapInv, [Next]_vars
  PROVE  MapInv'
<1>1. ASSUME NEW p \in Packets, PacketStep(p) PROVE MapInv'
  <2>1. UNCHANGED <<initialized, arrays, hooks, status, call>>
    BY <1>1 DEF PacketStep, Dispatch, CallHook, HandlerReturn, HandlerPanic, NextLoop,
                DispatchDone, mapVars
  <2> QED BY <2>1, MapFrame
<1>2. ASSUME NEW p \in Packets, CallStep(p) PROVE MapInv'
  <2>1. ASSUME NEW q \in Packets, MapFault(p, q) PROVE MapInv'
    BY <2>1, MapFrame DEF MapFault
  <2> QED BY <1>2, <2>1, MapLoad, MapHookStore, MapUnhookStore, MapUnhookNotFound DEF CallStep
<1>3. CASE UNCHANGED vars BY <1>3, MapFrame DEF vars, mapVars
<1> QED BY <1>1, <1>2, <1>3, MapInitHook, MapInitDone DEF Next

LEMMA ExactHolds == BaseInv /\ MapInv => MapExact
<1> SUFFICES ASSUME BaseInv, MapInv, Alone, \A p \in Packets : call[p] = NoCall,
                    NEW t \in Targets
             PROVE  LET cells == Cells(hooks[t]) IN
      /\ {cells[i] : i \in DOMAIN cells} = {h \in Hooks : status[h] = "hooked" /\ Target[h] = t}
      /\ \A i, j \in DOMAIN cells : i < j =>
           /\ cells[i] # cells[j]
           /\ initialized => Priority[cells[i]] >= Priority[cells[j]]
  BY DEF MapExact
<1> DEFINE s == hooks[t]
           cells == Cells(s)
<1>1. Shows(arrays, s, Attached(t)) /\ (initialized => Descends(arrays, s))
  BY DEF MapInv, MapShown
<1>2. Attached(t) = {h \in Hooks : status[h] = "hooked" /\ Target[h] = t}
  BY DEF Attached, NoCall
<1>3. s.len \in Nat BY SliceFacts
<1> HIDE DEF s
<1>4. DOMAIN cells = 1..s.len /\ \A i \in 1..s.len : cells[i] = arrays[s.array][i]
  BY DEF Cells
<1> HIDE DEF cells
<1>5. {cells[i] : i \in DOMAIN cells} = Attached(t)
  <2>1. ASSUME NEW i \in 1..s.len PROVE cells[i] \in Attached(t)
    BY <1>1, <1>4 DEF Shows
  <2>2. ASSUME NEW h \in Attached(t) PROVE \E i \in 1..s.len : cells[i] = h
    BY <1>1, <1>4 DEF Shows
  <2> QED BY <1>4, <2>1, <2>2
<1>6. ASSUME NEW i \in 1..s.len, NEW j \in 1..s.len, i < j
      PROVE  /\ cells[i] # cells[j]
             /\ initialized => Priority[cells[i]] >= Priority[cells[j]]
  <2>1. i # j BY <1>3, <1>6
  <2> QED BY <1>1, <1>4, <1>6, <2>1 DEF Shows, Descends
<1> QED BY <1>2, <1>4, <1>5, <1>6 DEF cells, s

(* While one packet at a time is at the hooks, the map holds, between the  *)
(* calls of Hook and Unhook, exactly the hooks that were hooked and not    *)
(* unhooked since, each once, and sorted when initMods is through: what    *)
(* insertHook, removeHook and sortHooks have to achieve together, on       *)
(* arrays that slices share.                                               *)
THEOREM MapStaysExact == Spec => []MapExact
<1>1. Init => BaseInv /\ MapInv BY BaseInit, MapInit
<1>2. BaseInv /\ MapInv /\ [Next]_vars => (BaseInv /\ MapInv)' BY BaseNext, MapNext
<1>3. BaseInv /\ MapInv => MapExact BY ExactHolds
<1> QED BY <1>1, <1>2, <1>3, PTL DEF Spec

----------------------------------------------------------------------------
(* The calls of a dispatch that nobody interfered with                     *)

(* seq are the first m hooks of slice w and then the first n of slice o.   *)
WentThrough(heap, w, o, m, n, seq) ==
  /\ Len(seq) = m + n
  /\ \A i \in 1..m : seq[i] = heap[w.array][i]
  /\ \A i \in 1..n : seq[m + i] = heap[o.array][i]

(* The loops of p run over what the map holds, and the calls are what they *)
(* have passed.                                                            *)
Tracks(p) ==
  /\ attached[p] = Attached(Wild) \cup Attached(op[p])
  /\ stage[p] = "wild" =>
       /\ range[p] = hooks[Wild]
       /\ next[p] <= range[p].len + 1
       /\ WentThrough(arrays, hooks[Wild], hooks[op[p]], next[p] - 1, 0, called[p])
  /\ stage[p] = "op" =>
       /\ range[p] = hooks[op[p]]
       /\ next[p] <= range[p].len + 1
       /\ WentThrough(arrays, hooks[Wild], hooks[op[p]], hooks[Wild].len, next[p] - 1, called[p])
  /\ stage[p] = "done" =>
       WentThrough(arrays, hooks[Wild], hooks[op[p]], hooks[Wild].len, hooks[op[p]].len,
                   called[p])

CalledInv ==
  Alone => \A p \in Packets : stage[p] # "idle" /\ changes[p] = {} => Tracks(p)

LEMMA WentOn ==
  ASSUME NEW heap, NEW w, NEW o, NEW m \in Nat, NEW n \in Nat, NEW seq \in Seq(Cell),
         WentThrough(heap, w, o, m, n, seq), NEW h \in Cell
  PROVE  /\ n = 0 /\ h = heap[w.array][m + 1]
              => WentThrough(heap, w, o, m + 1, 0, Append(seq, h))
         /\ h = heap[o.array][n + 1]
              => WentThrough(heap, w, o, m, n + 1, Append(seq, h))
<1> DEFINE more == Append(seq, h)
<1>1. /\ Len(more) = Len(seq) + 1
      /\ \A i \in 1..Len(seq) : more[i] = seq[i]
      /\ more[Len(seq) + 1] = h
  BY AppendProperties
<1> HIDE DEF more
<1>2. ASSUME n = 0, h = heap[w.array][m + 1] PROVE WentThrough(heap, w, o, m + 1, 0, more)
  <2>1. Len(seq) = m BY <1>2 DEF WentThrough
  <2>2. \A i \in 1..(m + 1) : i \in 1..m \/ i = m + 1 OBVIOUS
  <2>3. \A i \in 1..m : more[i] = heap[w.array][i] BY <1>1, <2>1 DEF WentThrough
  <2>4. more[m + 1] = heap[w.array][m + 1] BY <1>1, <1>2, <2>1
  <2>5. Len(more) = m + 1 + 0 BY <1>1, <2>1
  <2> QED BY <2>2, <2>3, <2>4, <2>5 DEF WentThrough
<1>3. ASSUME h = heap[o.array][n + 1] PROVE WentThrough(heap, w, o, m, n + 1, more)
  <2>1. Len(seq) = m + n BY DEF WentThrough
  <2>2. \A i \in 1..(n + 1) : (i \in 1..n /\ m + i \in 1..Len(seq)) \/ i = n + 1 BY <2>1
  <2>3. \A i \in 1..m : i \in 1..Len(seq) BY <2>1
  <2>4. \A i \in 1..m : more[i] = heap[w.array][i] BY <1>1, <2>3 DEF WentThrough
  <2>5. more[m + (n + 1)] = heap[o.array][n + 1] BY <1>1, <1>3, <2>1
  <2>6. \A i \in 1..(n + 1) : more[m + i] = heap[o.array][i]
    BY <1>1, <2>2, <2>5 DEF WentThrough
  <2>7. Len(more) = m + (n + 1) BY <1>1, <2>1
  <2> QED BY <2>4, <2>6, <2>7 DEF WentThrough
<1> QED BY <1>2, <1>3 DEF more

(* While a packet is alone it is the only one that has begun.              *)
LEMMA OnlyActor ==
  ASSUME BaseInv, [Next]_vars, Alone', NEW p \in Packets, PacketStep(p) \/ CallStep(p)
  PROVE  stage'[p] # "idle" /\ \A q \in Packets : q # p => stage'[q] = "idle"
<1>1. LoopTypes BY HolesParts DEF BaseInv
<1>2. stage'[p] # "idle"
  <2>1. CASE PacketStep(p)
    <3>1. busy[p] # NoHook => stage[p] # "idle" BY DEF BaseInv, LoopInv, Dispatching
    <3> QED BY <2>1, <3>1, <1>1 DEF PacketStep, Dispatch, CallHook, HandlerReturn, HandlerPanic,
                                    NextLoop, DispatchDone, StartLoop, LoopTypes, Dispatching
  <2>2. CASE CallStep(p)
    <3>1. busy[p] # NoHook
      BY <2>2, InACall DEF CallStep, HookLoad, UnhookLoad, HookStore, UnhookStore, UnhookNotFound,
                           MapFault, BaseInv, LoopInv
    <3>2. UNCHANGED stage
      BY <2>2 DEF CallStep, HookLoad, UnhookLoad, HookStore, UnhookStore, UnhookNotFound,
                  MapFault, loopVars
    <3> QED BY <3>1, <3>2 DEF BaseInv, LoopInv, Dispatching
  <2> QED BY <2>1, <2>2
<1> QED BY <1>2 DEF Alone

LEMMA CalledInit == Init => CalledInv
  BY DEF Init, CalledInv

LEMMA CalledFrame ==
  ASSUME BaseInv, CalledInv, [Next]_vars,
         UNCHANGED <<arrays, hooks, op, stage, range, next, called, attached, changes>>,
         Alone => \A t \in Targets : Attached(t)' = Attached(t)
  PROVE  CalledInv'
<1> SUFFICES ASSUME Alone', NEW p \in Packets, stage'[p] # "idle", changes'[p] = {}
             PROVE  Tracks(p)'
  BY DEF CalledInv
<1>1. Alone /\ Tracks(p) BY AloneBefore DEF CalledInv
<1>2. op[p] \in Ops BY HolesParts DEF BaseInv, LoopTypes
<1>3. \A o : o = op[p] => Attached(o)' = Attached(o) BY <1>1, <1>2 DEF Targets
<1>4. Attached(op[p])' = Attached(op[p])
  <2>1. PICK o : o = op[p] OBVIOUS
  <2>2. o = op'[p] BY <2>1
  <2> QED BY <1>3, <2>1, <2>2
<1>5. Attached(Wild)' = Attached(Wild) BY <1>1 DEF Targets
<1> QED BY <1>1, <1>4, <1>5 DEF Tracks

(* A step of the only packet concerns that packet alone.                   *)
LEMMA CalledOfActor ==
  ASSUME BaseInv, [Next]_vars, NEW p \in Packets, PacketStep(p),
         Alone /\ Alone' /\ changes'[p] = {} => Tracks(p)'
  PROVE  CalledInv'
<1> SUFFICES ASSUME Alone', NEW q \in Packets, stage'[q] # "idle", changes'[q] = {}
             PROVE  Tracks(q)'
  BY DEF CalledInv
<1>1. q = p BY OnlyActor
<1>2. Alone BY AloneBefore
<1> QED BY <1>1, <1>2

(* What is attached stays the same while the loops go on.                  *)
LEMMA PacketAttaches ==
  ASSUME NEW p, PacketStep(p)
  PROVE  /\ UNCHANGED <<initialized, arrays, hooks, status, call>>
         /\ \A t : Attached(t)' = Attached(t)
<1>1. UNCHANGED <<initialized, arrays, hooks, status, call>>
  BY DEF PacketStep, Dispatch, CallHook, HandlerReturn, HandlerPanic, NextLoop, DispatchDone,
         mapVars
<1> QED BY <1>1 DEF Attached

LEMMA CalledDispatch ==
  ASSUME BaseInv, [Next]_vars, NEW p \in Packets, NEW o \in Ops, Dispatch(p, o)
  PROVE  CalledInv'
<1> SUFFICES ASSUME Alone, Alone' PROVE Tracks(p)'
  BY CalledOfActor DEF PacketStep
<1>1. LoopTypes /\ HistoryTypes /\ AllSolid(arrays, hooks, range, call)
  BY HolesParts DEF BaseInv
<1>2. \A q \in Packets : call[q] = NoCall
  <2>1. stage'[p] # "idle" /\ \A q \in Packets : q # p => stage'[q] = "idle"
    BY OnlyActor DEF PacketStep
  <2>2. \A q \in Packets : q # p => stage[q] = "idle"
    BY <1>1, <2>1 DEF Dispatch, StartLoop, LoopTypes
  <2> QED BY <2>2 DEF BaseInv, LoopInv, Dispatching, Dispatch
<1>3. /\ UNCHANGED <<arrays, hooks>>
      /\ \A t : Attached(t)' = Attached(t)
  BY PacketAttaches DEF PacketStep
<1>4. /\ op'[p] = o
      /\ stage'[p] = "wild"
      /\ range'[p] = hooks[Wild]
      /\ next'[p] = 1
      /\ called'[p] = <<>>
      /\ attached'[p] = {h \in Hooks : status[h] = "hooked" /\ Target[h] \in {Wild, o}}
  BY <1>1 DEF Dispatch, StartLoop, LoopTypes, HistoryTypes, AllSolid, RangeSolid
<1>5. attached'[p] = Attached(Wild) \cup Attached(o)
  <2>1. \A t : Attached(t) = {h \in Hooks : status[h] = "hooked" /\ Target[h] = t}
    BY <1>2 DEF Attached, NoCall
  <2> QED BY <1>4, <2>1
<1>6. attached'[p] = Attached(Wild)' \cup Attached(o)' BY <1>3, <1>5
<1>7. hooks[Wild].len \in Nat BY SliceFacts DEF Targets
<1>8. WentThrough(arrays, hooks[Wild], hooks[o], 0, 0, <<>>) BY DEF WentThrough
<1>9. (attached[p] = Attached(Wild) \cup Attached(op[p]))' BY <1>4, <1>6
<1> QED BY <1>3, <1>4, <1>7, <1>8, <1>9 DEF Tracks

LEMMA CalledCallHook ==
  ASSUME BaseInv, CalledInv, [Next]_vars, NEW p \in Packets, CallHook(p)
  PROVE  CalledInv'
<1> SUFFICES ASSUME Alone, Alone', changes'[p] = {} PROVE Tracks(p)'
  BY CalledOfActor DEF PacketStep
<1> DEFINE h == arrays[range[p].array][next[p]]
           w == hooks[Wild]
           o == hooks[op[p]]
<1>1. LoopTypes /\ AllSolid(arrays, hooks, range, call) BY HolesParts DEF BaseInv
<1>2. Tracks(p) BY DEF CalledInv, CallHook, Dispatching
<1>3. h \in Hooks /\ next[p] \in 1..range[p].len /\ called' = [called EXCEPT ![p] = Append(@, h)]
  BY CalledIsHook DEF BaseInv
<1>4. /\ UNCHANGED <<arrays, hooks>>
      /\ \A t : Attached(t)' = Attached(t)
  BY PacketAttaches DEF PacketStep
<1>5. UNCHANGED <<op, stage, range, attached>> /\ next'[p] = next[p] + 1
  BY <1>1 DEF CallHook, LoopTypes
<1>6. called'[p] = Append(called[p], h) /\ called[p] \in Seq(Cell)
  BY <1>1, <1>3 DEF LoopTypes
<1>7. /\ w.len \in Nat /\ range[p].len \in Nat /\ next[p] \in Nat \ {0}
  BY <1>1, SliceFacts DEF Targets, AllSolid, RangeSolid, SlicesOf, LoopTypes
<1>8. (attached[p] = Attached(Wild) \cup Attached(op[p]))'
  <2>1. PICK t : t = op[p] OBVIOUS
  <2>2. attached[p] = Attached(Wild) \cup Attached(t) BY <1>2, <2>1 DEF Tracks
  <2>3. attached'[p] = Attached(Wild)' \cup Attached(t)' BY <1>4, <1>5, <2>2
  <2> QED BY <1>5, <2>1, <2>3
<1>9. next'[p] - 1 = (next[p] - 1) + 1 /\ next[p] - 1 \in Nat /\ next'[p] <= range[p].len + 1
  BY <1>3, <1>5, <1>7
<1>10. CASE stage[p] = "wild"
  <2>1. WentThrough(arrays, w, o, next[p] - 1, 0, called[p]) /\ range[p] = w
    BY <1>2, <1>10 DEF Tracks
  <2>2. h = arrays[w.array][(next[p] - 1) + 1] BY <1>7, <2>1
  <2> HIDE DEF h, w, o
  <2>3. WentThrough(arrays, w, o, (next[p] - 1) + 1, 0, Append(called[p], h))
    BY <1>3, <1>6, <1>9, <2>1, <2>2, WentOn DEF Cell
  <2>4. WentThrough(arrays, w, o, next'[p] - 1, 0, called'[p])
    BY <1>6, <1>9, <2>3
  <2>5. range'[p] = w BY <1>5, <2>1
  <2> QED BY <1>4, <1>5, <1>8, <1>9, <1>10, <2>4, <2>5 DEF Tracks, w, o
<1>11. CASE stage[p] = "op"
  <2>1. WentThrough(arrays, w, o, w.len, next[p] - 1, called[p]) /\ range[p] = o
    BY <1>2, <1>11 DEF Tracks
  <2>2. h = arrays[o.array][(next[p] - 1) + 1] BY <1>7, <2>1
  <2> HIDE DEF h, w, o
  <2>3. WentThrough(arrays, w, o, w.len, (next[p] - 1) + 1, Append(called[p], h))
    BY <1>3, <1>6, <1>7, <1>9, <2>1, <2>2, WentOn DEF Cell
  <2>4. WentThrough(arrays, w, o, w.len, next'[p] - 1, called'[p])
    BY <1>6, <1>9, <2>3
  <2>5. range'[p] = o BY <1>5, <2>1
  <2> QED BY <1>4, <1>5, <1>8, <1>9, <1>11, <2>4, <2>5 DEF Tracks, w, o
<1> QED BY <1>10, <1>11 DEF CallHook, Dispatching

LEMMA CalledHandler ==
  ASSUME BaseInv, CalledInv, [Next]_vars, NEW p \in Packets, HandlerReturn(p) \/ HandlerPanic(p)
  PROVE  CalledInv'
<1>1. UNCHANGED <<op, stage, range, next, called, attached, changes>>
  BY DEF HandlerReturn, HandlerPanic
<1> QED BY <1>1, PacketAttaches, CalledFrame DEF PacketStep

(* A loop that is over has passed the whole of its slice.                  *)
LEMMA LoopOver ==
  ASSUME BaseInv, NEW p \in Packets, LoopDone(p), next[p] <= range[p].len + 1
  PROVE  next[p] - 1 = range[p].len
<1>1. range[p].len \in Nat /\ next[p] \in Nat
  BY HolesParts DEF BaseInv, AllSolid, RangeSolid, SlicesOf, LoopTypes
<1> QED BY <1>1 DEF LoopDone

LEMMA CalledNextLoop ==
  ASSUME BaseInv, CalledInv, [Next]_vars, NEW p \in Packets, NextLoop(p) \/ DispatchDone(p)
  PROVE  CalledInv'
<1> SUFFICES ASSUME Alone, Alone', changes'[p] = {} PROVE Tracks(p)'
  BY CalledOfActor DEF PacketStep
<1> DEFINE w == hooks[Wild]
           o == hooks[op[p]]
<1>1. LoopTypes /\ AllSolid(arrays, hooks, range, call) BY HolesParts DEF BaseInv
<1>2. Tracks(p) BY DEF CalledInv, NextLoop, DispatchDone
<1>3. /\ UNCHANGED <<arrays, hooks, op, called, attached>>
      /\ \A t : Attached(t)' = Attached(t)
  BY PacketAttaches DEF PacketStep, NextLoop, DispatchDone
<1>4. (attached[p] = Attached(Wild) \cup Attached(op[p]))'
  <2>1. PICK t : t = op[p] OBVIOUS
  <2>2. attached[p] = Attached(Wild) \cup Attached(t) BY <1>2, <2>1 DEF Tracks
  <2>3. attached'[p] = Attached(Wild)' \cup Attached(t)' BY <1>3, <2>2
  <2> QED BY <1>3, <2>1, <2>3
<1>5. CASE NextLoop(p)
  <2>1. /\ WentThrough(arrays, w, o, next[p] - 1, 0, called[p]) /\ range[p] = w
        /\ next[p] <= range[p].len + 1
    BY <1>2, <1>5 DEF Tracks, NextLoop
  <2>2. next[p] - 1 = w.len BY <1>5, <2>1, LoopOver DEF NextLoop
  <2>3. stage'[p] = "op" /\ range'[p] = o /\ next'[p] = 1
    BY <1>1, <1>5 DEF NextLoop, StartLoop, LoopTypes, AllSolid, RangeSolid
  <2>4. o.len \in Nat BY <1>1, SliceFacts DEF LoopTypes, Targets
  <2>5. WentThrough(arrays, w, o, w.len, next'[p] - 1, called[p])
    BY <2>1, <2>2, <2>3
  <2> QED BY <1>3, <1>4, <2>3, <2>4, <2>5 DEF Tracks
<1>6. CASE DispatchDone(p)
  <2>1. /\ WentThrough(arrays, w, o, w.len, next[p] - 1, called[p]) /\ range[p] = o
        /\ next[p] <= range[p].len + 1
    BY <1>2, <1>6 DEF Tracks, DispatchDone
  <2>2. next[p] - 1 = o.len BY <1>6, <2>1, LoopOver DEF DispatchDone
  <2>3. stage'[p] = "done" BY <1>1, <1>6 DEF DispatchDone, LoopTypes
  <2>4. WentThrough(arrays, w, o, w.len, o.len, called[p]) BY <2>1, <2>2
  <2> QED BY <1>3, <1>4, <2>3, <2>4 DEF Tracks
<1> QED BY <1>5, <1>6

(* A call that stores something is an interference.                        *)
LEMMA CalledStore ==
  ASSUME BaseInv, [Next]_vars, NEW p \in Packets,
         HookStore(p) \/ UnhookStore(p) \/ UnhookNotFound(p)
  PROVE  CalledInv'
<1> SUFFICES ASSUME Alone', NEW q \in Packets, stage'[q] # "idle", changes'[q] = {}
             PROVE  FALSE
  BY DEF CalledInv
<1>1. q = p BY OnlyActor DEF CallStep
<1>2. Dispatching(p)
  BY InACall DEF BaseInv, LoopInv, HookStore, UnhookStore, UnhookNotFound
<1>3. PICK kind \in {"insert", "remove", "none"} : \E lost : Record(kind, lost)
  <2>1. CASE HookStore(p) BY <2>1 DEF HookStore
  <2>2. CASE UnhookStore(p) BY <2>2 DEF UnhookStore
  <2>3. CASE UnhookNotFound(p) BY <2>3 DEF UnhookNotFound
  <2> QED BY <2>1, <2>2, <2>3
<1>4. kind \in changes'[p] BY <1>2, <1>3 DEF Record
<1> QED BY <1>1, <1>4

LEMMA CalledNext ==
  ASSUME BaseInv, MapInv, CalledInv, [Next]_vars
  PROVE  CalledInv'
<1>1. CASE (\E h \in Hooks : InitHook(h)) \/ InitDone
  <2>1. \A q \in Packets : stage'[q] = "idle"
    BY <1>1 DEF InitHook, InitDone, loopVars, BaseInv, LoopInv
  <2> QED BY <2>1 DEF CalledInv
<1>2. ASSUME NEW p \in Packets, PacketStep(p) PROVE CalledInv'
  BY <1>2, CalledDispatch, CalledCallHook, CalledHandler, CalledNextLoop DEF PacketStep
<1>3. ASSUME NEW p \in Packets, NEW h \in Hooks, HookLoad(p, h) \/ UnhookLoad(p, h)
      PROVE  CalledInv'
  <2>1. Alone => \A t \in Targets : Attached(t)' = Attached(t) BY <1>3, LoadAttaches
  <2>2. UNCHANGED <<arrays, hooks, op, stage, range, next, called, attached, changes>>
    BY <1>3 DEF HookLoad, UnhookLoad, mapVars, loopVars
  <2> QED BY <2>1, <2>2, CalledFrame
<1>4. CASE UNCHANGED vars \/ \E p, q \in Packets : MapFault(p, q)
  <2>1. UNCHANGED <<arrays, hooks, op, stage, range, next, called, attached, changes, status, call>>
    BY <1>4 DEF MapFault, vars, mapVars, loopVars
  <2>2. \A t : Attached(t)' = Attached(t) BY <2>1 DEF Attached
  <2> QED BY <2>1, <2>2, CalledFrame
<1>5. ASSUME NEW p \in Packets, CallStep(p) PROVE CalledInv'
  BY <1>3, <1>4, <1>5, CalledStore DEF CallStep
<1> QED BY <1>1, <1>2, <1>4, <1>5 DEF Next

(* The calls of a dispatch that is done are the hooks of two slices that   *)
(* have no hook in common.                                                 *)
LEMMA OnceHolds == BaseInv /\ MapInv /\ CalledInv => CallsEveryHookOnce
<1> SUFFICES ASSUME BaseInv, MapInv, CalledInv,
                    NEW p \in Packets, Alone, stage[p] = "done", changes[p] = {}
             PROVE  /\ {called[p][i] : i \in DOMAIN called[p]} = attached[p]
                    /\ Len(called[p]) = Cardinality(attached[p])
  BY DEF CallsEveryHookOnce
<1> DEFINE w == hooks[Wild]
           o == hooks[op[p]]
           W == Attached(Wild)
           O == Attached(op[p])
           seq == called[p]
           N == w.len + o.len
<1>1. LoopTypes BY HolesParts DEF BaseInv
<1>2. op[p] \in Ops /\ op[p] \in Targets /\ Wild \in Targets /\ seq \in Seq(Cell)
  BY <1>1 DEF LoopTypes, Targets
<1>3. attached[p] = W \cup O /\ WentThrough(arrays, w, o, w.len, o.len, seq)
  BY DEF CalledInv, Tracks
<1>4. Shows(arrays, w, W) /\ Shows(arrays, o, O) BY <1>2 DEF MapInv, MapShown
<1>5. \A h : ~(h \in W /\ h \in O) BY <1>2, ConstantsAssumption DEF Attached
<1>6. w.len \in Nat /\ o.len \in Nat BY <1>2, SliceFacts
<1> HIDE DEF w, o, W, O, seq
<1>7. Len(seq) = N /\ DOMAIN seq = 1..N BY <1>2, <1>3, LenProperties DEF WentThrough
<1>8. /\ \A i \in 1..w.len : i \in 1..N /\ seq[i] = arrays[w.array][i]
      /\ \A i \in 1..o.len : w.len + i \in 1..N /\ seq[w.len + i] = arrays[o.array][i]
  BY <1>3, <1>6 DEF WentThrough
<1>9. ASSUME NEW i \in 1..N
      PROVE  \/ i \in 1..w.len
             \/ i - w.len \in 1..o.len /\ i = w.len + (i - w.len)
  BY <1>6
<1>10. ASSUME NEW i \in 1..N
       PROVE  /\ seq[i] \in W \cup O
              /\ i \in 1..w.len <=> seq[i] \in W
  <2>1. CASE i \in 1..w.len BY <2>1, <1>4, <1>5, <1>8 DEF Shows
  <2>2. CASE i \notin 1..w.len
    <3>1. PICK j \in 1..o.len : i = w.len + j BY <1>9, <2>2
    <3>2. seq[i] \in O BY <3>1, <1>4, <1>8 DEF Shows
    <3> QED BY <2>2, <3>2, <1>5
  <2> QED BY <2>1, <2>2
<1>11. ASSUME NEW h \in W \cup O PROVE \E i \in 1..N : seq[i] = h
  <2>1. CASE h \in W
    <3>1. PICK i \in 1..w.len : arrays[w.array][i] = h BY <2>1, <1>4 DEF Shows
    <3> QED BY <3>1, <1>8
  <2>2. CASE h \in O
    <3>1. PICK i \in 1..o.len : arrays[o.array][i] = h BY <2>2, <1>4 DEF Shows
    <3> QED BY <3>1, <1>8
  <2> QED BY <2>1, <2>2
<1>12. ASSUME NEW i \in 1..N, NEW j \in 1..N, seq[i] = seq[j] PROVE i = j
  <2>1. CASE i \in 1..w.len
    <3>1. j \in 1..w.len BY <2>1, <1>10, <1>12
    <3>2. arrays[w.array][i] = arrays[w.array][j] BY <2>1, <3>1, <1>8, <1>12
    <3> QED BY <2>1, <3>1, <3>2, <1>4 DEF Shows
  <2>2. CASE i \notin 1..w.len
    <3>1. j \notin 1..w.len BY <2>2, <1>10, <1>12
    <3>2. PICK k \in 1..o.len : i = w.len + k BY <1>9, <2>2
    <3>3. PICK m \in 1..o.len : j = w.len + m BY <1>9, <3>1
    <3>4. arrays[o.array][k] = arrays[o.array][m] BY <3>2, <3>3, <1>8, <1>12
    <3>5. k = m BY <3>4, <1>4 DEF Shows
    <3> QED BY <3>2, <3>3, <3>5
  <2> QED BY <2>1, <2>2
<1>13. {seq[i] : i \in DOMAIN seq} = W \cup O BY <1>7, <1>10, <1>11
<1>14. Cardinality(W \cup O) = N
  <2> DEFINE T == W \cup O
             S == 1..N
  <2>1. N \in Nat BY <1>6
  <2>2. seq \in [S -> T] BY <1>2, <1>7, <1>10, LenProperties
  <2>3. /\ \A i, j \in S : seq[i] = seq[j] => i = j
        /\ \A h \in T : \E i \in S : seq[i] = h
    BY <1>11, <1>12
  <2> HIDE DEF T
  <2>4. seq \in Bijection(S, T)
    BY <2>2, <2>3 DEF Bijection, Injection, IsInjective, Surjection
  <2> HIDE DEF N
  <2>5. ExistsBijection(1..N, T) BY <2>4 DEF ExistsBijection
  <2>6. Cardinality(T) = N BY <2>1, <2>5, FS_CountingElements
  <2> QED BY <2>6 DEF T
<1> QED BY <1>3, <1>7, <1>13, <1>14 DEF seq

(* A packet that is alone at the hooks and whose handlers neither hook nor *)
(* unhook is handed to every hook for all packets and every hook for its   *)
(* op exactly once, whatever the number of hooks and whichever handlers    *)
(* panic.                                                                  *)
THEOREM EveryHookOnce == Spec => []CallsEveryHookOnce
<1> DEFINE IInv == BaseInv /\ MapInv /\ CalledInv
<1>1. Init => IInv BY BaseInit, MapInit, CalledInit
<1>2. IInv /\ [Next]_vars => IInv' BY BaseNext, MapNext, CalledNext
<1>3. IInv => CallsEveryHookOnce BY OnceHolds
<1> QED BY <1>1, <1>2, <1>3, PTL DEF Spec

----------------------------------------------------------------------------
(* The order of the calls of a dispatch during which nothing is inserted   *)

Current(p) == IF stage[p] = "wild" THEN Wild ELSE op[p]

(* Hook f may be called before hook g.                                     *)
Before(f, g) ==
  \/ Target[f] = Wild /\ Target[g] # Wild
  \/ Target[f] = Target[g] /\ Priority[f] >= Priority[g]

Falls(seq) == \A i, j \in 1..Len(seq) : i < j => Before(seq[i], seq[j])

(* What the loop of p ranges over goes on to fall: removals only shorten   *)
(* the slice of the map at the front of it.                                *)
RangeFalls(p) ==
  /\ range[p].array = hooks[Current(p)].array
  /\ hooks[Current(p)].len <= range[p].len
  /\ \A i \in 1..range[p].len : Target[arrays[range[p].array][i]] = Current(p)
  /\ Descends(arrays, range[p])
  /\ \A i \in 1..Len(called[p]) : Target[called[p][i]] \in {Wild, Current(p)}
  /\ \A i \in 1..Len(called[p]), j \in 1..range[p].len :
       next[p] <= j /\ Target[called[p][i]] = Current(p) =>
         Priority[called[p][i]] >= Priority[arrays[range[p].array][j]]

OrderInv ==
  Alone => \A p \in Packets : "insert" \notin changes[p] =>
    Falls(called[p]) /\ (Dispatching(p) => RangeFalls(p))

LEMMA OrderInit == Init => OrderInv
  BY DEF Init, OrderInv, Falls, Dispatching

LEMMA OrderFrame ==
  ASSUME BaseInv, OrderInv, [Next]_vars,
         UNCHANGED <<arrays, hooks, op, stage, range, next, called>>,
         \A q \in Packets : changes[q] \subseteq changes'[q]
  PROVE  OrderInv'
<1> SUFFICES ASSUME Alone', NEW p \in Packets, "insert" \notin changes'[p]
             PROVE  (Falls(called[p]) /\ (Dispatching(p) => RangeFalls(p)))'
  BY DEF OrderInv
<1>1. Falls(called[p]) /\ (Dispatching(p) => RangeFalls(p))
  BY AloneBefore DEF OrderInv
<1> QED BY <1>1 DEF Falls, Before, Dispatching, RangeFalls, Current, Descends

(* A step of the only packet concerns that packet alone.                   *)
LEMMA OrderOfActor ==
  ASSUME BaseInv, OrderInv, [Next]_vars, NEW p \in Packets, PacketStep(p) \/ CallStep(p),
         Alone /\ Alone' /\ "insert" \notin changes'[p] =>
           (Falls(called[p]) /\ (Dispatching(p) => RangeFalls(p)))'
  PROVE  OrderInv'
<1> SUFFICES ASSUME Alone', NEW q \in Packets, q # p, "insert" \notin changes'[q]
             PROVE  (Falls(called[q]) /\ (Dispatching(q) => RangeFalls(q)))'
  BY AloneBefore DEF OrderInv
<1>1. stage'[q] = "idle" BY OnlyActor
<1>2. LoopTypes /\ HistoryTypes BY HolesParts DEF BaseInv
<1>3. called'[q] = called[q] /\ changes[q] \subseteq changes'[q]
  <2>1. CASE PacketStep(p)
    BY <2>1, <1>2 DEF PacketStep, Dispatch, CallHook, HandlerReturn, HandlerPanic, NextLoop,
                      DispatchDone, LoopTypes, HistoryTypes
  <2>2. CASE CallStep(p)
    BY <2>2 DEF CallStep, HookLoad, UnhookLoad, HookStore, UnhookStore, UnhookNotFound,
                MapFault, Record, loopVars
  <2> QED BY <2>1, <2>2
<1>4. Falls(called[q]) BY <1>3, AloneBefore DEF OrderInv
<1>5. Falls(called[q])' BY <1>3, <1>4 DEF Falls, Before
<1> QED BY <1>1, <1>5 DEF Dispatching

(* A loop starts on a slice of the map, which is sorted.                   *)
LEMMA StartFalls ==
  ASSUME BaseInv, MapInv, Alone, initialized, NEW t \in Targets
  PROVE  /\ \A i \in 1..hooks[t].len : Target[arrays[hooks[t].array][i]] = t
         /\ Descends(arrays, hooks[t])
<1>1. Shows(arrays, hooks[t], Attached(t)) /\ Descends(arrays, hooks[t])
  BY DEF MapInv, MapShown
<1>2. \A i \in 1..hooks[t].len : arrays[hooks[t].array][i] \in Attached(t)
  BY <1>1 DEF Shows
<1> QED BY <1>1, <1>2 DEF Attached

LEMMA OrderDispatch ==
  ASSUME BaseInv, MapInv, OrderInv, [Next]_vars, NEW p \in Packets, NEW o \in Ops, Dispatch(p, o)
  PROVE  OrderInv'
<1> SUFFICES ASSUME Alone PROVE Falls(called[p])' /\ RangeFalls(p)'
  BY OrderOfActor DEF PacketStep
<1>1. LoopTypes /\ AllSolid(arrays, hooks, range, call) BY HolesParts DEF BaseInv
<1>2. /\ stage'[p] = "wild"
      /\ range'[p] = hooks[Wild]
      /\ called'[p] = <<>>
      /\ UNCHANGED <<arrays, hooks>>
      /\ initialized
  BY <1>1 DEF Dispatch, StartLoop, LoopTypes, AllSolid, RangeSolid, mapVars
<1>3. /\ \A i \in 1..hooks[Wild].len : Target[arrays[hooks[Wild].array][i]] = Wild
      /\ Descends(arrays, hooks[Wild])
      /\ hooks[Wild].len \in Nat
  BY <1>2, StartFalls, SliceFacts DEF Targets
<1>4. Descends(arrays', range'[p]) BY <1>2, <1>3
<1>5. Current(p)' = Wild BY <1>2 DEF Current
<1>6. Falls(called[p])' BY <1>2 DEF Falls
<1> QED BY <1>2, <1>3, <1>4, <1>5, <1>6 DEF RangeFalls

LEMMA OrderNextLoop ==
  ASSUME BaseInv, MapInv, OrderInv, [Next]_vars, NEW p \in Packets, NextLoop(p)
  PROVE  OrderInv'
<1> SUFFICES ASSUME Alone, "insert" \notin changes'[p]
             PROVE  Falls(called[p])' /\ RangeFalls(p)'
  BY OrderOfActor DEF PacketStep
<1> DEFINE o == op[p]
<1>1. LoopTypes /\ AllSolid(arrays, hooks, range, call) BY HolesParts DEF BaseInv
<1>2. o \in Ops /\ o \in Targets /\ o # Wild
  BY <1>1, ConstantsAssumption DEF LoopTypes, Targets
<1>3. /\ stage'[p] = "op"
      /\ op'[p] = o
      /\ range'[p] = hooks[o]
      /\ UNCHANGED <<called, arrays, hooks, changes>>
  BY <1>1 DEF NextLoop, StartLoop, LoopTypes, AllSolid, RangeSolid, mapVars
<1>4. stage[p] = "wild" /\ initialized BY DEF NextLoop, BaseInv, LoopInv
<1>5. Falls(called[p]) /\ RangeFalls(p) BY <1>3, <1>4 DEF OrderInv, Dispatching
<1>6. \A i \in 1..Len(called[p]) : Target[called[p][i]] = Wild
  BY <1>4, <1>5 DEF RangeFalls, Current
<1>7. /\ \A i \in 1..hooks[o].len : Target[arrays[hooks[o].array][i]] = o
      /\ Descends(arrays, hooks[o])
      /\ hooks[o].len \in Nat
  BY <1>2, <1>4, StartFalls, SliceFacts
<1> HIDE DEF o
<1>8. Descends(arrays', range'[p]) BY <1>3, <1>7
<1>9. Current(p)' = o BY <1>3 DEF Current
<1>10. Falls(called[p])' BY <1>3, <1>5 DEF Falls, Before
<1>11. /\ range'[p].array = hooks'[o].array
       /\ hooks'[o].len <= range'[p].len
       /\ \A i \in 1..range'[p].len : Target[arrays'[range'[p].array][i]] = o
    BY <1>3, <1>7
<1>12. \A i \in 1..Len(called'[p]) : Target[called'[p][i]] = Wild BY <1>3, <1>6
<1> QED BY <1>2, <1>8, <1>9, <1>10, <1>11, <1>12 DEF RangeFalls

LEMMA OrderCallHook ==
  ASSUME BaseInv, OrderInv, [Next]_vars, NEW p \in Packets, CallHook(p)
  PROVE  OrderInv'
<1> SUFFICES ASSUME Alone, "insert" \notin changes'[p]
             PROVE  Falls(called[p])' /\ RangeFalls(p)'
  BY OrderOfActor DEF PacketStep
<1> DEFINE C(j) == arrays[range[p].array][j]
           n == next[p]
           L == range[p].len
           seq == called[p]
           more == Append(seq, C(n))
           cur == Current(p)
<1>1. LoopTypes /\ AllSolid(arrays, hooks, range, call) BY HolesParts DEF BaseInv
<1>2. C(n) \in Hooks /\ n \in 1..L /\ called' = [called EXCEPT ![p] = more]
  BY CalledIsHook DEF BaseInv
<1>3. seq \in Seq(Cell) /\ L \in Nat
  BY <1>1 DEF LoopTypes, AllSolid, RangeSolid, SlicesOf
<1>4. /\ UNCHANGED <<arrays, hooks, op, stage, range, changes>>
      /\ next'[p] = n + 1
      /\ called'[p] = more
  BY <1>1, <1>2 DEF CallHook, LoopTypes, mapVars
<1>5. Falls(seq) /\ RangeFalls(p) BY <1>4 DEF OrderInv, CallHook
<1>6. /\ Len(more) = Len(seq) + 1
      /\ \A i \in 1..Len(seq) : more[i] = seq[i]
      /\ more[Len(seq) + 1] = C(n)
      /\ Len(seq) \in Nat
  <2>1. C(n) \in Cell BY <1>2 DEF Cell
  <2> HIDE DEF C, seq
  <2> QED BY <1>3, <2>1, AppendProperties, LenProperties
<1>7. /\ \A i \in 1..L : Target[C(i)] = cur
      /\ \A i, j \in 1..L : i < j => Priority[C(i)] >= Priority[C(j)]
      /\ \A i \in 1..Len(seq) : Target[seq[i]] \in {Wild, cur}
      /\ \A i \in 1..Len(seq), j \in 1..L : n <= j /\ Target[seq[i]] = cur
           => Priority[seq[i]] >= Priority[C(j)]
  BY <1>5 DEF RangeFalls, Descends
<1>8. \A i, j \in 1..Len(seq) : i < j => Before(seq[i], seq[j]) BY <1>5 DEF Falls
<1> HIDE DEF C, n, L, seq, more, cur
<1>9. \A i \in 1..Len(more) : i \in 1..Len(seq) \/ i = Len(seq) + 1 BY <1>6
<1>10. \A i \in 1..Len(seq) : Before(seq[i], C(n))
  <2>1. n <= n BY <1>2, <1>3
  <2> QED BY <1>2, <1>7, <2>1 DEF Before
<1>11. Falls(more)
  <2> SUFFICES ASSUME NEW i \in 1..Len(more), NEW j \in 1..Len(more), i < j
               PROVE  Before(more[i], more[j])
    BY DEF Falls
  <2>1. i \in 1..Len(seq) BY <1>6, <1>9
  <2> QED BY <1>6, <1>8, <1>9, <1>10, <2>1
<1>12. \A i \in 1..Len(more) : Target[more[i]] \in {Wild, cur}
  BY <1>2, <1>6, <1>7, <1>9
<1>13. ASSUME NEW i \in 1..Len(more), NEW j \in 1..L, n + 1 <= j, Target[more[i]] = cur
       PROVE  Priority[more[i]] >= Priority[C(j)]
  <2>1. n <= j /\ n < j BY <1>2, <1>3, <1>13
  <2>2. CASE i \in 1..Len(seq) BY <1>6, <1>7, <1>13, <2>1, <2>2
  <2>3. CASE i = Len(seq) + 1 BY <1>2, <1>6, <1>7, <2>1, <2>3
  <2> QED BY <1>9, <2>2, <2>3
<1>14. Falls(called[p])' BY <1>4, <1>11
<1>15. Current(p)' = cur BY <1>4 DEF Current, cur
<1>16. /\ \A i \in 1..Len(called'[p]) : Target[called'[p][i]] \in {Wild, cur}
       /\ \A i \in 1..Len(called'[p]), j \in 1..range'[p].len :
            next'[p] <= j /\ Target[called'[p][i]] = cur =>
              Priority[called'[p][i]] >= Priority[arrays'[range'[p].array][j]]
  BY <1>4, <1>12, <1>13 DEF C, L
<1>17. /\ range'[p].array = hooks'[cur].array
       /\ hooks'[cur].len <= range'[p].len
       /\ \A i \in 1..range'[p].len : Target[arrays'[range'[p].array][i]] = cur
       /\ Descends(arrays', range'[p])
  BY <1>4, <1>5 DEF RangeFalls, cur
<1> QED BY <1>14, <1>15, <1>16, <1>17 DEF RangeFalls

LEMMA OrderOthers ==
  ASSUME BaseInv, OrderInv, [Next]_vars, NEW p \in Packets,
         HandlerReturn(p) \/ HandlerPanic(p) \/ DispatchDone(p)
  PROVE  OrderInv'
<1>1. CASE HandlerReturn(p) \/ HandlerPanic(p)
  <2>1. UNCHANGED <<arrays, hooks, op, stage, range, next, called, changes>>
    BY <1>1 DEF HandlerReturn, HandlerPanic, mapVars
  <2> QED BY <2>1, OrderFrame
<1>2. CASE DispatchDone(p)
  <2> SUFFICES ASSUME Alone, "insert" \notin changes'[p]
               PROVE  Falls(called[p])' /\ ~Dispatching(p)'
    BY <1>2, OrderOfActor DEF PacketStep
  <2>1. LoopTypes BY HolesParts DEF BaseInv
  <2>2. stage'[p] = "done" /\ UNCHANGED <<called, changes>>
    BY <1>2, <2>1 DEF DispatchDone, LoopTypes
  <2>3. Falls(called[p]) BY <2>2 DEF OrderInv
  <2>4. Falls(called[p])' BY <2>2, <2>3
  <2> QED BY <2>2, <2>4 DEF Dispatching
<1> QED BY <1>1, <1>2

LEMMA OrderHookStore ==
  ASSUME BaseInv, OrderInv, [Next]_vars, NEW p \in Packets, HookStore(p)
  PROVE  OrderInv'
<1>1. Dispatching(p) BY InACall DEF BaseInv, LoopInv, HookStore
<1>2. "insert" \in changes'[p] BY <1>1 DEF HookStore, Record
<1> QED BY <1>2, OrderOfActor DEF CallStep

(* A removal at the front of a longer range leaves the range falling, and  *)
(* what the loop has still to call no higher than before.                  *)
LEMMA RemovedFalls ==
  ASSUME arrays \in Heaps, NEW s \in SlicesOf(arrays), SolidIn(arrays, s), NEW i \in 1..s.len,
         NEW r \in SlicesOf(arrays), SolidIn(arrays, r), r.array = s.array, s.len <= r.len,
         Descends(arrays, r)
  PROVE  /\ \A j \in 1..r.len : \E k \in 1..r.len :
              j <= k /\ Removed(s, i)[r.array][j] = arrays[r.array][k]
         /\ Descends(Removed(s, i), r)
<1> DEFINE O(j) == arrays[r.array][j]
           N(j) == Removed(s, i)[r.array][j]
           back(j) == IF j \in i..(s.len - 1) THEN j + 1 ELSE j
<1>1. s.len \in Nat /\ r.len \in Nat /\ r.array \in 1..Len(arrays) BY DEF SlicesOf
<1>2. Len(arrays[r.array]) \in Nat /\ r.len <= Len(arrays[r.array])
  BY <1>1, HeapFacts DEF SolidIn
<1>3. \A j \in 1..r.len : O(j) \in Hooks BY DEF SolidIn
<1>4. \A j \in 1..r.len : j \in 1..Len(arrays[r.array]) BY <1>1, <1>2
<1>5. \A j \in 1..r.len : N(j) = IF j \in i..(s.len - 1) THEN O(j + 1) ELSE O(j)
  <2> TAKE j \in 1..r.len
  <2>1. j \in 1..Len(arrays[s.array])  BY <1>4
  <2>2. Removed(s, i)[s.array][j] =
          IF j \in i..(s.len - 1) THEN arrays[s.array][j + 1] ELSE arrays[s.array][j]
    BY <2>1, RemovedFacts
  <2> QED  BY <2>2
<1>6. \A j, k \in 1..r.len : j < k => Priority[O(j)] >= Priority[O(k)] BY DEF Descends
<1> HIDE DEF N, O
<1>7. \A j \in 1..r.len : back(j) \in 1..r.len /\ j <= back(j) /\ N(j) = O(back(j))
  BY <1>1, <1>5
<1>8. \A j, k \in 1..r.len : j < k => back(j) <= back(k) BY <1>1
<1>9. \A j \in 1..r.len : Priority[O(j)] \in Int BY <1>3, ConstantsAssumption
<1>10. \A j \in 1..r.len : back(j) \in Nat BY <1>1, <1>7
<1> HIDE DEF back
<1>11. ASSUME NEW j \in 1..r.len, NEW k \in 1..r.len, j < k
       PROVE  Priority[N(j)] >= Priority[N(k)]
  <2>1. back(j) <= back(k) /\ back(j) \in 1..r.len /\ back(k) \in 1..r.len
    BY <1>7, <1>8, <1>11
  <2>2. back(j) < back(k) \/ back(j) = back(k) BY <1>10, <2>1
  <2>3. Priority[O(back(j))] >= Priority[O(back(k))]
    <3>1. CASE back(j) < back(k) BY <1>6, <2>1, <3>1
    <3>2. CASE back(j) = back(k)
      <4>1. Priority[O(back(j))] \in Int BY <1>9, <2>1
      <4>2. Priority[O(back(j))] = Priority[O(back(k))] BY <3>2
      <4> QED BY <4>1, <4>2
    <3> QED BY <2>2, <3>1, <3>2
  <2> QED BY <1>7, <2>3
<1>12. \A j \in 1..r.len : \E k \in 1..r.len : j <= k /\ N(j) = O(k) BY <1>7
<1> QED BY <1>11, <1>12 DEF Descends, N, O

LEMMA OrderUnhookStore ==
  ASSUME BaseInv, MapInv, OrderInv, [Next]_vars, NEW p \in Packets, UnhookStore(p)
  PROVE  OrderInv'
<1> SUFFICES ASSUME Alone, "insert" \notin changes'[p]
             PROVE  Falls(called[p])' /\ RangeFalls(p)'
  BY OrderOfActor DEF CallStep
<1>0. PICK h : h = call[p].hook OBVIOUS
<1> DEFINE t == Target[h]
           s == hooks[t]
           r == range[p]
<1>1. call[p] # NoCall BY InACall DEF UnhookStore
<1>2. OwnArrays /\ FreshCalls BY <1>1, CallAlone, CallOfHandler
<1>3. h \in Hooks /\ t \in Targets BY <1>0, <1>1, CallFacts DEF BaseInv
<1>4. call[p].slice = s BY <1>0, <1>1, <1>2 DEF FreshCalls
<1>5. PICK i \in 1..s.len : \E shorter :
           /\ arrays' = Removed(s, i)
           /\ shorter.array = s.array
           /\ shorter.len = s.len - 1
           /\ hooks' = [hooks EXCEPT ![t] = shorter]
  BY <1>0, <1>4, RemoveFacts DEF BaseInv
<1>6. PICK shorter :
           /\ arrays' = Removed(s, i)
           /\ shorter.array = s.array
           /\ shorter.len = s.len - 1
           /\ hooks' = [hooks EXCEPT ![t] = shorter]
  BY <1>5
<1>7. /\ arrays \in Heaps /\ s \in SlicesOf(arrays) /\ SolidIn(arrays, s) /\ s.len \in Nat
      /\ s.array \in 1..Len(arrays)
  BY <1>3, SliceFacts
<1>8. UNCHANGED <<op, stage, range, next, called>> BY DEF UnhookStore, loopVars
<1>9. Dispatching(p) BY <1>1 DEF BaseInv, LoopInv
<1>10. "insert" \notin changes[p]
  BY <1>9 DEF UnhookStore, Record
<1>11. Falls(called[p]) /\ RangeFalls(p) BY <1>9, <1>10 DEF OrderInv
<1>12. PICK cur : cur = Current(p) OBVIOUS
<1>13. cur \in Targets
  <2>1. op[p] \in Ops BY HolesParts DEF BaseInv, LoopTypes
  <2> QED BY <1>12, <2>1 DEF Current, Targets
<1>14. Current(p)' = cur BY <1>8, <1>12 DEF Current
<1>15. r \in SlicesOf(arrays) /\ SolidIn(arrays, r) /\ r.len \in Nat
  BY HolesParts DEF BaseInv, AllSolid, RangeSolid, SlicesOf
<1>16. /\ r.array = hooks[cur].array
       /\ hooks[cur].len <= r.len
       /\ \A j \in 1..r.len : Target[arrays[r.array][j]] = cur
       /\ Descends(arrays, r)
       /\ \A j \in 1..Len(called[p]) : Target[called[p][j]] \in {Wild, cur}
       /\ \A j \in 1..Len(called[p]), k \in 1..r.len :
            next[p] <= k /\ Target[called[p][j]] = cur =>
              Priority[called[p][j]] >= Priority[arrays[r.array][k]]
  BY <1>11, <1>12 DEF RangeFalls
<1>17. next[p] \in Nat BY HolesParts DEF BaseInv, LoopTypes
<1> HIDE DEF t, s, r
<1>18. /\ r.array = hooks'[cur].array
       /\ hooks'[cur].len <= r.len
  <2>1. CASE cur = t
    <3>1. hooks'[cur] = shorter BY <1>6, <1>13, <2>1, SliceFacts
    <3>2. hooks[cur] = s BY <2>1 DEF s
    <3> QED BY <1>6, <1>7, <1>15, <1>16, <3>1, <3>2
  <2>2. CASE cur # t
    <3>1. hooks'[cur] = hooks[cur] BY <1>6, <1>13, <2>2, SliceFacts
    <3> QED BY <1>16, <3>1
  <2> QED BY <2>1, <2>2
<1>19. /\ \A j \in 1..r.len : \E k \in 1..r.len :
            j <= k /\ arrays'[r.array][j] = arrays[r.array][k]
       /\ Descends(arrays', r)
  <2>1. CASE cur = t
    <3>1. r.array = s.array /\ s.len <= r.len BY <1>16, <2>1 DEF s
    <3>2. /\ \A j \in 1..r.len : \E k \in 1..r.len :
                j <= k /\ Removed(s, i)[r.array][j] = arrays[r.array][k]
          /\ Descends(Removed(s, i), r)
      BY <1>7, <1>15, <1>16, <3>1, RemovedFalls
    <3> QED BY <1>6, <3>2
  <2>2. CASE cur # t
    <3>1. s.array # 1
      <4>1. s.len > 0 BY <1>7
      <4> QED BY <1>7, <4>1 DEF SolidIn, BaseInv, LoopInv
    <3>2. hooks[cur].array # s.array BY <1>2, <1>3, <1>13, <2>2, <3>1 DEF OwnArrays, s
    <3>3. r.array \in 1..Len(arrays) BY <1>15 DEF SlicesOf
    <3>4. arrays'[r.array] = arrays[r.array]
      BY <1>6, <1>7, <1>16, <3>2, <3>3, RemovedFacts
    <3>5. Descends(arrays', r) BY <1>16, <3>4, ShowsElsewhere
    <3>6. \A j \in 1..r.len : j <= j BY <1>15
    <3> QED BY <3>4, <3>5, <3>6
  <2> QED BY <2>1, <2>2
<1>20. \A j \in 1..r.len : Target[arrays'[r.array][j]] = cur BY <1>16, <1>19
<1>21. ASSUME NEW j \in 1..Len(called[p]), NEW k \in 1..r.len,
              next[p] <= k, Target[called[p][j]] = cur
       PROVE  Priority[called[p][j]] >= Priority[arrays'[r.array][k]]
  <2>1. PICK m \in 1..r.len : k <= m /\ arrays'[r.array][k] = arrays[r.array][m]
    BY <1>19
  <2>2. next[p] <= m BY <1>15, <1>17, <1>21, <2>1
  <2> QED BY <1>16, <1>21, <2>1, <2>2
<1>22. r = range'[p] BY <1>8 DEF r
<1>23. Falls(called[p])' BY <1>8, <1>11
<1>24. /\ range'[p].array = hooks'[cur].array
       /\ hooks'[cur].len <= range'[p].len
       /\ \A j \in 1..range'[p].len : Target[arrays'[range'[p].array][j]] = cur
       /\ Descends(arrays', range'[p])
       /\ \A j \in 1..Len(called'[p]) : Target[called'[p][j]] \in {Wild, cur}
       /\ \A j \in 1..Len(called'[p]), k \in 1..range'[p].len :
            next'[p] <= k /\ Target[called'[p][j]] = cur =>
              Priority[called'[p][j]] >= Priority[arrays'[range'[p].array][k]]
  BY <1>8, <1>16, <1>18, <1>19, <1>20, <1>21, <1>22
<1> QED BY <1>14, <1>23, <1>24 DEF RangeFalls

LEMMA OrderNext ==
  ASSUME BaseInv, MapInv, OrderInv, [Next]_vars
  PROVE  OrderInv'
<1>1. CASE (\E h \in Hooks : InitHook(h)) \/ InitDone
  <2>1. UNCHANGED <<stage, called, changes>> /\ \A q \in Packets : stage[q] = "idle"
    BY <1>1 DEF InitHook, InitDone, loopVars, BaseInv, LoopInv
  <2> SUFFICES ASSUME Alone', NEW p \in Packets, "insert" \notin changes'[p]
               PROVE  (Falls(called[p]) /\ (Dispatching(p) => RangeFalls(p)))'
    BY DEF OrderInv
  <2>2. Falls(called[p]) BY <2>1, AloneBefore DEF OrderInv
  <2>3. Falls(called[p])' BY <2>1, <2>2
  <2>4. stage'[p] = "idle" BY <2>1
  <2> QED BY <2>3, <2>4 DEF Dispatching
<1>2. ASSUME NEW p \in Packets, PacketStep(p) PROVE OrderInv'
  BY <1>2, OrderDispatch, OrderCallHook, OrderNextLoop, OrderOthers DEF PacketStep
<1>3. ASSUME NEW p \in Packets, CallStep(p) PROVE OrderInv'
  <2>1. ASSUME NEW h \in Hooks, HookLoad(p, h) \/ UnhookLoad(p, h) PROVE OrderInv'
    <3>1. UNCHANGED <<arrays, hooks, op, stage, range, next, called, changes>>
      BY <2>1 DEF HookLoad, UnhookLoad, mapVars, loopVars
    <3> QED BY <3>1, OrderFrame
  <2>2. CASE UnhookNotFound(p)
    <3>1. UNCHANGED <<arrays, hooks, op, stage, range, next, called>>
      BY <2>2 DEF UnhookNotFound, loopVars
    <3>2. \A q \in Packets : changes[q] \subseteq changes'[q]
      BY <2>2 DEF UnhookNotFound, Record
    <3> QED BY <3>1, <3>2, OrderFrame
  <2>3. ASSUME NEW q \in Packets, MapFault(p, q) PROVE OrderInv'
    <3>1. UNCHANGED <<arrays, hooks, op, stage, range, next, called, changes>>
      BY <2>3 DEF MapFault, loopVars
    <3> QED BY <3>1, OrderFrame
  <2> QED BY <1>3, <2>1, <2>2, <2>3, OrderHookStore, OrderUnhookStore DEF CallStep
<1>4. CASE UNCHANGED vars
  <2>1. UNCHANGED <<arrays, hooks, op, stage, range, next, called, changes>>
    BY <1>4 DEF vars, mapVars, loopVars
  <2> QED BY <2>1, OrderFrame
<1> QED BY <1>1, <1>2, <1>3, <1>4 DEF Next

LEMMA OrderHolds == BaseInv /\ OrderInv => PriorityNeverRises
<1> SUFFICES ASSUME BaseInv, OrderInv, Alone, NEW p \in Packets,
                    NEW i \in DOMAIN called[p], NEW j \in DOMAIN called[p], i < j,
                    "insert" \notin changes[p]
             PROVE  Before(called[p][i], called[p][j])
  BY DEF PriorityNeverRises, Before
<1>1. called[p] \in Seq(Cell) BY HolesParts DEF BaseInv, LoopTypes
<1>2. DOMAIN called[p] = 1..Len(called[p]) BY <1>1, LenProperties
<1> QED BY <1>2 DEF OrderInv, Falls

(* A packet that is alone at the hooks, while none is inserted, meets the  *)
(* hooks for all packets before those for its op and, within each of the   *)
(* two, never a hook of higher priority than one it has met, however many  *)
(* hooks its handlers remove from under the loops.                         *)
THEOREM PrioritiesFall == Spec => []PriorityNeverRises
<1> DEFINE IInv == BaseInv /\ MapInv /\ OrderInv
<1>1. Init => IInv BY BaseInit, MapInit, OrderInit
<1>2. IInv /\ [Next]_vars => IInv' BY BaseNext, MapNext, OrderNext
<1>3. IInv => PriorityNeverRises BY OrderHolds
<1> QED BY <1>1, <1>2, <1>3, PTL DEF Spec

=============================================================================
