--------------------------- MODULE SessionProofs ----------------------------
(***************************************************************************)
(* Theorems about Session for any logins, packets and battles: the lines   *)
(* of the packet logger, the drops that are reported and the end of the    *)
(* process.  The argument about the drops: in one session the exchanges    *)
(* of the battle packets follow each other and so do the goroutines that   *)
(* they lock the mutex for; what a finish finds in currStage is therefore  *)
(* the last start before it, and only stageStartT can be younger.          *)
(***************************************************************************)
EXTENDS Session, SequenceTheorems, FiniteSetTheorems, TLAPS

(***************************************************************************)
(* What the steps of PacketLogger preserve, for any packets, instances and *)
(* capacity of the buffer: the lemmas from which LinesKept follows, that   *)
(* no line is lost that was printed before Shutdown's Flush.               *)
(***************************************************************************)

(* A printer holds the mutex of its instance's log.Logger.                 *)
Holding == {"write", "full", "copied"}

BufferInv(i) ==
  /\ \A p \in printing[i] : printer[p] \in Holding
  /\ \A p \in printing[i] : printer[p] = "copied" => n[i] < Len(cells[i])

(* The lines behind the file's are those in the buffer; a line that is     *)
(* copied counts next; and a buffer that was written counts still.         *)
WriterInv(i) ==
  /\ ~failed[i]
  /\ \A p \in printing[i] : printer[p] = "copied" => cells[i][n[i] + 1] = p
  /\ IF \E p \in printing[i] : printer[p] = "full"
       THEN packetFile[i] = printed[i] /\ n[i] > 0
       ELSE packetFile[i] \o Buffered(i) = printed[i]

(* Flush has written and no Printf has met it.                             *)
FlushInv(i) ==
  /\ printing[i] = {}
  /\ n[i] = written[i]
  /\ packetFile[i] = printed[i]

(* What was printed before Flush wrote is in the file.                     *)
KeptInv(i) ==
  /\ before[i] <= Len(packetFile[i]) /\ before[i] <= Len(printed[i])
  /\ \A k \in 1..before[i] : packetFile[i][k] = printed[i][k]

LinesInv(i) ==
  /\ BufferInv(i)
  /\ flush[i] = "none" => ~raced[i]
  /\ ~raced[i] => IF flush[i] = "written" THEN FlushInv(i) ELSE WriterInv(i)
  /\ flush[i] # "none" => KeptInv(i)

AllLines == \A i \in Sessions : LinesInv(i)

-----------------------------------------------------------------------------
(* Sequences                                                               *)

(* What the buffer holds.                                                  *)
LEMMA BufferedProperties ==
  ASSUME PacketLoggerTypeOK, NEW i \in Sessions
  PROVE  /\ Buffered(i) \in Seq(Packets)
         /\ Len(Buffered(i)) = n[i]
         /\ \A k \in 1..n[i] : Buffered(i)[k] = cells[i][k]
<1>1. cells[i] \in Seq(Packets) /\ n[i] \in Nat /\ n[i] <= Len(cells[i])
  BY DEF PacketLoggerTypeOK
<1>2. \A k \in 1..n[i] : cells[i][k] \in Packets  BY <1>1
<1> QED BY <1>1, <1>2, SubSeqProperties DEF Buffered

(* A line is written into the next cell, and the ones before it stay.      *)
LEMMA OverwriteProperties ==
  ASSUME NEW s \in Seq(Packets), NEW at \in 1..(Len(s) + 1), NEW line \in Packets
  PROVE  /\ Overwrite(s, at, line) \in Seq(Packets)
         /\ Len(Overwrite(s, at, line)) = IF at > Len(s) THEN at ELSE Len(s)
         /\ Overwrite(s, at, line)[at] = line
         /\ \A k \in 1..Len(s) : k # at => Overwrite(s, at, line)[k] = s[k]
<1> DEFINE len == IF at > Len(s) THEN at ELSE Len(s)
<1>1. len \in Nat /\ at \in 1..len /\ 1..Len(s) \subseteq 1..len  OBVIOUS
<1>2. \A k \in 1..len : (IF k = at THEN line ELSE s[k]) \in Packets  OBVIOUS
<1>3. Overwrite(s, at, line) = [k \in 1..len |-> IF k = at THEN line ELSE s[k]]
  BY DEF Overwrite
<1>4. Overwrite(s, at, line) \in [1..len -> Packets]  BY <1>2, <1>3
<1> HIDE DEF len
<1>5. Overwrite(s, at, line) \in Seq(Packets)  BY <1>1, <1>4
<1>6. Len(Overwrite(s, at, line)) = len  BY <1>1, <1>4, <1>5
<1> QED BY <1>1, <1>3, <1>5, <1>6 DEF len

(* A line behind the buffer is a line behind the file and the buffer.      *)
LEMMA ConcatLine ==
  ASSUME NEW f \in Seq(Packets), NEW b \in Seq(Packets), NEW line \in Packets
  PROVE  (f \o b) \o <<line>> = f \o (b \o <<line>>)
<1>1. <<line>> \in Seq(Packets)  OBVIOUS
<1> QED BY <1>1, ConcatAssociative

-----------------------------------------------------------------------------
(* A step of one instance leaves the others alone.                         *)
LEMMA OthersLines ==
  ASSUME NEW j \in Sessions, LinesInv(j),
         n'[j] = n[j] /\ cells'[j] = cells[j] /\ failed'[j] = failed[j],
         packetFile'[j] = packetFile[j] /\ printed'[j] = printed[j],
         flush'[j] = flush[j] /\ written'[j] = written[j] /\ before'[j] = before[j],
         raced'[j] = raced[j] /\ printing'[j] = printing[j],
         \A q \in printing[j] : printer'[q] = printer[q]
  PROVE  LinesInv(j)'
<1>1. BufferInv(j)'  BY DEF LinesInv, BufferInv
<1>2. WriterInv(j) => WriterInv(j)'  BY DEF WriterInv, Buffered
<1>3. FlushInv(j) => FlushInv(j)'  BY DEF FlushInv
<1>4. KeptInv(j) => KeptInv(j)'  BY DEF KeptInv
<1> QED BY <1>1, <1>2, <1>3, <1>4 DEF LinesInv

-----------------------------------------------------------------------------
(* Types                                                                   *)

Places == {"none", "print", "write", "full", "copied", "done"}

LEMMA PrintTypes ==
  ASSUME PacketLoggerTypeOK, NEW i \in Sessions, NEW p \in Packets, LinesInv(i),
         printer[p] \in Holding => p \in printing[i], PrintStep(i, p)
  PROVE  PacketLoggerTypeOK'
<1>0. Buffered(i) \in Seq(Packets)  BY BufferedProperties
<1> USE PacketLoggerAssumption DEF PacketLoggerTypeOK
<1> USE DEF writerVars, PrinterTo
<1>1. CASE PrintLock(i, p)  BY <1>1 DEF PrintLock
<1>2. CASE WriteFull(i, p)
  <2>1. packetFile[i] \o Buffered(i) \in Seq(Packets)  BY <1>0
  <2>2. packetFile' \in [Sessions -> Seq(Packets)]  BY <1>2, <2>1 DEF WriteFull
  <2> QED BY <1>2, <2>2 DEF WriteFull
<1>3. CASE WriteReset(i, p)
  <2>1. n' \in [Sessions -> Nat] /\ \A j \in Sessions : n'[j] = 0 \/ n'[j] = n[j]
    BY <1>3 DEF WriteReset
  <2>2. \A j \in Sessions : Len(cells[j]) \in Nat /\ n[j] <= Len(cells[j])  OBVIOUS
  <2> HIDE DEF PacketLoggerTypeOK
  <2>3. \A j \in Sessions : n'[j] <= Len(cells[j])  BY <2>1, <2>2
  <2> QED BY <1>3, <2>1, <2>3 DEF WriteReset, PacketLoggerTypeOK
<1>4. CASE WriteCopy(i, p)
  <2> DEFINE s == Overwrite(cells[i], n[i] + 1, p)
  <2>1. n[i] + 1 \in 1..(Len(cells[i]) + 1) /\ n[i] + 1 <= BufferCap  BY <1>4 DEF WriteCopy
  <2>2. s \in Seq(Packets) /\ Len(s) \in {n[i] + 1, Len(cells[i])} /\ Len(s) >= Len(cells[i])
    BY <2>1, OverwriteProperties
  <2>3. n[i] <= Len(s) /\ Len(s) <= BufferCap  BY <2>1, <2>2
  <2>4. cells' = [cells EXCEPT ![i] = s]  BY <1>4 DEF WriteCopy
  <2> HIDE DEF s
  <2>5. cells' \in [Sessions -> Seq(Packets)]  BY <2>2, <2>4
  <2>6. \A j \in Sessions : n[j] <= Len(cells'[j]) /\ Len(cells'[j]) <= BufferCap
    BY <2>3, <2>4
  <2> QED BY <1>4, <2>5, <2>6 DEF WriteCopy
<1>5. CASE WriteCount(i, p)
  <2>1. n[i] < Len(cells[i])  BY <1>5 DEF WriteCount, LinesInv, BufferInv, Holding
  <2>2. n' \in [Sessions -> Nat] /\ \A j \in Sessions : n'[j] <= Len(cells[j])
    BY <1>5, <2>1 DEF WriteCount
  <2>3. printing' \in [Sessions -> {{}} \cup {{q} : q \in Packets}]
    BY <1>5 DEF WriteCount, PrintReturns
  <2>4. printed' \in [Sessions -> Seq(Packets)]  BY <1>5 DEF WriteCount
  <2>5. printer' \in [Packets -> Places]  BY <1>5 DEF WriteCount, PrintReturns, Places
  <2> QED BY <1>5, <2>2, <2>3, <2>4, <2>5 DEF WriteCount, Places
<1>6. CASE WriteFails(i, p)  BY <1>6 DEF WriteFails, PrintReturns
<1> QED BY <1>1, <1>2, <1>3, <1>4, <1>5, <1>6 DEF PrintStep

(* Moving lines to the front of the buffer leaves its length alone.        *)
LEMMA ResetLength ==
  ASSUME PacketLoggerTypeOK, NEW i \in Sessions, FlushReset(i)
  PROVE  cells' \in [Sessions -> Seq(Packets)] /\ \A j \in Sessions : Len(cells'[j]) = Len(cells[j])
<1> USE PacketLoggerAssumption DEF PacketLoggerTypeOK
<1> DEFINE w == written[i]
           c == cells[i]
           s == SubSeq(c, w + 1, n[i]) \o SubSeq(c, n[i] - w + 1, Len(c))
<1>1. c \in Seq(Packets) /\ w \in Nat /\ n[i] \in Nat /\ n[i] <= Len(c)
  OBVIOUS
<1>2. ASSUME n[i] > w PROVE s \in Seq(Packets) /\ Len(s) = Len(c)
  <2> HIDE DEF c, w
  <2>1. \A k \in 1..Len(c) : c[k] \in Packets  BY <1>1
  <2>2. SubSeq(c, w + 1, n[i]) \in Seq(Packets) /\ Len(SubSeq(c, w + 1, n[i])) = n[i] - w
    BY <1>1, <1>2, <2>1, SubSeqProperties
  <2>3. /\ SubSeq(c, n[i] - w + 1, Len(c)) \in Seq(Packets)
        /\ Len(SubSeq(c, n[i] - w + 1, Len(c))) = Len(c) - (n[i] - w)
    <3>1. n[i] - w + 1 \in 1..(Len(c) + 1)  BY <1>1, <1>2
    <3>2. \A k \in (n[i] - w + 1)..Len(c) : c[k] \in Packets  BY <1>1, <2>1, <3>1
    <3>3. n[i] - w + 1 \in Int /\ Len(c) \in Int  BY <1>1
    <3>4. /\ SubSeq(c, n[i] - w + 1, Len(c)) \in Seq(Packets)
          /\ Len(SubSeq(c, n[i] - w + 1, Len(c))) =
               IF n[i] - w + 1 <= Len(c) THEN Len(c) - (n[i] - w + 1) + 1 ELSE 0
      BY <3>2, <3>3, SubSeqProperties
    <3> QED BY <1>1, <3>1, <3>4
  <2>4. s \in Seq(Packets) /\ Len(s) = (n[i] - w) + (Len(c) - (n[i] - w))
    BY <2>2, <2>3, ConcatProperties
  <2> HIDE DEF s
  <2> QED BY <1>1, <2>4
<1>3. cells' = [cells EXCEPT ![i] = IF n[i] > w THEN s ELSE c]
  BY DEF FlushReset
<1> HIDE DEF s
<1> QED BY <1>1, <1>2, <1>3

LEMMA FlushTypes ==
  ASSUME PacketLoggerTypeOK, NEW i \in Sessions, FlushStep(i)
  PROVE  PacketLoggerTypeOK'
<1>len. FlushReset(i) => /\ cells' \in [Sessions -> Seq(Packets)]
                       /\ \A j \in Sessions : Len(cells'[j]) = Len(cells[j])
  BY ResetLength
<1>0. Buffered(i) \in Seq(Packets)  BY BufferedProperties
<1> USE PacketLoggerAssumption DEF PacketLoggerTypeOK
<1> USE DEF writerVars
<1>1. CASE FlushWrite(i)
  <2>1. packetFile[i] \o Buffered(i) \in Seq(Packets)  BY <1>0
  <2>2. packetFile' \in [Sessions -> Seq(Packets)]  BY <1>1, <2>1 DEF FlushWrite
  <2>3. raced' \in [Sessions -> BOOLEAN] /\ flush' \in [Sessions -> {"none", "written", "done"}]
    BY <1>1 DEF FlushWrite
  <2>4. Len(printed[i]) \in Nat  OBVIOUS
  <2>5. written' \in [Sessions -> Nat] /\ before' \in [Sessions -> Nat]
    BY <1>1, <2>4 DEF FlushWrite
  <2> QED BY <1>1, <2>2, <2>3, <2>5 DEF FlushWrite
<1>2. CASE FlushReset(i)
  <2>1. n' = [n EXCEPT ![i] = IF n[i] > written[i] THEN n[i] - written[i] ELSE 0]
    BY <1>2 DEF FlushReset
  <2>2. n' \in [Sessions -> Nat] /\ \A j \in Sessions : n'[j] <= n[j]  BY <2>1
  <2>3. cells' \in [Sessions -> Seq(Packets)] /\ \A j \in Sessions : Len(cells'[j]) = Len(cells[j])
    BY <1>len, <1>2
  <2>4. \A j \in Sessions : n[j] \in Nat /\ Len(cells[j]) \in Nat  OBVIOUS
  <2>5. \A j \in Sessions : n'[j] <= Len(cells'[j]) /\ Len(cells'[j]) <= BufferCap
    BY <2>2, <2>3, <2>4
  <2>6. /\ failed' \in [Sessions -> BOOLEAN] /\ flush' \in [Sessions -> {"none", "written", "done"}]
        /\ UNCHANGED <<printer, printing, packetFile, written, before, printed, raced>>
    <3>1. (n[i] > written[i]) \in BOOLEAN  OBVIOUS
    <3> QED BY <1>2, <3>1 DEF FlushReset
  <2> QED BY <2>2, <2>3, <2>5, <2>6
<1>3. CASE FlushEmpty(i)
  <2>1. Len(printed[i]) \in Nat  OBVIOUS
  <2> QED BY <1>3, <2>1 DEF FlushEmpty
<1> QED BY <1>1, <1>2, <1>3 DEF FlushStep

-----------------------------------------------------------------------------
(* Lines                                                                   *)

(* What was kept stays kept: file and history only grow.                   *)
LEMMA StillKept ==
  ASSUME PacketLoggerTypeOK, NEW i \in Sessions, KeptInv(i), before'[i] = before[i],
         NEW f \in Seq(Packets), packetFile'[i] = packetFile[i] \o f,
         NEW g \in Seq(Packets), printed'[i] = printed[i] \o g
  PROVE  KeptInv(i)'
<1>1. packetFile[i] \in Seq(Packets) /\ printed[i] \in Seq(Packets) /\ before[i] \in Nat
  BY DEF PacketLoggerTypeOK
<1>2. /\ Len(packetFile'[i]) = Len(packetFile[i]) + Len(f)
      /\ \A k \in 1..Len(packetFile[i]) : packetFile'[i][k] = packetFile[i][k]
  BY <1>1, ConcatProperties
<1>3. /\ Len(printed'[i]) = Len(printed[i]) + Len(g)
      /\ \A k \in 1..Len(printed[i]) : printed'[i][k] = printed[i][k]
  BY <1>1, ConcatProperties
<1> QED BY <1>1, <1>2, <1>3 DEF KeptInv

LEMMA PrintLines ==
  ASSUME PacketLoggerTypeOK, PacketLoggerTypeOK', NEW i \in Sessions, NEW p \in Packets,
         LinesInv(i), printer[p] \in Holding => p \in printing[i], PrintStep(i, p)
  PROVE  LinesInv(i)'
<1>1. /\ cells[i] \in Seq(Packets) /\ cells'[i] \in Seq(Packets)
      /\ packetFile[i] \in Seq(Packets) /\ printed[i] \in Seq(Packets)
      /\ n[i] \in Nat /\ n'[i] \in Nat /\ before[i] \in Nat
      /\ n[i] <= Len(cells[i]) /\ n'[i] <= Len(cells'[i])
  BY DEF PacketLoggerTypeOK
<1>2. printer[p] \in Holding => printing[i] = {p}
  <2>1. printing[i] \in {{}} \cup {{q} : q \in Packets}  BY DEF PacketLoggerTypeOK
  <2> QED BY <2>1
<1>3. /\ Buffered(i) \in Seq(Packets) /\ Len(Buffered(i)) = n[i]
      /\ \A k \in 1..n[i] : Buffered(i)[k] = cells[i][k]
  BY BufferedProperties
<1>4. /\ Buffered(i)' \in Seq(Packets) /\ Len(Buffered(i)') = n'[i]
      /\ \A k \in 1..n'[i] : Buffered(i)'[k] = cells'[i][k]
  <2>1. \A k \in 1..n'[i] : cells'[i][k] \in Packets  BY <1>1
  <2> QED BY <1>1, <2>1, SubSeqProperties DEF Buffered
<1>5. CASE PrintLock(i, p)
  <2>1. printing[i] = {} /\ printing'[i] = {p} /\ printer'[p] = "write"
        /\ raced'[i] = (raced[i] \/ flush[i] = "written")
        /\ UNCHANGED <<cells, n, failed, packetFile, flush, written, before, printed>>
    BY <1>5 DEF PrintLock, PrinterTo, writerVars, PacketLoggerTypeOK
  <2>2. BufferInv(i)'  BY <2>1 DEF BufferInv, Holding
  <2>3. WriterInv(i) => WriterInv(i)'  BY <2>1 DEF WriterInv, Buffered
  <2>4. KeptInv(i) => KeptInv(i)'  BY <2>1 DEF KeptInv
  <2> QED BY <2>1, <2>2, <2>3, <2>4 DEF LinesInv
<1>6. CASE WriteFull(i, p)
  <2>1. /\ printer[p] = "write" /\ printer'[p] = "full" /\ ~failed[i] /\ n[i] = BufferCap
        /\ packetFile'[i] = packetFile[i] \o Buffered(i)
        /\ UNCHANGED <<printing, cells, n, failed, flush, written, before, printed, raced>>
    BY <1>6 DEF WriteFull, PrinterTo, PacketLoggerTypeOK
  <2>2. printing[i] = {p}  BY <1>2, <2>1 DEF Holding
  <2>3. BufferInv(i)'  BY <2>1, <2>2 DEF BufferInv, Holding
  <2>4. n[i] > 0  BY <2>1, PacketLoggerAssumption
  <2>5. ~raced[i] => flush[i] # "written"  BY <2>2 DEF LinesInv, FlushInv
  <2>6. WriterInv(i) => WriterInv(i)'  BY <2>1, <2>2, <2>4 DEF WriterInv
  <2>7. KeptInv(i) => KeptInv(i)'
    <3>1. printed'[i] = printed[i] \o <<>>  BY <1>1, <2>1, ConcatEmptySeq
    <3>2. <<>> \in Seq(Packets)  OBVIOUS
    <3> QED BY <1>3, <2>1, <3>1, <3>2, StillKept
  <2> QED BY <2>1, <2>3, <2>5, <2>6, <2>7 DEF LinesInv
<1>7. CASE WriteReset(i, p)
  <2>1. /\ printer[p] = "full" /\ printer'[p] = "write" /\ n'[i] = 0
        /\ UNCHANGED <<printing, cells, failed, packetFile, flush, written, before, printed, raced>>
    BY <1>7 DEF WriteReset, PrinterTo, PacketLoggerTypeOK
  <2>2. printing[i] = {p}  BY <1>2, <2>1 DEF Holding
  <2>3. BufferInv(i)'  BY <2>1, <2>2 DEF BufferInv, Holding
  <2>4. ~raced[i] => flush[i] # "written"  BY <2>2 DEF LinesInv, FlushInv
  <2>5. WriterInv(i) => WriterInv(i)'
    <3>1. Buffered(i)' = <<>>  BY <1>4, <2>1, EmptySeq
    <3>2. packetFile[i] \o <<>> = packetFile[i]  BY <1>1, ConcatEmptySeq
    <3> QED BY <2>1, <2>2, <3>1, <3>2 DEF WriterInv
  <2>6. KeptInv(i) => KeptInv(i)'  BY <2>1 DEF KeptInv
  <2> QED BY <2>1, <2>3, <2>4, <2>5, <2>6 DEF LinesInv
<1>8. CASE WriteCopy(i, p)
  <2>1. /\ printer[p] = "write" /\ printer'[p] = "copied" /\ ~failed[i] /\ n[i] < BufferCap
        /\ cells'[i] = Overwrite(cells[i], n[i] + 1, p)
        /\ UNCHANGED <<printing, n, failed, packetFile, flush, written, before, printed, raced>>
    BY <1>8 DEF WriteCopy, PrinterTo, PacketLoggerTypeOK
  <2>2. printing[i] = {p}  BY <1>2, <2>1 DEF Holding
  <2>3. /\ n[i] < Len(cells'[i]) /\ cells'[i][n[i] + 1] = p
        /\ \A k \in 1..n[i] : cells'[i][k] = cells[i][k]
    <3>1. n[i] + 1 \in 1..(Len(cells[i]) + 1)  BY <1>1
    <3> DEFINE s == Overwrite(cells[i], n[i] + 1, p)
    <3>2. /\ Len(s) = IF n[i] + 1 > Len(cells[i]) THEN n[i] + 1 ELSE Len(cells[i])
          /\ s[n[i] + 1] = p
          /\ \A k \in 1..Len(cells[i]) : k # n[i] + 1 => s[k] = cells[i][k]
      <4>1. cells[i] \in Seq(Packets)  BY <1>1
      <4> HIDE DEF s
      <4> QED BY <3>1, <4>1, OverwriteProperties DEF s
    <3> HIDE DEF s
    <3>3. cells'[i] = s  BY <2>1 DEF s
    <3>4. Len(s) >= n[i] + 1  BY <1>1, <3>2
    <3> QED BY <1>1, <3>2, <3>3, <3>4
  <2>4. BufferInv(i)'  BY <2>1, <2>2, <2>3 DEF BufferInv, Holding
  <2>5. ~raced[i] => flush[i] # "written"  BY <2>2 DEF LinesInv, FlushInv
  <2>6. WriterInv(i) => WriterInv(i)'
    <3>1. Buffered(i)' = Buffered(i)
      <4>1. \A k \in 1..n[i] : Buffered(i)'[k] = Buffered(i)[k]  BY <1>3, <1>4, <2>1, <2>3
      <4> QED BY <1>3, <1>4, <2>1, <4>1, SeqEqual
    <3> QED BY <2>1, <2>2, <2>3, <3>1 DEF WriterInv
  <2>7. KeptInv(i) => KeptInv(i)'  BY <2>1 DEF KeptInv
  <2> QED BY <2>1, <2>4, <2>5, <2>6, <2>7 DEF LinesInv
<1>9. CASE WriteCount(i, p)
  <2>1. /\ printer[p] = "copied" /\ printing'[i] = {} /\ n'[i] = n[i] + 1
        /\ printed'[i] = Append(printed[i], p)
        /\ UNCHANGED <<cells, failed, packetFile, flush, written, before, raced>>
    BY <1>9 DEF WriteCount, PrintReturns, PacketLoggerTypeOK
  <2>2. printing[i] = {p}  BY <1>2, <2>1 DEF Holding
  <2>3. BufferInv(i)'  BY <2>1 DEF BufferInv
  <2>4. ~raced[i] => flush[i] # "written"  BY <2>2 DEF LinesInv, FlushInv
  <2>5. printed'[i] = printed[i] \o <<p>>  BY <1>1, <2>1, AppendIsConcat
  <2>6. <<p>> \in Seq(Packets) /\ Len(<<p>>) = 1 /\ <<p>>[1] = p  OBVIOUS
  <2>7. WriterInv(i) => WriterInv(i)'
    <3> SUFFICES ASSUME WriterInv(i) PROVE packetFile[i] \o Buffered(i)' = printed'[i]
      BY <2>1 DEF WriterInv
    <3>1. cells[i][n[i] + 1] = p /\ packetFile[i] \o Buffered(i) = printed[i]
      BY <2>1, <2>2 DEF WriterInv
    <3>2. Buffered(i)' = Buffered(i) \o <<p>>
      <4>1. Buffered(i) \o <<p>> \in Seq(Packets) /\ Len(Buffered(i) \o <<p>>) = n[i] + 1
        BY <1>1, <1>3, <2>6, ConcatProperties
      <4>2. \A k \in 1..(n[i] + 1) :
              (Buffered(i) \o <<p>>)[k] = IF k <= n[i] THEN Buffered(i)[k] ELSE <<p>>[k - n[i]]
        BY <1>1, <1>3, <2>6, ConcatProperties
      <4>3. \A k \in 1..(n[i] + 1) : Buffered(i)'[k] = (Buffered(i) \o <<p>>)[k]
        <5> TAKE k \in 1..(n[i] + 1)
        <5>1. Buffered(i)'[k] = cells[i][k]  BY <1>4, <2>1
        <5>2. (Buffered(i) \o <<p>>)[k] = IF k <= n[i] THEN Buffered(i)[k] ELSE <<p>>[k - n[i]]
          BY <4>2
        <5>3. CASE k <= n[i]
          <6>1. k \in 1..n[i]  BY <1>1, <5>3
          <6>2. Buffered(i)[k] = cells[i][k]  BY <1>3, <6>1
          <6> QED  BY <5>1, <5>2, <5>3, <6>2
        <5>4. CASE k = n[i] + 1
          <6>1. k - n[i] = 1 /\ ~(k <= n[i])  BY <1>1, <5>4
          <6> QED  BY <2>6, <3>1, <5>1, <5>2, <5>4, <6>1
        <5>5. k <= n[i] \/ k = n[i] + 1
          <6>1. n[i] \in Nat  BY <1>1
          <6> QED  BY <6>1
        <5> QED  BY <5>3, <5>4, <5>5
      <4>4. Buffered(i)' \in Seq(Packets) /\ Len(Buffered(i)') = n[i] + 1  BY <1>4, <2>1
      <4>5. \A k \in 1..Len(Buffered(i)') : Buffered(i)'[k] = (Buffered(i) \o <<p>>)[k]
        BY <4>3, <4>4
      <4>6. Len(Buffered(i)') = Len(Buffered(i) \o <<p>>)  BY <4>1, <4>4
      <4> QED  BY <4>1, <4>4, <4>5, <4>6, SeqEqual
    <3>3. (packetFile[i] \o Buffered(i)) \o <<p>> = packetFile[i] \o (Buffered(i) \o <<p>>)
      <4>1. packetFile[i] \in Seq(Packets)  BY <1>1
      <4>2. Buffered(i) \in Seq(Packets)  BY <1>3
      <4> QED BY <4>1, <4>2, ConcatLine
    <3> QED BY <2>5, <3>1, <3>2, <3>3
  <2>8. KeptInv(i) => KeptInv(i)'
    <3>1. packetFile'[i] = packetFile[i] \o <<>>  BY <1>1, <2>1, ConcatEmptySeq
    <3>2. <<>> \in Seq(Packets)  OBVIOUS
    <3> QED BY <2>1, <2>5, <2>6, <3>1, <3>2, StillKept
  <2> QED BY <2>1, <2>3, <2>4, <2>7, <2>8 DEF LinesInv
<1>10. CASE WriteFails(i, p)
  <2>1. /\ printer[p] = "write" /\ failed[i] /\ printing'[i] = {}
        /\ UNCHANGED <<cells, n, failed, packetFile, flush, written, before, printed, raced>>
    BY <1>10 DEF WriteFails, PrintReturns, PacketLoggerTypeOK, writerVars
  <2>2. printing[i] = {p}  BY <1>2, <2>1 DEF Holding
  <2>3. BufferInv(i)'  BY <2>1 DEF BufferInv
  <2>4. raced[i]  BY <2>1, <2>2 DEF LinesInv, FlushInv, WriterInv
  <2>5. KeptInv(i) => KeptInv(i)'  BY <2>1 DEF KeptInv
  <2> QED BY <2>1, <2>3, <2>4, <2>5 DEF LinesInv
<1> QED BY <1>5, <1>6, <1>7, <1>8, <1>9, <1>10 DEF PrintStep

(* Flush finds every line that was printed in the file or in the buffer,   *)
(* and those in the buffer twice if a Write has just written them too.     *)
LEMMA FlushLines ==
  ASSUME PacketLoggerTypeOK, PacketLoggerTypeOK', NEW i \in Sessions, LinesInv(i), FlushStep(i)
  PROVE  LinesInv(i)'
<1>1. /\ packetFile[i] \in Seq(Packets) /\ printed[i] \in Seq(Packets)
      /\ packetFile'[i] \in Seq(Packets)
      /\ n[i] \in Nat /\ written[i] \in Nat
      /\ printing[i] = {} \/ \E q \in Packets : printing[i] = {q}
  BY DEF PacketLoggerTypeOK
<1>2. Buffered(i) \in Seq(Packets) /\ Len(Buffered(i)) = n[i]
  BY BufferedProperties
<1>3. Len(packetFile[i]) \in Nat /\ Len(printed[i]) \in Nat  BY <1>1
<1>4. packetFile[i] \o <<>> = packetFile[i]  BY <1>1, ConcatEmptySeq
<1>5. CASE FlushWrite(i)
  <2>1. /\ flush[i] = "none" /\ flush'[i] = "written" /\ packetFile'[i] = packetFile[i] \o Buffered(i)
        /\ written'[i] = n[i] /\ before'[i] = Len(printed[i]) /\ raced'[i] = (printing[i] # {})
        /\ UNCHANGED <<printer, printing, cells, n, failed, printed>>
    BY <1>5 DEF FlushWrite, PacketLoggerTypeOK
  <2>2. BufferInv(i)'  BY <2>1 DEF LinesInv, BufferInv
  <2>3. WriterInv(i)  BY <2>1 DEF LinesInv
  <2>4. printing[i] = {} => packetFile'[i] = printed[i]  BY <2>1, <2>3 DEF WriterInv
  <2>5. ~raced'[i] => FlushInv(i)'  BY <2>1, <2>4 DEF FlushInv
  <2>6. KeptInv(i)'
    <3>1. /\ Len(packetFile'[i]) = Len(packetFile[i]) + n[i]
          /\ \A k \in 1..Len(packetFile[i]) : packetFile'[i][k] = packetFile[i][k]
      BY <1>1, <1>2, <2>1, ConcatProperties
    <3>2. CASE packetFile[i] = printed[i]  BY <1>1, <1>3, <2>1, <3>1, <3>2 DEF KeptInv
    <3>3. CASE packetFile[i] \o Buffered(i) = printed[i]  BY <1>1, <1>3, <2>1, <3>1, <3>3 DEF KeptInv
    <3> QED BY <2>3, <3>2, <3>3 DEF WriterInv
  <2> QED BY <2>1, <2>2, <2>5, <2>6 DEF LinesInv
<1>6. CASE FlushReset(i)
  <2>1. /\ flush[i] = "written" /\ flush'[i] = "done"
        /\ UNCHANGED <<printer, printing, packetFile, written, before, printed, raced>>
        /\ failed'[i] = (n[i] > written[i])
        /\ n'[i] = IF n[i] > written[i] THEN n[i] - written[i] ELSE 0
    BY <1>6 DEF FlushReset, PacketLoggerTypeOK
  <2>2. KeptInv(i)'  BY <2>1 DEF LinesInv, KeptInv
  <2>3. BufferInv(i)'
    <3>1. \A p \in printing[i] : printer[p] \in Holding  BY DEF LinesInv, BufferInv
    <3>2. ASSUME NEW p \in printing[i], printer[p] = "copied" PROVE n'[i] < Len(cells'[i])
      <4>1. n[i] < Len(cells[i])  BY <3>2 DEF LinesInv, BufferInv
      <4>2. n'[i] <= n[i]  BY <1>1, <2>1
      <4>3. Len(cells'[i]) = Len(cells[i])  BY <1>6, ResetLength
      <4>4. Len(cells[i]) \in Nat /\ n'[i] \in Nat  BY DEF PacketLoggerTypeOK
      <4> QED BY <1>1, <4>1, <4>2, <4>3, <4>4
    <3> QED BY <2>1, <3>1, <3>2 DEF BufferInv
  <2>4. ~raced[i] => WriterInv(i)'
    <3> SUFFICES ASSUME FlushInv(i) PROVE WriterInv(i)'  BY <2>1 DEF LinesInv
    <3>1. printing'[i] = {} /\ ~failed'[i] /\ n'[i] = 0 /\ packetFile'[i] = printed'[i]
      <4>1. n[i] = written[i] /\ ~(n[i] > written[i])  BY <1>1 DEF FlushInv
      <4> QED BY <2>1, <4>1 DEF FlushInv
    <3>2. Buffered(i)' = <<>>  BY <3>1, SubSeqEmpty DEF Buffered
    <3> QED BY <1>4, <2>1, <3>1, <3>2 DEF WriterInv
  <2> QED BY <2>1, <2>2, <2>3, <2>4 DEF LinesInv
<1>7. CASE FlushEmpty(i)
  <2>1. /\ flush[i] = "none" /\ n[i] = 0 /\ flush'[i] = "done" /\ before'[i] = Len(printed[i])
        /\ UNCHANGED <<printer, printing, writerVars, written, printed, raced>>
    BY <1>7 DEF FlushEmpty, PacketLoggerTypeOK
  <2>2. BufferInv(i)'  BY <2>1 DEF LinesInv, BufferInv, writerVars
  <2>3. WriterInv(i)  BY <2>1 DEF LinesInv
  <2>4. WriterInv(i)'  BY <2>1, <2>3 DEF WriterInv, Buffered, writerVars
  <2>5. packetFile[i] = printed[i]
    <3>1. Buffered(i) = <<>>  BY <1>2, <2>1, EmptySeq
    <3> QED BY <1>1, <1>4, <2>1, <2>3, <3>1 DEF WriterInv
  <2>6. KeptInv(i)'  BY <1>3, <2>1, <2>5 DEF KeptInv, writerVars
  <2> QED BY <2>1, <2>2, <2>4, <2>6 DEF LinesInv
<1> QED BY <1>5, <1>6, <1>7 DEF FlushStep

-----------------------------------------------------------------------------
(* What a composition needs to know of the steps                           *)

(* A printer moves on, and holds its instance's mutex or does not.         *)
LEMMA PrintEffect ==
  ASSUME PacketLoggerTypeOK, NEW i \in Sessions, NEW p \in Packets, LinesInv(i),
         printer[p] \in Holding => p \in printing[i], PrintStep(i, p)
  PROVE  /\ printer[p] # "none" /\ printer'[p] # "none"
         /\ \A q \in Packets : q # p => printer'[q] = printer[q]
         /\ printing'[i] \subseteq {p} /\ printing[i] \subseteq {p}
         /\ p \in printing'[i] <=> printer'[p] \in Holding
         /\ \A j \in Sessions : j # i =>
              /\ n'[j] = n[j] /\ cells'[j] = cells[j] /\ failed'[j] = failed[j]
              /\ packetFile'[j] = packetFile[j] /\ printed'[j] = printed[j]
              /\ flush'[j] = flush[j] /\ written'[j] = written[j] /\ before'[j] = before[j]
              /\ raced'[j] = raced[j] /\ printing'[j] = printing[j]
<1>1. printer[p] \in Holding => printing[i] = {p}
  <2>1. printing[i] \in {{}} \cup {{q} : q \in Packets}  BY DEF PacketLoggerTypeOK
  <2> QED BY <2>1
<1> USE DEF PacketLoggerTypeOK, writerVars, PrinterTo, Holding
<1>2. CASE PrintLock(i, p)  BY <1>2 DEF PrintLock
<1>3. CASE WriteFull(i, p)  BY <1>1, <1>3 DEF WriteFull
<1>4. CASE WriteReset(i, p)  BY <1>1, <1>4 DEF WriteReset
<1>5. CASE WriteCopy(i, p)  BY <1>1, <1>5 DEF WriteCopy
<1>6. CASE WriteCount(i, p)  BY <1>1, <1>6 DEF WriteCount, PrintReturns
<1>7. CASE WriteFails(i, p)  BY <1>1, <1>7 DEF WriteFails, PrintReturns
<1> QED BY <1>2, <1>3, <1>4, <1>5, <1>6, <1>7 DEF PrintStep

LEMMA FlushEffect ==
  ASSUME PacketLoggerTypeOK, NEW i \in Sessions, FlushStep(i)
  PROVE  /\ UNCHANGED <<printer, printing, printed>>
         /\ \A j \in Sessions : j # i =>
              /\ n'[j] = n[j] /\ cells'[j] = cells[j] /\ failed'[j] = failed[j]
              /\ packetFile'[j] = packetFile[j]
              /\ flush'[j] = flush[j] /\ written'[j] = written[j] /\ before'[j] = before[j]
              /\ raced'[j] = raced[j]
<1> USE DEF PacketLoggerTypeOK, writerVars
<1>1. CASE FlushWrite(i)  BY <1>1 DEF FlushWrite
<1>2. CASE FlushReset(i)  BY <1>2 DEF FlushReset
<1>3. CASE FlushEmpty(i)  BY <1>3 DEF FlushEmpty
<1> QED BY <1>1, <1>2, <1>3 DEF FlushStep

(* Every step of a printer keeps the invariant of all instances, as long   *)
(* as a printer prints to one instance only.                               *)
LEMMA PrintKeeps ==
  ASSUME PacketLoggerTypeOK, AllLines, NEW i \in Sessions, NEW p \in Packets,
         printer[p] \in Holding => p \in printing[i],
         \A j \in Sessions : p \in printing[j] => j = i,
         PrintStep(i, p)
  PROVE  PacketLoggerTypeOK' /\ AllLines'
<1>1. LinesInv(i)  BY DEF AllLines
<1>2. PacketLoggerTypeOK'  BY <1>1, PrintTypes
<1>3. LinesInv(i)'  BY <1>1, <1>2, PrintLines
<1>4. ASSUME NEW j \in Sessions, j # i PROVE LinesInv(j)'
  <2>1. LinesInv(j)  BY DEF AllLines
  <2>2. \A q \in printing[j] : q # p /\ q \in Packets
    <3>1. printing[j] \in {{}} \cup {{q} : q \in Packets}  BY DEF PacketLoggerTypeOK
    <3> QED BY <1>4, <3>1
  <2>3. \A q \in printing[j] : printer'[q] = printer[q]  BY <1>1, <2>2, PrintEffect
  <2> QED BY <1>1, <1>4, <2>1, <2>3, PrintEffect, OthersLines
<1> QED BY <1>2, <1>3, <1>4 DEF AllLines

LEMMA FlushKeeps ==
  ASSUME PacketLoggerTypeOK, AllLines, NEW i \in Sessions, FlushStep(i)
  PROVE  PacketLoggerTypeOK' /\ AllLines'
<1>1. LinesInv(i)  BY DEF AllLines
<1>2. PacketLoggerTypeOK'  BY FlushTypes
<1>3. LinesInv(i)'  BY <1>1, <1>2, FlushLines
<1>4. ASSUME NEW j \in Sessions, j # i PROVE LinesInv(j)'
  <2>1. LinesInv(j)  BY DEF AllLines
  <2> QED BY <1>4, <2>1, FlushEffect, OthersLines
<1> QED BY <1>2, <1>3, <1>4 DEF AllLines

(* handle starts a printer, which has not locked yet.                      *)
LEMMA HandleKeeps ==
  ASSUME PacketLoggerTypeOK, AllLines, NEW p \in Packets, printer[p] = "none", Handle(p)
  PROVE  PacketLoggerTypeOK' /\ AllLines'
<1> USE DEF Handle, PrinterTo, writerVars
<1>1. PacketLoggerTypeOK'  BY DEF PacketLoggerTypeOK
<1>2. ASSUME NEW j \in Sessions PROVE LinesInv(j)'
  <2>1. LinesInv(j)  BY DEF AllLines
  <2>2. \A q \in printing[j] : printer'[q] = printer[q]
    <3>1. \A q \in printing[j] : q # p  BY <2>1 DEF LinesInv, BufferInv, Holding
    <3> QED BY <3>1 DEF PacketLoggerTypeOK
  <2> QED BY <2>1, <2>2, OthersLines
<1> QED BY <1>1, <1>2 DEF AllLines

(* At first nothing is printed.                                            *)
LEMMA InitKeeps == PacketLoggerInit => PacketLoggerTypeOK /\ AllLines
<1> SUFFICES ASSUME PacketLoggerInit PROVE PacketLoggerTypeOK /\ AllLines  OBVIOUS
<1>1. <<>> \in Seq(Packets) /\ Len(<<>>) = 0  OBVIOUS
<1>2. PacketLoggerTypeOK
  BY <1>1, PacketLoggerAssumption DEF PacketLoggerInit, PacketLoggerTypeOK
<1>3. ASSUME NEW i \in Sessions PROVE LinesInv(i)
  <2>1. Buffered(i) = <<>>  BY SubSeqEmpty DEF Buffered, PacketLoggerInit
  <2>2. <<>> \o <<>> = <<>>  BY <1>1, ConcatEmptySeq
  <2> QED BY <2>1, <2>2 DEF PacketLoggerInit, LinesInv, BufferInv, WriterInv
<1> QED BY <1>2, <1>3 DEF AllLines

(* ... and so the lines are kept.                                          *)
LEMMA KeptByInvariant == PacketLoggerTypeOK /\ AllLines => LinesKept
<1> SUFFICES ASSUME PacketLoggerTypeOK, AllLines, NEW i \in Sessions
             PROVE  /\ flush[i] = "done" =>
                         /\ Len(packetFile[i]) >= before[i]
                         /\ SubSeq(packetFile[i], 1, before[i]) = SubSeq(printed[i], 1, before[i])
                    /\ ~raced[i] /\ printing[i] = {} /\ flush[i] # "written" =>
                         packetFile[i] \o Buffered(i) = printed[i]
  BY DEF LinesKept
<1>1. LinesInv(i)  BY DEF AllLines
<1>2. ~raced[i] /\ printing[i] = {} /\ flush[i] # "written" => packetFile[i] \o Buffered(i) = printed[i]
  BY <1>1 DEF LinesInv, WriterInv
<1>3. ASSUME KeptInv(i)
      PROVE  /\ Len(packetFile[i]) >= before[i]
             /\ SubSeq(packetFile[i], 1, before[i]) = SubSeq(printed[i], 1, before[i])
  <2> DEFINE b == before[i]
             f == packetFile[i]
             g == printed[i]
  <2>1. /\ f \in Seq(Packets) /\ g \in Seq(Packets) /\ b \in Nat
        /\ b <= Len(f) /\ b <= Len(g) /\ \A k \in 1..b : f[k] = g[k]
    BY <1>3 DEF KeptInv, PacketLoggerTypeOK
  <2> HIDE DEF b, f, g
  <2>2. \A k \in 1..b : f[k] \in Packets /\ g[k] \in Packets  BY <2>1
  <2>3. /\ SubSeq(f, 1, b) \in Seq(Packets) /\ Len(SubSeq(f, 1, b)) = b
        /\ \A k \in 1..b : SubSeq(f, 1, b)[k] = f[k]
    BY <2>1, <2>2, SubSeqProperties
  <2>4. /\ SubSeq(g, 1, b) \in Seq(Packets) /\ Len(SubSeq(g, 1, b)) = b
        /\ \A k \in 1..b : SubSeq(g, 1, b)[k] = g[k]
    BY <2>1, <2>2, SubSeqProperties
  <2>5. SubSeq(f, 1, b) = SubSeq(g, 1, b)  BY <2>1, <2>3, <2>4, SeqEqual
  <2> QED BY <2>1, <2>5 DEF b, f, g
<1> QED BY <1>1, <1>2, <1>3 DEF LinesInv
----------------------------------------------------------------------------
(* Here the logins, the exchanges and the drop logger join the lines.      *)

Working == {"start", "finish", "report"}

(* p comes before q.                                                       *)
Before(p, q) == \E k, m \in DOMAIN Battles : k < m /\ Battles[k] = p /\ Battles[m] = q

(* A start in the session i.                                               *)
StartIn(s, i) == Op[s] = "start" /\ session[s] = i /\ Came(s)

(* s is the battle that p finishes.                                        *)
LastStart(s, p) ==
  /\ StartIn(s, session[p]) /\ Before(s, p)
  /\ \A t \in Packets : StartIn(t, session[p]) /\ Before(t, p) => t = s \/ Before(t, s)

LoginInv ==
  /\ login = "shutdown" => current # 0
  /\ login # "none" => current + 1 \in Sessions

(* A printer prints for the session of its packet.                         *)
OwnerInv ==
  /\ \A p \in Packets : pc[p] \in {"idle", "wildcards"} => printer[p] = "none"
  /\ \A p \in Packets : printer[p] \in Holding => p \in printing[session[p]]
  /\ \A i \in Sessions : \A p \in printing[i] : session[p] = i

(* Where an exchange and the goroutine of its handler are.                 *)
PlaceInv ==
  \A p \in Packets :
    /\ Came(p) => session[p] \in Sessions
    /\ pc[p] = "time" => Op[p] = "start"
    /\ pc[p] = "lock" => Op[p] # "other"
    /\ routine[p] # "none" <=> pc[p] = "done" /\ Op[p] # "other"
    /\ routine[p] = "start" => Op[p] = "start"
    /\ routine[p] \in {"finish", "report"} => Op[p] = "finish"

(* The mutex is locked for the goroutine that works.                       *)
MutexInv ==
  \A i \in Sessions : \A p \in Packets :
    p \in dropMutex[i] <=> session[p] = i /\ routine[p] \in Working

(* Exchanges and goroutines of a session follow each other.                *)
TurnInv ==
  \A p, q \in Packets :
    Before(p, q) /\ Came(p) /\ Came(q) /\ session[p] = session[q] =>
      /\ pc[p] = "done"
      /\ routine[q] # "none" => routine[p] = "done"

(* currStage is the last start whose goroutine is done.                    *)
StageInv ==
  \A i \in Sessions :
    /\ \A s \in Packets : StartIn(s, i) /\ routine[s] = "done" =>
         currStage[i] # None /\ (s = currStage[i] \/ Before(s, currStage[i]))
    /\ currStage[i] # None =>
         /\ StartIn(currStage[i], i) /\ routine[currStage[i]] = "done"
         /\ haveTables[i]
         /\ isPractice[i] <=> currStage[i] \in Practice
    /\ currStage[i] = None => ~isPractice[i]
    /\ currStage[i] = None /\ haveTables[i] => \E s \in dropMutex[i] : routine[s] = "start"

(* stageStartT is the last start that has got past the write of the time.  *)
TimeInv ==
  \A i \in Sessions :
    /\ \A s \in Packets : StartIn(s, i) /\ pc[s] \in {"lock", "done"} =>
         stageStartT[i] # None /\ (s = stageStartT[i] \/ Before(s, stageStartT[i]))
    /\ stageStartT[i] # None => StartIn(stageStartT[i], i)

ReportRight(r) ==
  /\ Op[r.finish] = "finish" /\ routine[r.finish] = "done" /\ r.finish \notin Failed
  /\ LastStart(r.stage, r.finish) /\ r.stage \notin Practice
  /\ r.since = r.stage \/ (StartIn(r.since, session[r.finish]) /\ Before(r.finish, r.since))

ReportsInv ==
  /\ \A k \in DOMAIN reports :
       /\ ReportRight(reports[k])
       /\ \A m \in DOMAIN reports : reports[m].finish = reports[k].finish => m = k
  /\ \A p \in Packets : Op[p] = "finish" /\ routine[p] = "done" /\ p \notin Failed =>
       \/ \E k \in DOMAIN reports : reports[k].finish = p
       \/ \E s \in Packets : LastStart(s, p) /\ s \in Practice
  /\ \A p \in Packets : routine[p] = "report" =>
       p \notin Failed /\ haveTables[session[p]] /\ ~isPractice[session[p]]

PanicInv ==
  process \in Packets => \A s \in Packets : ~(StartIn(s, session[process]) /\ Before(s, process))

DropsInv == PlaceInv /\ MutexInv /\ TurnInv /\ StageInv /\ TimeInv /\ ReportsInv /\ PanicInv

IInv == TypeOK /\ LoginInv /\ AllLines /\ OwnerInv /\ DropsInv

USE DEF Came

-----------------------------------------------------------------------------
(* The order of the battles                                                *)

LEMMA OrderStrict ==
  ASSUME NEW p \in Packets, NEW q \in Packets, Before(p, q)
  PROVE  p # q /\ ~Before(q, p)
<1>1. PICK k \in DOMAIN Battles, m \in DOMAIN Battles : k < m /\ Battles[k] = p /\ Battles[m] = q
  BY DEF Before
<1>2. DOMAIN Battles = 1..Len(Battles) /\ Len(Battles) \in Nat  BY SessionAssumption
<1>3. \A j, l \in DOMAIN Battles : Battles[j] = Battles[l] => j = l  BY SessionAssumption
<1>4. k \in Int /\ m \in Int  BY <1>2
<1>5. p # q  BY <1>1, <1>3, <1>4
<1>6. ASSUME Before(q, p) PROVE FALSE
  <2>1. PICK j \in DOMAIN Battles, l \in DOMAIN Battles : j < l /\ Battles[j] = q /\ Battles[l] = p
    BY <1>6 DEF Before
  <2>2. j = m /\ l = k  BY <1>1, <1>3, <2>1
  <2> QED BY <1>1, <1>4, <2>1, <2>2
<1> QED BY <1>5, <1>6

LEMMA OrderTransitive ==
  ASSUME NEW p \in Packets, NEW q \in Packets, NEW r \in Packets, Before(p, q), Before(q, r)
  PROVE  Before(p, r)
<1>1. PICK k \in DOMAIN Battles, m \in DOMAIN Battles : k < m /\ Battles[k] = p /\ Battles[m] = q
  BY DEF Before
<1>2. PICK j \in DOMAIN Battles, l \in DOMAIN Battles : j < l /\ Battles[j] = q /\ Battles[l] = r
  BY DEF Before
<1>3. m = j  BY <1>1, <1>2, SessionAssumption
<1>4. DOMAIN Battles = 1..Len(Battles) /\ Len(Battles) \in Nat  BY SessionAssumption
<1>5. k < l  BY <1>1, <1>2, <1>3, <1>4
<1> QED BY <1>1, <1>2, <1>5 DEF Before

LEMMA OrderTotal ==
  ASSUME NEW p \in Packets, NEW q \in Packets, Op[p] # "other", Op[q] # "other", p # q
  PROVE  Before(p, q) \/ Before(q, p)
<1>1. PICK k \in DOMAIN Battles, m \in DOMAIN Battles : Battles[k] = p /\ Battles[m] = q
  BY SessionAssumption
<1>2. DOMAIN Battles = 1..Len(Battles) /\ Len(Battles) \in Nat  BY SessionAssumption
<1>3. k < m \/ m < k  BY <1>1, <1>2
<1> QED BY <1>1, <1>3 DEF Before

(* InTurn, without the indices.                                            *)
LEMMA TurnOrder ==
  ASSUME NEW p \in Packets, NEW q \in Packets, InTurn(p)
  PROVE  /\ Before(p, q) => pc[q] = "idle"
         /\ Before(q, p) => Idle(q) \/ session[q] # current
BY SessionAssumption DEF InTurn, Before

(* Started names the last start.                                           *)
LEMMA LastIsStarted ==
  ASSUME NEW p \in Packets, NEW s \in Packets, LastStart(s, p)
  PROVE  Started(p) = s
<1>1. DOMAIN Battles = 1..Len(Battles) /\ Len(Battles) \in Nat  BY SessionAssumption
<1>2. \A j, l \in DOMAIN Battles : Battles[j] = Battles[l] => j = l  BY SessionAssumption
<1>3. \A k \in DOMAIN Battles : Battles[k] \in Packets  BY <1>1, SessionAssumption
<1>4. PICK c \in DOMAIN Battles : Battles[c] = s /\ c \in StartsBefore(p)
  BY DEF LastStart, StartIn, Before, StartsBefore
<1>5. \A k \in StartsBefore(p) : k \in DOMAIN Battles /\ StartIn(Battles[k], session[p]) /\ Before(Battles[k], p)
  BY <1>1 DEF StartsBefore, StartIn, Before
<1>6. ASSUME NEW k \in StartsBefore(p) PROVE k <= c
  <2>1. Battles[k] = s \/ Before(Battles[k], s)  BY <1>3, <1>5 DEF LastStart
  <2>2. CASE Battles[k] = s  BY <1>1, <1>2, <1>4, <1>5, <2>2
  <2>3. CASE Before(Battles[k], s)
    <3>1. PICK j \in DOMAIN Battles, l \in DOMAIN Battles :
            j < l /\ Battles[j] = Battles[k] /\ Battles[l] = s
      BY <2>3 DEF Before
    <3>2. j = k /\ l = c  BY <1>2, <1>4, <1>5, <3>1
    <3> QED BY <1>1, <3>1, <3>2
  <2> QED BY <2>1, <2>2, <2>3
<1> DEFINE top == CHOOSE k \in StartsBefore(p) : \A m \in StartsBefore(p) : m <= k
<1>7. top \in StartsBefore(p) /\ \A m \in StartsBefore(p) : m <= top
  BY <1>4, <1>6
<1>8. Started(p) = Battles[top]  BY DEF Started
<1> HIDE DEF top
<1>9. top = c  BY <1>1, <1>4, <1>5, <1>6, <1>7
<1> QED BY <1>4, <1>8, <1>9

-----------------------------------------------------------------------------
(* The packet logger                                                       *)

LEMMA LinesFrame ==
  ASSUME PacketLoggerTypeOK, AllLines, UNCHANGED plVars
  PROVE  PacketLoggerTypeOK' /\ AllLines'
<1>1. PacketLoggerTypeOK'  BY DEF PacketLoggerTypeOK, plVars, writerVars
<1>2. ASSUME NEW j \in Sessions PROVE LinesInv(j)'
  <2>1. LinesInv(j)  BY DEF AllLines
  <2> QED BY <2>1, OthersLines DEF plVars, writerVars
<1> QED BY <1>1, <1>2 DEF AllLines

(* The lines and their owners, through every step.                         *)
LEMMA LinesStep ==
  ASSUME TypeOK, LoginInv, AllLines, OwnerInv, PlaceInv, Next
  PROVE  PacketLoggerTypeOK' /\ AllLines' /\ OwnerInv'
<1> USE DEF OwnerInv
<1>1. PacketLoggerTypeOK /\ pc \in [Packets -> {"idle", "wildcards", "time", "lock", "done"}]
      /\ session \in [Packets -> Sessions \cup {0}] /\ current \in Sessions \cup {0}
  BY DEF TypeOK
<1>2. \A i \in Sessions : \A q \in printing[i] : printer[q] \in Holding /\ q \in Packets
  <2>1. \A i \in Sessions : printing[i] \in {{}} \cup {{q} : q \in Packets}
    BY <1>1 DEF PacketLoggerTypeOK
  <2> QED BY <2>1 DEF AllLines, LinesInv, BufferInv
<1>3. ASSUME UNCHANGED plVars, UNCHANGED session,
             \A q \in Packets : pc'[q] \in {"idle", "wildcards"} => pc[q] \in {"idle", "wildcards"}
      PROVE  PacketLoggerTypeOK' /\ AllLines' /\ OwnerInv'
  <2>1. PacketLoggerTypeOK' /\ AllLines'  BY <1>1, <1>3, LinesFrame
  <2>2. printer' = printer /\ printing' = printing  BY <1>3 DEF plVars
  <2> QED BY <1>3, <2>1, <2>2
<1>4. ASSUME FlushStep(current), current \in Sessions, UNCHANGED <<session, pc>>
      PROVE  PacketLoggerTypeOK' /\ AllLines' /\ OwnerInv'
  <2>1. PacketLoggerTypeOK' /\ AllLines'  BY <1>1, <1>4, FlushKeeps
  <2>2. printer' = printer /\ printing' = printing  BY <1>1, <1>4, FlushEffect
  <2> QED BY <1>4, <2>1, <2>2
<1>5. CASE LoginShutdown
  <2>1. CASE flush[current] = "done"  BY <1>3, <1>5, <2>1 DEF LoginShutdown
  <2>2. CASE flush[current] # "done"
    BY <1>1, <1>4, <1>5, <2>2 DEF LoginShutdown, LoginInv
  <2> QED BY <2>1, <2>2
<1>6. CASE Interrupt  BY <1>1, <1>4, <1>6 DEF Interrupt, sessionVars
<1>7. CASE LoginComes \/ LoginInit \/ LoginStore
  BY <1>3, <1>7 DEF LoginComes, LoginInit, LoginStore
<1>8. ASSUME NEW p \in Packets, PacketComes(p) PROVE PacketLoggerTypeOK' /\ AllLines' /\ OwnerInv'
  <2>1. /\ UNCHANGED plVars /\ pc[p] = "idle" /\ pc'[p] = "wildcards"
        /\ \A q \in Packets : q # p => pc'[q] = pc[q] /\ session'[q] = session[q]
    BY <1>1, <1>8 DEF PacketComes, GoTo
  <2>2. PacketLoggerTypeOK' /\ AllLines'  BY <1>1, <2>1, LinesFrame
  <2>3. printer' = printer /\ printing' = printing  BY <2>1 DEF plVars
  <2>4. printer[p] \notin Holding  BY <2>1 DEF Holding
  <2>5. \A q \in Packets : printer'[q] \in Holding => q \in printing'[session'[q]]
    BY <2>1, <2>3, <2>4
  <2>6. \A i \in Sessions : \A q \in printing'[i] : session'[q] = i
    BY <1>2, <2>1, <2>3, <2>4
  <2> QED BY <2>1, <2>2, <2>3, <2>5, <2>6
<1>9. ASSUME NEW p \in Packets, Wildcards(p) PROVE PacketLoggerTypeOK' /\ AllLines' /\ OwnerInv'
  <2>1. /\ printer[p] = "none" /\ Handle(p) /\ pc'[p] \notin {"idle", "wildcards"} /\ session' = session
        /\ \A q \in Packets : q # p => pc'[q] = pc[q]
    BY <1>1, <1>9 DEF Wildcards, GoTo
  <2>2. PacketLoggerTypeOK' /\ AllLines'  BY <1>1, <2>1, HandleKeeps
  <2>3. /\ printer'[p] = "print" /\ printing' = printing
        /\ \A q \in Packets : q # p => printer'[q] = printer[q]
    BY <1>1, <2>1 DEF Handle, PrinterTo, PacketLoggerTypeOK
  <2>4. printer'[p] \notin Holding  BY <2>3 DEF Holding
  <2> QED BY <2>1, <2>2, <2>3, <2>4
<1>10. ASSUME NEW p \in Packets, Prints(p) PROVE PacketLoggerTypeOK' /\ AllLines' /\ OwnerInv'
  <2> DEFINE i == session[p]
  <2>1. PrintStep(i, p) /\ UNCHANGED <<pc, session>>  BY <1>10 DEF Prints, sessionVars
  <2>2. printer[p] # "none"
    BY <2>1 DEF PrintStep, PrintLock, WriteFull, WriteReset, WriteCopy, WriteCount, WriteFails
  <2>3. i \in Sessions  BY <2>2 DEF PlaceInv
  <2>4. (printer[p] \in Holding => p \in printing[i]) /\ \A j \in Sessions : p \in printing[j] => j = i
    OBVIOUS
  <2> HIDE DEF i
  <2>5. PacketLoggerTypeOK' /\ AllLines'  BY <1>1, <2>1, <2>3, <2>4, PrintKeeps
  <2>6. LinesInv(i)  BY <2>3 DEF AllLines
  <2>7. /\ printer'[p] # "none" /\ \A q \in Packets : q # p => printer'[q] = printer[q]
        /\ printing'[i] \subseteq {p} /\ printing[i] \subseteq {p}
        /\ p \in printing'[i] <=> printer'[p] \in Holding
        /\ \A j \in Sessions : j # i => printing'[j] = printing[j]
    BY <1>1, <2>1, <2>3, <2>4, <2>6, PrintEffect
  <2>8. \A q \in Packets : pc'[q] \in {"idle", "wildcards"} => printer'[q] = "none"
    BY <2>1, <2>2, <2>7
  <2>9. \A j \in Sessions : \A q \in printing'[j] : session'[q] = j
    BY <2>1, <2>7 DEF i
  <2>10. ASSUME NEW q \in Packets, printer'[q] \in Holding PROVE q \in printing'[session'[q]]
    <3>1. CASE q = p  BY <2>1, <2>7, <2>10, <3>1 DEF i
    <3>2. CASE q # p
      <4>1. q \in printing[session[q]] /\ printer[q] # "none"  BY <2>7, <2>10, <3>2 DEF Holding
      <4>2. session[q] \in Sessions  BY <4>1 DEF PlaceInv
      <4> QED BY <2>1, <2>7, <3>2, <4>1, <4>2
    <3> QED BY <3>1, <3>2
  <2> QED BY <2>5, <2>8, <2>9, <2>10
<1>11. ASSUME NEW p \in Packets, StartHandler(p) \/ HandlerReturns(p) \/ RoutineStep(p)
       PROVE  PacketLoggerTypeOK' /\ AllLines' /\ OwnerInv'
  BY <1>1, <1>3, <1>11 DEF StartHandler, HandlerReturns, RoutineStep, Drops, TablesCome, TablesPanic,
       DropsPanic, GoTo, sessionVars
<1> QED BY <1>5, <1>6, <1>7, <1>8, <1>9, <1>10, <1>11 DEF Next, LoginStep, ExchangeStep

-----------------------------------------------------------------------------
(* The drop logger                                                         *)

(* A finish that has the mutex finds its own battle in currStage, if it    *)
(* finds any, and in stageStartT that or a later one.                      *)
LEMMA FindsItsBattle ==
  ASSUME TypeOK, DropsInv, NEW p \in Packets, routine[p] \in {"finish", "report"},
         NEW i, i = session[p], NEW s, s = currStage[i], s # None
  PROVE  /\ i \in Sessions /\ s \in Packets /\ LastStart(s, p)
         /\ stageStartT[i] \in Packets /\ StartIn(stageStartT[i], i)
         /\ stageStartT[i] = s \/ Before(p, stageStartT[i])
<1> USE DEF DropsInv
<1>1. i \in Sessions /\ pc[p] = "done" /\ Op[p] = "finish"
  BY DEF PlaceInv
<1>2. s \in Packets /\ StartIn(s, i) /\ routine[s] = "done"
  BY <1>1 DEF TypeOK, DropLoggerTypeOK, StageInv
<1>3. ASSUME NEW t \in Packets, StartIn(t, i), Before(t, p) PROVE t = s \/ Before(t, s)
  <2>1. routine[t] = "done"  BY <1>1, <1>3 DEF TurnInv, StartIn
  <2> QED BY <1>1, <1>3, <2>1 DEF StageInv
<1>4. Before(s, p)
  <2>1. Before(s, p) \/ Before(p, s)  BY <1>1, <1>2, OrderTotal DEF StartIn
  <2>2. Before(p, s) => routine[p] = "done"  BY <1>1, <1>2 DEF TurnInv, StartIn
  <2> QED BY <2>1, <2>2
<1>5. LastStart(s, p)  BY <1>2, <1>3, <1>4 DEF LastStart
<1> DEFINE t == stageStartT[i]
<1>6. pc[s] = "done"  BY <1>2 DEF PlaceInv
<1>7. t # None /\ (s = t \/ Before(s, t)) /\ StartIn(t, i)
  BY <1>1, <1>2, <1>6 DEF TimeInv
<1>8. t \in Packets  BY <1>1, <1>7 DEF TypeOK, DropLoggerTypeOK
<1>9. ASSUME t # s PROVE Before(p, t)
  <2>1. Before(s, t)  BY <1>7, <1>9
  <2>2. ~Before(t, s)  BY <1>2, <1>8, <2>1, OrderStrict
  <2>3. ~Before(t, p)  BY <1>3, <1>7, <1>8, <1>9, <2>2
  <2> QED BY <1>1, <1>7, <1>8, <2>3, OrderTotal DEF StartIn
<1> QED BY <1>1, <1>2, <1>5, <1>7, <1>8, <1>9

(* The tables came with a start that is done when a finish has the mutex.  *)
LEMMA TablesMeanStart ==
  ASSUME TypeOK, DropsInv, NEW p \in Packets, routine[p] \in {"finish", "report"}, haveTables[session[p]]
  PROVE  currStage[session[p]] # None
<1> USE DEF DropsInv
<1>1. session[p] \in Sessions  BY DEF PlaceInv
<1>2. p \in dropMutex[session[p]]  BY <1>1 DEF MutexInv, Working
<1>3. dropMutex[session[p]] \in {{}} \cup {{q} : q \in Packets}
  BY <1>1 DEF TypeOK, DropLoggerTypeOK
<1>4. \A q \in dropMutex[session[p]] : q = p  BY <1>2, <1>3
<1> QED BY <1>1, <1>4 DEF StageInv

LEMMA LoginBounds ==
  ASSUME TypeOK, LoginInv, Next
  PROVE  current' \in Sessions \cup {0} /\ LoginInv'
<1>1. PICK last \in Nat : Sessions = 1..last
  BY SessionAssumption, FS_CardinalityType
<1>2. current \in Nat  BY <1>1 DEF TypeOK
<1>3. CASE LoginComes
  <2>1. login' = IF current = 0 THEN "init" ELSE "shutdown"  BY <1>3 DEF LoginComes
  <2> QED BY <1>3, <2>1 DEF LoginComes, LoginInv, TypeOK
<1>4. CASE LoginShutdown  BY <1>4 DEF LoginShutdown, LoginInv, TypeOK
<1>5. CASE LoginInit  BY <1>5 DEF LoginInit, LoginInv, TypeOK
<1>6. CASE LoginStore  BY <1>6 DEF LoginStore, LoginInv, TypeOK
<1>7. CASE UNCHANGED <<current, login>>  BY <1>7 DEF LoginInv, TypeOK
<1>8. ASSUME NEW p \in Packets, PacketComes(p) \/ ExchangeStep(p) \/ Prints(p) \/ RoutineStep(p)
      PROVE  UNCHANGED <<current, login>>
  BY <1>8 DEF PacketComes, ExchangeStep, Wildcards, StartHandler, HandlerReturns, Prints, RoutineStep,
       Drops, TablesCome, TablesPanic, DropsPanic, sessionVars
<1>9. Interrupt => UNCHANGED <<current, login>>  BY DEF Interrupt, sessionVars
<1> QED BY <1>3, <1>4, <1>5, <1>6, <1>7, <1>8, <1>9 DEF Next, LoginStep

LEMMA RoutineTypes ==
  ASSUME TypeOK, DropsInv, NEW p \in Packets, RoutineStep(p)
  PROVE  DropLoggerTypeOK'
<1>1. DropLoggerTypeOK  BY DEF TypeOK
<1> DEFINE i == session[p]
<1> USE DEF DropLoggerTypeOK, RoutineTo, RoutineEnds
<1>2. CASE GetTables(i, p)  BY <1>1, <1>2 DEF GetTables
<1>3. CASE BattleStarts(i, p)
  <2>1. /\ isPractice' \in [Sessions -> BOOLEAN] /\ currStage' \in [Sessions -> Packets \cup {None}]
        /\ dropMutex' \in [Sessions -> {{}} \cup {{q} : q \in Packets}]
        /\ routine' \in [Packets -> {"none", "start", "finish", "report", "done"}]
    <3>1. (p \in Practice) \in BOOLEAN  OBVIOUS
    <3> QED BY <1>1, <1>3, <3>1 DEF BattleStarts
  <2> QED BY <1>1, <1>3, <2>1 DEF BattleStarts
<1>4. CASE BattleIgnored(i, p)  BY <1>1, <1>4 DEF BattleIgnored
<1>5. CASE LogDrops(i, p)
  <2>1. dropFile' \in Seq(Packets)  BY <1>1, <1>5 DEF LogDrops
  <2> QED BY <1>1, <1>5, <2>1 DEF LogDrops
<1>6. CASE ReportDrops(i, p)
  <2>1. routine[p] = "report"  BY <1>6 DEF ReportDrops
  <2>2. haveTables[i]  BY <2>1 DEF DropsInv, ReportsInv
  <2>3. currStage[i] # None  BY <2>1, <2>2, TablesMeanStart
  <2>4. currStage[i] \in Packets /\ stageStartT[i] \in Packets
    <3> QED BY <2>1, <2>3, FindsItsBattle, <1>1 DEF DropsInv, PlaceInv
  <2>5. [finish |-> p, stage |-> currStage[i], since |-> stageStartT[i]]
          \in [finish : Packets, stage : Packets, since : Packets]
    BY <2>4
  <2>6. reports' \in Seq([finish : Packets, stage : Packets, since : Packets])
    BY <1>1, <1>6, <2>5 DEF ReportDrops
  <2> QED BY <1>1, <1>6, <2>6 DEF ReportDrops
<1>7. CASE UNCHANGED dlVars  BY <1>1, <1>7 DEF dlVars
<1> QED BY <1>2, <1>3, <1>4, <1>5, <1>6, <1>7
  DEF RoutineStep, Drops, DropStep, TablesCome, TablesPanic, DropsPanic, FinishPanics

LEMMA TypesStep ==
  ASSUME TypeOK, LoginInv, DropsInv, PacketLoggerTypeOK', Next
  PROVE  TypeOK'
<1> DEFINE Spots == {"idle", "wildcards", "time", "lock", "done"}
<1>1. current' \in Sessions \cup {0}  BY LoginBounds
<1>2. DropLoggerTypeOK /\ pc \in [Packets -> Spots] /\ session \in [Packets -> Sessions \cup {0}]
  BY DEF TypeOK
<1>3. ASSUME UNCHANGED <<pc, session>>, DropLoggerTypeOK', login' \in {"none", "shutdown", "init", "wait"},
             process' \in Packets \cup {"up", "tables", "exited"}
      PROVE  TypeOK'
  BY <1>1, <1>2, <1>3 DEF TypeOK
<1>4. UNCHANGED dlVars => DropLoggerTypeOK'  BY <1>2 DEF DropLoggerTypeOK, dlVars
<1>5. CASE LoginComes
  <2>1. login' \in {"none", "shutdown", "init", "wait"}  BY <1>5 DEF LoginComes
  <2> QED BY <1>3, <1>4, <1>5, <2>1 DEF LoginComes, TypeOK
<1>6. CASE LoginShutdown
  <2>1. login' \in {"none", "shutdown", "init", "wait"}  BY <1>6 DEF LoginShutdown
  <2> QED BY <1>3, <1>4, <1>6, <2>1 DEF LoginShutdown, TypeOK
<1>7. CASE LoginInit \/ LoginStore
  <2>1. DropLoggerTypeOK'
    BY <1>2, <1>7 DEF LoginInit, LoginStore, OpenFile, InitReturns, DropLoggerTypeOK
  <2> QED BY <1>3, <1>7, <2>1 DEF LoginInit, LoginStore, TypeOK
<1>8. CASE Interrupt
  <2>1. process' \in {"up", "exited"}  BY <1>8 DEF Interrupt
  <2> QED BY <1>3, <1>4, <1>8, <2>1 DEF Interrupt, sessionVars, TypeOK
<1>9. ASSUME NEW p \in Packets, PacketComes(p) PROVE TypeOK'
  <2>1. pc' \in [Packets -> Spots] /\ session' \in [Packets -> Sessions \cup {0}]
    BY <1>2, <1>9 DEF PacketComes, GoTo, TypeOK
  <2> QED BY <1>1, <1>4, <1>9, <2>1 DEF PacketComes, TypeOK
<1>10. ASSUME NEW p \in Packets, Wildcards(p) PROVE TypeOK'
  <2>1. pc' \in [Packets -> Spots]  BY <1>2, <1>10 DEF Wildcards, GoTo
  <2> QED BY <1>1, <1>4, <1>10, <2>1 DEF Wildcards, TypeOK
<1>11. ASSUME NEW p \in Packets, StartHandler(p) PROVE TypeOK'
  <2>1. pc' \in [Packets -> Spots]  BY <1>2, <1>11 DEF StartHandler, GoTo
  <2>2. DropLoggerTypeOK'  BY <1>2, <1>11 DEF StartHandler, StartTime, DropLoggerTypeOK
  <2> QED BY <1>1, <1>11, <2>1, <2>2 DEF StartHandler, TypeOK
<1>12. ASSUME NEW p \in Packets, HandlerReturns(p) PROVE TypeOK'
  <2>1. pc' \in [Packets -> Spots]  BY <1>2, <1>12 DEF HandlerReturns, GoTo
  <2>2. Op[p] \in {"start", "finish"}
    BY <1>12, DropLoggerAssumption DEF HandlerReturns, DropsInv, PlaceInv
  <2>3. routine' \in [Packets -> {"none", "start", "finish", "report", "done"}]
    BY <1>2, <1>12, <2>2 DEF HandlerReturns, LockAndGo, RoutineTo, DropLoggerTypeOK
  <2>4. DropLoggerTypeOK'
    BY <1>2, <1>12, <2>3 DEF HandlerReturns, LockAndGo, DropLoggerTypeOK
  <2> QED BY <1>1, <1>12, <2>1, <2>4 DEF HandlerReturns, TypeOK
<1>13. ASSUME NEW p \in Packets, Prints(p) PROVE TypeOK'
  BY <1>3, <1>4, <1>13 DEF Prints, sessionVars, TypeOK
<1>14. ASSUME NEW p \in Packets, RoutineStep(p) PROVE TypeOK'
  <2>1. DropLoggerTypeOK'  BY <1>14, RoutineTypes
  <2>2. UNCHANGED <<pc, session, login>> /\ process' \in Packets \cup {"up", "tables", "exited"}
    BY <1>14 DEF RoutineStep, Drops, TablesCome, TablesPanic, DropsPanic, sessionVars, TypeOK
  <2> QED BY <1>3, <2>1, <2>2 DEF TypeOK
<1> QED BY <1>5, <1>6, <1>7, <1>8, <1>9, <1>10, <1>11, <1>12, <1>13, <1>14
  DEF Next, LoginStep, ExchangeStep

-----------------------------------------------------------------------------
(* What the steps do to the order of a session                             *)

(* Nobody new has come.                                                    *)
SameCame == \A q \in Packets : (pc'[q] = "idle" <=> pc[q] = "idle") /\ session'[q] = session[q]

LEMMA SameStarts ==
  ASSUME SameCame
  PROVE  /\ \A s \in Packets : \A i : StartIn(s, i)' <=> StartIn(s, i)
         /\ \A s, p \in Packets : LastStart(s, p)' <=> LastStart(s, p)
BY DEF StartIn, LastStart, Before, SameCame

LEMMA ReportFields ==
  ASSUME DropLoggerTypeOK, NEW k \in DOMAIN reports
  PROVE  \E f, s, u \in Packets : f = reports[k].finish /\ s = reports[k].stage /\ u = reports[k].since
<1>1. reports \in Seq([finish : Packets, stage : Packets, since : Packets])  BY DEF DropLoggerTypeOK
<1> DEFINE R == [finish : Packets, stage : Packets, since : Packets]
<1> HIDE DEF R
<1>2. reports \in Seq(R)  BY <1>1 DEF R
<1>3. reports[k] \in R  BY <1>2, ElementOfSeq
<1>4. reports[k] \in [finish : Packets, stage : Packets, since : Packets]  BY <1>3 DEF R
<1>5. reports[k].finish \in Packets /\ reports[k].stage \in Packets /\ reports[k].since \in Packets
  BY <1>4
<1> QED BY <1>5

(* A report stays right while its goroutine stays done.                    *)
LEMMA StillRight ==
  ASSUME DropLoggerTypeOK, SameCame, NEW k \in DOMAIN reports, ReportRight(reports[k]),
         NEW r, r = reports[k], routine'[r.finish] = "done", NEW m \in DOMAIN reports', reports'[m] = r
  PROVE  ReportRight(reports[m])'
<1>1. PICK f \in Packets, s \in Packets, u \in Packets : f = r.finish /\ s = r.stage /\ u = r.since
  BY ReportFields
<1>2. LastStart(s, f)'  BY <1>1, SameStarts DEF ReportRight
<1>3. session'[f] = session[f]  BY DEF SameCame
<1> DEFINE i == session[f]
<1>4. StartIn(u, i)' <=> StartIn(u, i)  BY <1>3 DEF StartIn, SameCame
<1>5. /\ Op[f] = "finish" /\ routine'[f] = "done" /\ f \notin Failed /\ s \notin Practice
      /\ u = s \/ (StartIn(u, i)' /\ Before(f, u))
  BY <1>1, <1>4 DEF ReportRight
<1>6. StartIn(u, i)' => StartIn(u, session[f])'  BY <1>3 DEF StartIn
<1>7. f = reports'[m].finish /\ s = reports'[m].stage /\ u = reports'[m].since  BY <1>1
<1> QED BY <1>2, <1>5, <1>6, <1>7 DEF ReportRight, Before

LEMMA ReportsFrame ==
  ASSUME TypeOK, DropsInv, SameCame, UNCHANGED reports,
         \A p \in Packets : routine[p] = "done" => routine'[p] = "done",
         \A p \in Packets : Op[p] = "finish" /\ routine'[p] = "done" => routine[p] = "done",
         \A p \in Packets : routine'[p] = "report" =>
           routine[p] = "report" /\ haveTables'[session[p]] /\ ~isPractice'[session[p]]
  PROVE  ReportsInv'
<1>1. ReportsInv /\ DropLoggerTypeOK  BY DEF DropsInv, TypeOK
<1>2. ASSUME NEW k \in DOMAIN reports PROVE ReportRight(reports[k])'
  <2>1. ReportRight(reports[k])  BY <1>1 DEF ReportsInv
  <2>2. PICK f \in Packets : f = reports[k].finish  BY <1>1, ReportFields
  <2>3. routine[f] = "done"  BY <2>1, <2>2 DEF ReportRight
  <2> QED BY <1>1, <2>1, <2>2, <2>3, StillRight
<1>3. \A s, p \in Packets : LastStart(s, p)' <=> LastStart(s, p)  BY SameStarts
<1>4. \A p \in Packets : session'[p] = session[p]  BY DEF SameCame
<1> QED BY <1>1, <1>2, <1>3, <1>4 DEF ReportsInv

LEMMA StageFrame ==
  ASSUME TypeOK, DropsInv, SameCame, UNCHANGED <<currStage, isPractice, haveTables>>,
         \A s \in Packets : Op[s] = "start" => (routine'[s] = "done" <=> routine[s] = "done"),
         \A i \in Sessions : (\E s \in dropMutex[i] : routine[s] = "start") =>
           \E s \in dropMutex'[i] : routine'[s] = "start"
  PROVE  StageInv'
<1>1. \A s \in Packets : \A i : StartIn(s, i)' <=> StartIn(s, i)  BY SameStarts
<1>2. \A i \in Sessions : currStage[i] # None => currStage[i] \in Packets
  BY DEF TypeOK, DropLoggerTypeOK
<1>3. StageInv  BY DEF DropsInv
<1> SUFFICES ASSUME NEW i \in Sessions
             PROVE  /\ \A s \in Packets : StartIn(s, i)' /\ routine'[s] = "done" =>
                         currStage[i] # None /\ (s = currStage[i] \/ Before(s, currStage[i]))
                    /\ currStage[i] # None =>
                         /\ \A s \in Packets : s = currStage[i] => StartIn(s, i)'
                         /\ routine'[currStage[i]] = "done" /\ haveTables[i]
                         /\ isPractice[i] <=> currStage[i] \in Practice
                    /\ currStage[i] = None => ~isPractice[i]
                    /\ currStage[i] = None /\ haveTables[i] => \E s \in dropMutex'[i] : routine'[s] = "start"
  BY <1>2 DEF StageInv, Before, StartIn
<1>4. currStage[i] # None => StartIn(currStage[i], i) /\ routine[currStage[i]] = "done"
  BY <1>3 DEF StageInv
<1>5. currStage[i] # None => routine'[currStage[i]] = "done"
  BY <1>2, <1>4 DEF StartIn
<1> QED BY <1>1, <1>2, <1>3, <1>4, <1>5 DEF StageInv, StartIn

LEMMA TimeFrame ==
  ASSUME TypeOK, DropsInv, SameCame, UNCHANGED stageStartT,
         \A s \in Packets : Op[s] = "start" /\ pc'[s] \in {"lock", "done"} => pc[s] \in {"lock", "done"}
  PROVE  TimeInv'
<1>1. \A s \in Packets : \A i : StartIn(s, i)' <=> StartIn(s, i)  BY SameStarts
<1>2. \A i \in Sessions : stageStartT[i] # None => stageStartT[i] \in Packets
  BY DEF TypeOK, DropLoggerTypeOK
<1>3. TimeInv  BY DEF DropsInv
<1> SUFFICES ASSUME NEW i \in Sessions
             PROVE  /\ \A s \in Packets : StartIn(s, i)' /\ pc'[s] \in {"lock", "done"} =>
                         stageStartT[i] # None /\ (s = stageStartT[i] \/ Before(s, stageStartT[i]))
                    /\ stageStartT[i] # None => \A s \in Packets : s = stageStartT[i] => StartIn(s, i)'
  BY <1>2 DEF TimeInv, Before, StartIn
<1> QED BY <1>1, <1>2, <1>3 DEF TimeInv, StartIn

LEMMA PanicFrame ==
  ASSUME PanicInv, SameCame, process' = process \/ process' \notin Packets
  PROVE  PanicInv'
<1>1. CASE process' \notin Packets  BY <1>1 DEF PanicInv
<1>2. CASE process' = process /\ process' \in Packets
  <2> PICK x \in Packets : x = process  BY <1>2
  <2>1. session'[x] = session[x]  BY DEF SameCame
  <2>2. \A s \in Packets : StartIn(s, session[x])' => StartIn(s, session[x])
    BY <2>1 DEF StartIn, SameCame
  <2> QED BY <1>2, <2>2 DEF PanicInv, Before
<1> QED BY <1>1, <1>2

(* A step of the logins, the printers or of SIGINT.                        *)
LEMMA DropsFrame ==
  ASSUME TypeOK, DropsInv, UNCHANGED <<pc, session, routine, dropMutex, currStage, isPractice, haveTables,
                                       stageStartT, reports>>,
         process' = process \/ process' \notin Packets
  PROVE  DropsInv'
<1> USE DEF DropsInv
<1>1. PlaceInv'  BY DEF PlaceInv
<1>2. MutexInv'  BY DEF MutexInv
<1>3. TurnInv'  BY DEF TurnInv, Before
<1>4. StageInv'  BY DEF StageInv, StartIn, Before
<1>5. TimeInv'  BY DEF TimeInv, StartIn, Before
<1>6. ReportsInv'  BY DEF ReportsInv, ReportRight, LastStart, StartIn, Before
<1>7. PanicInv'  BY DEF PanicInv, StartIn, Before
<1> QED BY <1>1, <1>2, <1>3, <1>4, <1>5, <1>6, <1>7

(* A battle packet comes after those of its session, which are done with.  *)
LEMMA PacketKeepsDrops ==
  ASSUME TypeOK, DropsInv, process = "up", NEW x \in Packets, PacketComes(x)
  PROVE  DropsInv'
<1>0. DropLoggerTypeOK  BY DEF TypeOK
<1> USE DEF DropsInv
<1>1. /\ pc[x] = "idle" /\ pc'[x] = "wildcards" /\ current \in Sessions /\ session'[x] = current
      /\ \A q \in Packets : q # x => pc'[q] = pc[q] /\ session'[q] = session[q]
      /\ UNCHANGED <<dlVars, process>> /\ InTurn(x)
  BY DEF PacketComes, GoTo, TypeOK
<1>2. UNCHANGED <<dropMutex, stageStartT, currStage, isPractice, haveTables, routine, reports, process>>
  BY <1>1 DEF dlVars
<1>3. routine[x] = "none"  BY <1>1 DEF PlaceInv
<1>4. PlaceInv'  BY <1>1, <1>2 DEF PlaceInv
<1>5. MutexInv'  BY <1>1, <1>2, <1>3 DEF MutexInv, Working
<1>6. TurnInv'
  <2> SUFFICES ASSUME NEW p \in Packets, NEW q \in Packets,
                      Before(p, q), pc'[p] # "idle", pc'[q] # "idle", session'[p] = session'[q]
               PROVE  pc'[p] = "done" /\ (routine'[q] # "none" => routine'[p] = "done")
    BY DEF TurnInv, Before
  <2>1. p # q  BY OrderStrict
  <2>2. CASE p # x /\ q # x  BY <1>1, <1>2, <2>2 DEF TurnInv
  <2>3. CASE p = x  BY <1>1, <2>1, <2>3, TurnOrder
  <2>4. CASE q = x
    <3>1. Idle(p) \/ session[p] # current  BY <1>1, <2>4, TurnOrder
    <3>2. pc[p] = "done"  BY <1>1, <2>1, <2>4, <3>1 DEF Idle
    <3> QED BY <1>1, <1>2, <1>3, <2>1, <2>4, <3>2
  <2> QED BY <2>2, <2>3, <2>4
<1>7. \A s \in Packets, i \in Sessions : s # x => (StartIn(s, i)' <=> StartIn(s, i))
  BY <1>1 DEF StartIn
<1>8. \A i \in Sessions : /\ currStage[i] # None => currStage[i] \in Packets \ {x}
                          /\ stageStartT[i] # None => stageStartT[i] \in Packets \ {x}
  BY <1>1 DEF TypeOK, DropLoggerTypeOK, StageInv, TimeInv, StartIn
<1>9. StageInv'
  <2> SUFFICES ASSUME NEW i \in Sessions
               PROVE  /\ \A s \in Packets : StartIn(s, i)' /\ routine[s] = "done" =>
                           currStage[i] # None /\ (s = currStage[i] \/ Before(s, currStage[i]))
                      /\ currStage[i] # None =>
                           /\ \A s \in Packets : s = currStage[i] => StartIn(s, i)'
                           /\ routine[currStage[i]] = "done" /\ haveTables[i]
                           /\ isPractice[i] <=> currStage[i] \in Practice
                      /\ currStage[i] = None => ~isPractice[i]
                      /\ currStage[i] = None /\ haveTables[i] => \E s \in dropMutex[i] : routine[s] = "start"
    BY <1>2, <1>8 DEF StageInv, Before, StartIn
  <2> QED BY <1>3, <1>7, <1>8 DEF StageInv
<1>10. TimeInv'
  <2> SUFFICES ASSUME NEW i \in Sessions
               PROVE  /\ \A s \in Packets : StartIn(s, i)' /\ pc'[s] \in {"lock", "done"} =>
                           stageStartT[i] # None /\ (s = stageStartT[i] \/ Before(s, stageStartT[i]))
                      /\ stageStartT[i] # None => \A s \in Packets : s = stageStartT[i] => StartIn(s, i)'
    BY <1>2, <1>8 DEF TimeInv, Before, StartIn
  <2> QED BY <1>1, <1>7, <1>8 DEF TimeInv
<1>11. ASSUME NEW s \in Packets, NEW p \in Packets, LastStart(s, p), pc[p] # "idle"
       PROVE  LastStart(s, p)'
  <2>1. s # x /\ p # x  BY <1>1, <1>11 DEF LastStart, StartIn
  <2>2. session[p] \in Sessions /\ session'[p] = session[p]  BY <1>1, <1>11, <2>1 DEF PlaceInv
  <2>3. ~Before(x, p)  BY <1>1, <1>11, TurnOrder
  <2> QED BY <1>7, <1>11, <2>1, <2>2, <2>3 DEF LastStart, Before
<1>12. ReportsInv'
  <2>1. ASSUME NEW k \in DOMAIN reports PROVE ReportRight(reports[k])'
    <3>1. PICK f \in Packets, s \in Packets, u \in Packets :
            f = reports[k].finish /\ s = reports[k].stage /\ u = reports[k].since
      BY <1>0, ReportFields
    <3>2. ReportRight(reports[k])  BY DEF ReportsInv
    <3>3. pc[f] = "done" /\ f # x /\ session[f] \in Sessions /\ LastStart(s, f)
      BY <1>1, <3>1, <3>2 DEF PlaceInv, ReportRight
    <3>4. LastStart(s, f)'  BY <1>11, <3>3
    <3>5. PICK i \in Sessions : i = session[f] /\ i = session'[f]  BY <1>1, <3>3
    <3>8. StartIn(u, i) => StartIn(u, i)'  BY <1>1, <3>5 DEF StartIn
    <3>6. reports' = reports /\ routine' = routine  BY <1>2
    <3>7. f = reports'[k].finish /\ s = reports'[k].stage /\ u = reports'[k].since
      BY <3>1, <3>6
    <3>9. /\ Op[f] = "finish" /\ routine'[f] = "done" /\ f \notin Failed /\ s \notin Practice
          /\ u = s \/ (StartIn(u, i)' /\ Before(f, u))
      BY <3>1, <3>2, <3>5, <3>6, <3>8 DEF ReportRight
    <3> QED BY <3>1, <3>4, <3>5, <3>6, <3>7, <3>9 DEF ReportRight, Before
  <2>2. \A p \in Packets : routine[p] # "none" => pc[p] # "idle" /\ p # x  BY <1>1 DEF PlaceInv
  <2>3. \A p \in Packets : routine[p] = "report" => session'[p] = session[p]  BY <1>1, <2>2
  <2> QED BY <1>2, <1>11, <2>1, <2>2, <2>3 DEF ReportsInv
<1>13. PanicInv'  BY <1>2, SessionAssumption DEF PanicInv
<1> QED BY <1>4, <1>5, <1>6, <1>9, <1>10, <1>12, <1>13

-----------------------------------------------------------------------------
(* The exchanges                                                           *)

LEMMA WildcardsKeepDrops ==
  ASSUME TypeOK, DropsInv, NEW x \in Packets, Wildcards(x)
  PROVE  DropsInv'
<1>1. /\ pc[x] = "wildcards" /\ UNCHANGED <<session, process>>
      /\ pc'[x] = CASE Op[x] = "start" -> "time" [] Op[x] = "finish" -> "lock" [] OTHER -> "done"
      /\ \A q \in Packets : q # x => pc'[q] = pc[q]
      /\ UNCHANGED <<dropMutex, stageStartT, currStage, isPractice, haveTables, routine, reports>>
  BY DEF Wildcards, GoTo, TypeOK, dlVars
<1>2. SameCame  BY <1>1 DEF SameCame
<1>3. Op[x] \in {"start", "finish", "other"}  BY DropLoggerAssumption
<1>4. PlaceInv'  BY <1>1, <1>3 DEF DropsInv, PlaceInv
<1>5. MutexInv'  BY <1>1 DEF DropsInv, MutexInv
<1>6. TurnInv'  BY <1>1 DEF DropsInv, TurnInv, Before
<1>7. StageInv'  BY <1>1, <1>2, StageFrame
<1>8. TimeInv'  BY <1>1, <1>2, <1>3, TimeFrame
<1>9. ReportsInv'
  <2>1. \A p \in Packets : routine'[p] = "report" =>
          routine[p] = "report" /\ haveTables'[session[p]] /\ ~isPractice'[session[p]]
    BY <1>1 DEF DropsInv, ReportsInv
  <2> QED BY <1>1, <1>2, <2>1, ReportsFrame
<1>10. PanicInv'  BY <1>1, <1>2, PanicFrame DEF DropsInv
<1> QED BY <1>4, <1>5, <1>6, <1>7, <1>8, <1>9, <1>10 DEF DropsInv

(* The handler of a start is the last that has come.                       *)
LEMMA StartKeepsDrops ==
  ASSUME TypeOK, DropsInv, NEW x \in Packets, StartHandler(x)
  PROVE  DropsInv'
<1> DEFINE i == session[x]
<1>1. /\ pc[x] = "time" /\ pc'[x] = "lock" /\ UNCHANGED <<session, process>>
      /\ \A q \in Packets : q # x => pc'[q] = pc[q]
      /\ UNCHANGED <<dropMutex, currStage, isPractice, haveTables, routine, reports>>
      /\ stageStartT' = [stageStartT EXCEPT ![i] = x]
  BY DEF StartHandler, StartTime, GoTo, TypeOK
<1>2. SameCame  BY <1>1 DEF SameCame
<1>3. i \in Sessions /\ Op[x] = "start"  BY <1>1 DEF DropsInv, PlaceInv
<1>4. PlaceInv'  BY <1>1, <1>3 DEF DropsInv, PlaceInv
<1>5. MutexInv'  BY <1>1 DEF DropsInv, MutexInv
<1>6. TurnInv'  BY <1>1 DEF DropsInv, TurnInv, Before
<1>7. StageInv'  BY <1>1, <1>2, StageFrame
<1>8. TimeInv'
  <2>1. \A s \in Packets : \A j : StartIn(s, j)' <=> StartIn(s, j)  BY <1>2, SameStarts
  <2>2. StartIn(x, i)  BY <1>1, <1>3 DEF StartIn
  <2>3. ASSUME NEW s \in Packets, StartIn(s, i) PROVE s = x \/ Before(s, x)
    <3>1. s # x => Before(s, x) \/ Before(x, s)  BY <1>3, <2>3, OrderTotal DEF StartIn
    <3>2. Before(x, s) => pc[x] = "done"  BY <1>1, <2>3 DEF DropsInv, TurnInv, StartIn
    <3> QED BY <1>1, <3>1, <3>2
  <2>4. /\ stageStartT'[i] = x /\ x # None
        /\ \A j \in Sessions : j # i => stageStartT'[j] = stageStartT[j]
    BY <1>1, <1>3, DropLoggerAssumption DEF TypeOK, DropLoggerTypeOK
  <2>5. \A j \in Sessions : stageStartT[j] # None => stageStartT[j] \in Packets
    BY DEF TypeOK, DropLoggerTypeOK
  <2> HIDE DEF i
  <2> SUFFICES ASSUME NEW j \in Sessions
               PROVE  /\ \A s \in Packets : StartIn(s, j)' /\ pc'[s] \in {"lock", "done"} =>
                           stageStartT'[j] # None /\ (s = stageStartT'[j] \/ Before(s, stageStartT'[j]))
                      /\ stageStartT'[j] # None => \A s \in Packets : s = stageStartT'[j] => StartIn(s, j)'
    BY <2>4, <2>5 DEF TimeInv, Before, StartIn
  <2>6. CASE j = i  BY <2>1, <2>2, <2>3, <2>4, <2>6
  <2>7. CASE j # i
    <3>1. \A s \in Packets : StartIn(s, j) /\ pc'[s] \in {"lock", "done"} => pc[s] \in {"lock", "done"}
      BY <1>1, <2>7 DEF StartIn, i
    <3> QED BY <2>1, <2>4, <2>5, <2>7, <3>1 DEF DropsInv, TimeInv
  <2> QED BY <2>6, <2>7
<1>9. ReportsInv'
  <2>1. \A p \in Packets : routine'[p] = "report" =>
          routine[p] = "report" /\ haveTables'[session[p]] /\ ~isPractice'[session[p]]
    BY <1>1 DEF DropsInv, ReportsInv
  <2> QED BY <1>1, <1>2, <2>1, ReportsFrame
<1>10. PanicInv'  BY <1>1, <1>2, PanicFrame DEF DropsInv
<1> QED BY <1>4, <1>5, <1>6, <1>7, <1>8, <1>9, <1>10 DEF DropsInv

(* The mutex is free only when the goroutines before are done.             *)
LEMMA ReturnKeepsDrops ==
  ASSUME TypeOK, DropsInv, NEW x \in Packets, HandlerReturns(x)
  PROVE  DropsInv'
<1> DEFINE i == session[x]
<1>1. /\ pc[x] = "lock" /\ pc'[x] = "done" /\ UNCHANGED <<session, process>>
      /\ \A q \in Packets : q # x => pc'[q] = pc[q] /\ routine'[q] = routine[q]
      /\ UNCHANGED <<currStage, isPractice, haveTables, stageStartT, reports>>
      /\ routine'[x] = Op[x]
      /\ dropMutex[i] = {} /\ dropMutex' = [dropMutex EXCEPT ![i] = {x}]
  BY DEF HandlerReturns, LockAndGo, RoutineTo, GoTo, TypeOK, DropLoggerTypeOK
<1>2. SameCame  BY <1>1 DEF SameCame
<1>3. i \in Sessions /\ Op[x] \in {"start", "finish"} /\ routine[x] = "none"
  BY <1>1, DropLoggerAssumption DEF DropsInv, PlaceInv
<1>4. PlaceInv'  BY <1>1, <1>3 DEF DropsInv, PlaceInv
<1>5. /\ dropMutex'[i] = {x}
      /\ \A j \in Sessions : j # i => dropMutex'[j] = dropMutex[j]
  BY <1>1, <1>3 DEF TypeOK, DropLoggerTypeOK
<1>6. MutexInv'
  <2> SUFFICES ASSUME NEW j \in Sessions, NEW p \in Packets
               PROVE  p \in dropMutex'[j] <=> session[p] = j /\ routine'[p] \in Working
    BY <1>1 DEF MutexInv
  <2>1. CASE p = x  BY <1>1, <1>3, <1>5, <2>1 DEF DropsInv, MutexInv, Working
  <2>2. CASE p # x  BY <1>1, <1>3, <1>5, <2>2 DEF DropsInv, MutexInv, Working
  <2> QED BY <2>1, <2>2
<1>7. TurnInv'
  <2> SUFFICES ASSUME NEW p \in Packets, NEW q \in Packets, Before(p, q),
                      pc'[p] # "idle", pc'[q] # "idle", session[p] = session[q]
               PROVE  pc'[p] = "done" /\ (routine'[q] # "none" => routine'[p] = "done")
    BY <1>1 DEF TurnInv, Before
  <2>1. pc[p] = "done" /\ (routine[q] # "none" => routine[p] = "done") /\ p # x
    BY <1>1 DEF DropsInv, TurnInv
  <2>2. CASE q = x
    <3>1. Op[p] # "other"  BY SessionAssumption DEF Before
    <3>2. routine[p] # "none" /\ routine[p] \notin Working
      BY <1>1, <1>3, <2>1, <2>2, <3>1 DEF DropsInv, PlaceInv, MutexInv
    <3>3. routine[p] = "done"  BY <3>2 DEF TypeOK, DropLoggerTypeOK, Working
    <3> QED BY <1>1, <2>1, <3>3
  <2> QED BY <1>1, <2>1, <2>2
<1>8. StageInv'
  <2>1. \A j \in Sessions : (\E s \in dropMutex[j] : routine[s] = "start") =>
           \E s \in dropMutex'[j] : routine'[s] = "start"
    <3>1. \A j \in Sessions : dropMutex[j] \in {{}} \cup {{q} : q \in Packets}
      BY DEF TypeOK, DropLoggerTypeOK
    <3>2. \A j \in Sessions : \A s \in dropMutex[j] : s \in Packets /\ s # x
      BY <1>3, <3>1 DEF DropsInv, MutexInv, Working
    <3> QED BY <1>1, <1>5, <3>2
  <2>2. \A s \in Packets : Op[s] = "start" => (routine'[s] = "done" <=> routine[s] = "done")
    BY <1>1, <1>3
  <2> QED BY <1>1, <1>2, <2>1, <2>2, StageFrame
<1>9. TimeInv'  BY <1>1, <1>2, TimeFrame
<1>10. ReportsInv'
  <2>1. \A p \in Packets : routine'[p] = "report" =>
          routine[p] = "report" /\ haveTables'[session[p]] /\ ~isPractice'[session[p]]
    BY <1>1, <1>3 DEF DropsInv, ReportsInv
  <2>2. \A p \in Packets : /\ routine[p] = "done" => routine'[p] = "done"
                           /\ Op[p] = "finish" /\ routine'[p] = "done" => routine[p] = "done"
    BY <1>1, <1>3
  <2> QED BY <1>1, <1>2, <2>1, <2>2, ReportsFrame
<1>11. PanicInv'  BY <1>1, <1>2, PanicFrame DEF DropsInv
<1> QED BY <1>4, <1>6, <1>7, <1>8, <1>9, <1>10, <1>11 DEF DropsInv

-----------------------------------------------------------------------------
(* The goroutines of the drop logger                                       *)

(* The mutex lets one of a session's goroutines work at a time.            *)
LEMMA WorksAlone ==
  ASSUME TypeOK, DropsInv, NEW p \in Packets, NEW q \in Packets,
         routine[p] \in Working, routine[q] \in Working, session[p] = session[q]
  PROVE  p = q
<1> DEFINE i == session[p]
<1>1. i \in Sessions  BY DEF DropsInv, PlaceInv, Working
<1>2. p \in dropMutex[i] /\ q \in dropMutex[i]  BY <1>1 DEF DropsInv, MutexInv
<1>3. dropMutex[i] \in {{}} \cup {{r} : r \in Packets}  BY <1>1 DEF TypeOK, DropLoggerTypeOK
<1> QED BY <1>2, <1>3

(* What a goroutine's step leaves as it is.                                *)
LEMMA RoutineFrame ==
  ASSUME TypeOK, DropsInv, NEW x \in Packets, routine[x] \in Working,
         UNCHANGED <<pc, session, process, stageStartT>>,
         \A q \in Packets : q # x => routine'[q] = routine[q],
         \/ routine'[x] = "done"
         \/ routine'[x] = routine[x]
         \/ routine[x] = "finish" /\ routine'[x] = "report"
  PROVE  SameCame /\ PlaceInv' /\ TurnInv' /\ TimeInv' /\ PanicInv'
<1>1. SameCame  BY DEF SameCame
<1>2. PlaceInv'  BY DEF DropsInv, PlaceInv, Working
<1>3. TurnInv'  BY DEF DropsInv, TurnInv, Before, Working
<1>4. TimeInv'  BY <1>1, TimeFrame
<1>5. PanicInv'  BY <1>1, PanicFrame DEF DropsInv
<1> QED BY <1>1, <1>2, <1>3, <1>4, <1>5

(* The deferred Unlock.                                                    *)
LEMMA EndsKeepMutex ==
  ASSUME TypeOK, DropsInv, NEW x \in Packets, routine[x] \in Working, RoutineEnds(session[x], x),
         UNCHANGED session
  PROVE  /\ MutexInv'
         /\ routine'[x] = "done" /\ \A q \in Packets : q # x => routine'[q] = routine[q]
<1> DEFINE i == session[x]
<1>1. i \in Sessions  BY DEF DropsInv, PlaceInv, Working
<1>2. /\ routine'[x] = "done" /\ \A q \in Packets : q # x => routine'[q] = routine[q]
      /\ dropMutex'[i] = {} /\ \A j \in Sessions : j # i => dropMutex'[j] = dropMutex[j]
  BY <1>1 DEF RoutineEnds, RoutineTo, TypeOK, DropLoggerTypeOK
<1>3. \A p \in Packets : session[p] = i /\ routine[p] \in Working => p = x  BY WorksAlone
<1> HIDE DEF i
<1>4. MutexInv'
  <2> SUFFICES ASSUME NEW j \in Sessions, NEW p \in Packets
               PROVE  p \in dropMutex'[j] <=> session[p] = j /\ routine'[p] \in Working
    BY DEF MutexInv
  <2>1. CASE j = i  BY <1>2, <1>3, <2>1 DEF Working
  <2>2. CASE j # i  BY <1>2, <2>2 DEF DropsInv, MutexInv, Working, i
  <2> QED BY <2>1, <2>2
<1> QED BY <1>2, <1>4

LEMMA TablesKeepDrops ==
  ASSUME TypeOK, DropsInv, NEW x \in Packets, TablesCome(x)
  PROVE  DropsInv'
<1> DEFINE i == session[x]
<1>1. /\ routine[x] = "start" /\ ~haveTables[i] /\ haveTables' = [haveTables EXCEPT ![i] = TRUE]
      /\ UNCHANGED <<pc, session, process, dropMutex, stageStartT, currStage, isPractice, routine, reports>>
  BY DEF TablesCome, GetTables, sessionVars
<1>2. i \in Sessions  BY <1>1 DEF DropsInv, PlaceInv
<1>3. SameCame /\ PlaceInv' /\ TurnInv' /\ TimeInv' /\ PanicInv'  BY <1>1, RoutineFrame DEF Working
<1>4. MutexInv'  BY <1>1 DEF DropsInv, MutexInv
<1>5. haveTables'[i] = TRUE /\ \A j \in Sessions : j # i => haveTables'[j] = haveTables[j]
  BY <1>1, <1>2 DEF TypeOK, DropLoggerTypeOK
<1>6. x \in dropMutex[i]  BY <1>1, <1>2 DEF DropsInv, MutexInv, Working
<1>7. StageInv'
  <2>1. \A s \in Packets : \A j : StartIn(s, j)' <=> StartIn(s, j)  BY <1>3, SameStarts
  <2>2. \A j \in Sessions : currStage[j] # None => currStage[j] \in Packets
    BY DEF TypeOK, DropLoggerTypeOK
  <2> HIDE DEF i
  <2> SUFFICES ASSUME NEW j \in Sessions
               PROVE  /\ \A s \in Packets : StartIn(s, j)' /\ routine[s] = "done" =>
                           currStage[j] # None /\ (s = currStage[j] \/ Before(s, currStage[j]))
                      /\ currStage[j] # None =>
                           /\ \A s \in Packets : s = currStage[j] => StartIn(s, j)'
                           /\ routine[currStage[j]] = "done" /\ haveTables'[j]
                           /\ isPractice[j] <=> currStage[j] \in Practice
                      /\ currStage[j] = None => ~isPractice[j]
                      /\ currStage[j] = None /\ haveTables'[j] => \E s \in dropMutex[j] : routine[s] = "start"
    BY <1>1, <2>2 DEF StageInv, Before, StartIn
  <2> QED BY <1>1, <1>5, <1>6, <2>1, <2>2 DEF DropsInv, StageInv
<1>8. ReportsInv'
  <2>1. \A p \in Packets : routine[p] = "report" =>
          session[p] \in Sessions /\ haveTables[session[p]] /\ ~isPractice[session[p]]
    BY DEF DropsInv, ReportsInv, PlaceInv
  <2>2. \A p \in Packets : routine'[p] = "report" =>
          routine[p] = "report" /\ haveTables'[session[p]] /\ ~isPractice'[session[p]]
    BY <1>1, <1>5, <2>1
  <2>3. /\ \A p \in Packets : routine[p] = "done" => routine'[p] = "done"
        /\ \A p \in Packets : Op[p] = "finish" /\ routine'[p] = "done" => routine[p] = "done"
    BY <1>1
  <2> QED BY <1>1, <1>3, <2>2, <2>3, ReportsFrame
<1> QED BY <1>3, <1>4, <1>7, <1>8 DEF DropsInv

(* The start that is done is the last of its session.                      *)
LEMMA BattleKeepsDrops ==
  ASSUME TypeOK, DropsInv, NEW x \in Packets, BattleStarts(session[x], x),
         UNCHANGED <<pc, session, process>>
  PROVE  DropsInv'
<1> DEFINE i == session[x]
<1>1. /\ routine[x] = "start" /\ haveTables[i] /\ RoutineEnds(i, x)
      /\ isPractice' = [isPractice EXCEPT ![i] = x \in Practice]
      /\ currStage' = [currStage EXCEPT ![i] = x]
      /\ UNCHANGED <<stageStartT, haveTables, reports>>
  BY DEF BattleStarts
<1>2. i \in Sessions /\ Op[x] = "start" /\ pc[x] = "done"  BY <1>1 DEF DropsInv, PlaceInv
<1>3. MutexInv' /\ routine'[x] = "done" /\ \A q \in Packets : q # x => routine'[q] = routine[q]
  BY <1>1, EndsKeepMutex DEF Working
<1>4. SameCame /\ PlaceInv' /\ TurnInv' /\ TimeInv' /\ PanicInv'
  BY <1>1, <1>3, RoutineFrame DEF Working
<1>5. /\ currStage'[i] = x /\ (isPractice'[i] <=> x \in Practice) /\ x # None
      /\ \A j \in Sessions : j # i => currStage'[j] = currStage[j] /\ isPractice'[j] = isPractice[j]
  BY <1>1, <1>2, DropLoggerAssumption DEF TypeOK, DropLoggerTypeOK
<1>6. ASSUME NEW s \in Packets, StartIn(s, i), routine'[s] = "done" PROVE s = x \/ Before(s, x)
  <2>1. s # x => Before(s, x) \/ Before(x, s)  BY <1>2, <1>6, OrderTotal DEF StartIn
  <2>2. ASSUME s # x, Before(x, s) PROVE FALSE
    <3>1. routine[s] = "done"  BY <1>3, <1>6, <2>2
    <3>2. routine[x] = "done"  BY <1>2, <1>6, <2>2, <3>1 DEF DropsInv, TurnInv, StartIn
    <3> QED BY <1>1, <3>2
  <2> QED BY <2>1, <2>2
<1>7. StageInv'
  <2>1. \A s \in Packets : \A j : StartIn(s, j)' <=> StartIn(s, j)  BY <1>4, SameStarts
  <2>2. \A j \in Sessions : currStage'[j] # None => currStage'[j] \in Packets
    BY <1>5 DEF TypeOK, DropLoggerTypeOK
  <2>3. StartIn(x, i)  BY <1>2 DEF StartIn
  <2> HIDE DEF i
  <2> SUFFICES ASSUME NEW j \in Sessions
               PROVE  /\ \A s \in Packets : StartIn(s, j)' /\ routine'[s] = "done" =>
                           currStage'[j] # None /\ (s = currStage'[j] \/ Before(s, currStage'[j]))
                      /\ currStage'[j] # None =>
                           /\ \A s \in Packets : s = currStage'[j] => StartIn(s, j)'
                           /\ routine'[currStage'[j]] = "done" /\ haveTables[j]
                           /\ isPractice'[j] <=> currStage'[j] \in Practice
                      /\ currStage'[j] = None => ~isPractice'[j]
                      /\ currStage'[j] = None /\ haveTables[j] =>
                           \E s \in dropMutex'[j] : routine'[s] = "start"
    BY <1>1, <2>2 DEF StageInv, Before, StartIn
  <2>4. CASE j = i  BY <1>1, <1>3, <1>5, <1>6, <2>1, <2>3, <2>4
  <2>5. CASE j # i
    <3>1. \A s \in Packets : StartIn(s, j) => s # x  BY <2>5 DEF StartIn, i
    <3>2. dropMutex'[j] = dropMutex[j] /\ dropMutex[j] \in {{}} \cup {{q} : q \in Packets}
      BY <1>1, <1>2, <2>5 DEF RoutineEnds, TypeOK, DropLoggerTypeOK
    <3>3. \A s \in dropMutex[j] : s \in Packets /\ s # x
      BY <2>5, <3>2 DEF DropsInv, MutexInv, i
    <3>4. currStage[j] # None => currStage[j] \in Packets
      BY DEF TypeOK, DropLoggerTypeOK
    <3> QED BY <1>3, <1>5, <2>1, <2>5, <3>1, <3>2, <3>3, <3>4 DEF DropsInv, StageInv
  <2> QED BY <2>4, <2>5
<1>8. ReportsInv'
  <2>1. ASSUME NEW p \in Packets, routine'[p] = "report"
        PROVE  routine[p] = "report" /\ haveTables'[session[p]] /\ ~isPractice'[session[p]]
    <3>1. p # x /\ routine[p] = "report"  BY <1>3, <2>1
    <3>2. session[p] # i  BY <1>1, <3>1, WorksAlone DEF Working
    <3>3. session[p] \in Sessions /\ haveTables[session[p]] /\ ~isPractice[session[p]]
      BY <3>1 DEF DropsInv, ReportsInv, PlaceInv
    <3> QED BY <1>1, <1>5, <3>1, <3>2, <3>3
  <2>2. /\ \A p \in Packets : routine[p] = "done" => routine'[p] = "done"
        /\ \A p \in Packets : Op[p] = "finish" /\ routine'[p] = "done" => routine[p] = "done"
    BY <1>1, <1>2, <1>3
  <2> QED BY <1>1, <1>4, <2>1, <2>2, ReportsFrame
<1> QED BY <1>3, <1>4, <1>7, <1>8 DEF DropsInv

(* A finish leaves the stage to the starts.                                *)
LEMMA FinishKeepsStage ==
  ASSUME TypeOK, DropsInv, SameCame, NEW x \in Packets, routine[x] \in {"finish", "report"},
         UNCHANGED <<currStage, isPractice, haveTables>>,
         \A q \in Packets : q # x => routine'[q] = routine[q],
         \A j \in Sessions : j # session[x] => dropMutex'[j] = dropMutex[j]
  PROVE  StageInv'
<1>1. Op[x] = "finish" /\ session[x] \in Sessions  BY DEF DropsInv, PlaceInv
<1>2. \A j \in Sessions : dropMutex[j] \in {{}} \cup {{q} : q \in Packets}
  BY DEF TypeOK, DropLoggerTypeOK
<1>3. \A j \in Sessions : \A s \in dropMutex[j] :
        s \in Packets /\ routine[s] \in Working /\ session[s] = j
  BY <1>2 DEF DropsInv, MutexInv
<1>4. \A s \in dropMutex[session[x]] : s = x  BY <1>1, <1>3, WorksAlone DEF Working
<1>5. ASSUME NEW j \in Sessions, \E s \in dropMutex[j] : routine[s] = "start"
      PROVE  \E s \in dropMutex'[j] : routine'[s] = "start"
  <2>1. PICK s \in dropMutex[j] : routine[s] = "start"  BY <1>5
  <2>2. s # x /\ s \in Packets  BY <1>3, <2>1
  <2>3. j # session[x]  BY <1>4, <2>2
  <2> QED BY <2>1, <2>2, <2>3
<1>6. \A s \in Packets : Op[s] = "start" => (routine'[s] = "done" <=> routine[s] = "done")
  BY <1>1
<1> QED BY <1>5, <1>6, StageFrame

LEMMA IgnoredKeepsDrops ==
  ASSUME TypeOK, DropsInv, NEW x \in Packets, BattleIgnored(session[x], x),
         UNCHANGED <<pc, session, process>>
  PROVE  DropsInv'
<1> DEFINE i == session[x]
<1>1. /\ routine[x] = "finish" /\ (isPractice[i] \/ x \in Failed) /\ RoutineEnds(i, x)
      /\ UNCHANGED <<stageStartT, currStage, isPractice, haveTables, reports>>
  BY DEF BattleIgnored, Ignored
<1>2. i \in Sessions /\ Op[x] = "finish"  BY <1>1 DEF DropsInv, PlaceInv
<1>3. MutexInv' /\ routine'[x] = "done" /\ \A q \in Packets : q # x => routine'[q] = routine[q]
  BY <1>1, EndsKeepMutex DEF Working
<1>4. SameCame /\ PlaceInv' /\ TurnInv' /\ TimeInv' /\ PanicInv'
  BY <1>1, <1>3, RoutineFrame DEF Working
<1>5. StageInv'
  <2>1. \A j \in Sessions : j # i => dropMutex'[j] = dropMutex[j]
    BY <1>1, <1>2 DEF RoutineEnds, TypeOK, DropLoggerTypeOK
  <2> QED BY <1>1, <1>3, <1>4, <2>1, FinishKeepsStage
<1>6. x \notin Failed => \E s \in Packets : LastStart(s, x) /\ s \in Practice
  <2> SUFFICES ASSUME x \notin Failed PROVE \E s \in Packets : LastStart(s, x) /\ s \in Practice
    OBVIOUS
  <2> DEFINE s == currStage[i]
  <2>1. isPractice[i] /\ s # None /\ s \in Practice  BY <1>1, <1>2 DEF DropsInv, StageInv
  <2>2. s \in Packets /\ LastStart(s, x)  BY <1>1, <2>1, FindsItsBattle
  <2> QED BY <2>1, <2>2
<1>7. ReportsInv'
  <2>1. ReportsInv /\ DropLoggerTypeOK  BY DEF DropsInv, TypeOK
  <2>2. ASSUME NEW k \in DOMAIN reports PROVE ReportRight(reports[k])'
    <3>1. ReportRight(reports[k])  BY <2>1 DEF ReportsInv
    <3>2. PICK f \in Packets : f = reports[k].finish  BY <2>1, ReportFields
    <3>3. routine'[f] = "done"  BY <1>1, <1>3, <3>1, <3>2 DEF ReportRight
    <3> QED BY <1>1, <1>4, <2>1, <3>1, <3>2, <3>3, StillRight
  <2>3. \A s, p \in Packets : LastStart(s, p)' <=> LastStart(s, p)  BY <1>4, SameStarts
  <2>4. \A p \in Packets : session'[p] = session[p]  BY <1>4 DEF SameCame
  <2>5. \A p \in Packets : p # x /\ Op[p] = "finish" /\ routine'[p] = "done" /\ p \notin Failed =>
          \/ \E k \in DOMAIN reports : reports[k].finish = p
          \/ \E s \in Packets : LastStart(s, p) /\ s \in Practice
    BY <1>3, <2>1 DEF ReportsInv
  <2> QED BY <1>1, <1>3, <1>6, <2>1, <2>2, <2>3, <2>4, <2>5 DEF ReportsInv
<1> QED BY <1>3, <1>4, <1>5, <1>7 DEF DropsInv

LEMMA LogKeepsDrops ==
  ASSUME TypeOK, DropsInv, NEW x \in Packets, LogDrops(session[x], x),
         UNCHANGED <<pc, session, process>>
  PROVE  DropsInv'
<1> DEFINE i == session[x]
<1>1. /\ routine[x] = "finish" /\ ~isPractice[i] /\ x \notin Failed /\ haveTables[i]
      /\ routine'[x] = "report" /\ \A q \in Packets : q # x => routine'[q] = routine[q]
      /\ UNCHANGED <<dropMutex, stageStartT, currStage, isPractice, haveTables, reports>>
  BY DEF LogDrops, Ignored, RoutineTo, TypeOK, DropLoggerTypeOK
<1>2. SameCame /\ PlaceInv' /\ TurnInv' /\ TimeInv' /\ PanicInv'
  BY <1>1, RoutineFrame DEF Working
<1>3. MutexInv'  BY <1>1 DEF DropsInv, MutexInv, Working
<1>4. StageInv'  BY <1>1, <1>2, FinishKeepsStage
<1>5. ReportsInv'
  <2>1. ReportsInv /\ DropLoggerTypeOK  BY DEF DropsInv, TypeOK
  <2>2. ASSUME NEW k \in DOMAIN reports PROVE ReportRight(reports[k])'
    <3>1. ReportRight(reports[k])  BY <2>1 DEF ReportsInv
    <3>2. PICK f \in Packets : f = reports[k].finish  BY <2>1, ReportFields
    <3>3. routine'[f] = "done"  BY <1>1, <3>1, <3>2 DEF ReportRight
    <3> QED BY <1>1, <1>2, <2>1, <3>1, <3>2, <3>3, StillRight
  <2>3. \A s, p \in Packets : LastStart(s, p)' <=> LastStart(s, p)  BY <1>2, SameStarts
  <2>4. \A p \in Packets : session'[p] = session[p]  BY <1>2 DEF SameCame
  <2>5. \A p \in Packets : routine'[p] = "done" => routine[p] = "done"  BY <1>1
  <2>6. \A p \in Packets : routine'[p] = "report" =>
          p \notin Failed /\ haveTables[session[p]] /\ ~isPractice[session[p]]
    BY <1>1, <2>1 DEF ReportsInv
  <2>7. \A p \in Packets : Op[p] = "finish" /\ routine'[p] = "done" /\ p \notin Failed =>
          \/ \E k \in DOMAIN reports : reports[k].finish = p
          \/ \E s \in Packets : LastStart(s, p) /\ s \in Practice
    BY <2>1, <2>5 DEF ReportsInv
  <2> QED BY <1>1, <2>1, <2>2, <2>3, <2>4, <2>6, <2>7 DEF ReportsInv
<1> QED BY <1>2, <1>3, <1>4, <1>5 DEF DropsInv

(* What is reported now is right, and new.                                 *)
LEMMA ReportKeepsDrops ==
  ASSUME TypeOK, DropsInv, NEW x \in Packets, ReportDrops(session[x], x),
         UNCHANGED <<pc, session, process>>
  PROVE  DropsInv'
<1> DEFINE i == session[x]
           s == currStage[i]
           u == stageStartT[i]
<1>1. /\ routine[x] = "report" /\ RoutineEnds(i, x)
      /\ reports' = Append(reports, [finish |-> x, stage |-> s, since |-> u])
      /\ UNCHANGED <<stageStartT, currStage, isPractice, haveTables>>
  BY DEF ReportDrops
<1>2. i \in Sessions /\ Op[x] = "finish" /\ x \notin Failed /\ haveTables[i] /\ ~isPractice[i]
  BY <1>1 DEF DropsInv, PlaceInv, ReportsInv
<1>3. MutexInv' /\ routine'[x] = "done" /\ \A q \in Packets : q # x => routine'[q] = routine[q]
  BY <1>1, EndsKeepMutex DEF Working
<1>4. SameCame /\ PlaceInv' /\ TurnInv' /\ TimeInv' /\ PanicInv'
  BY <1>1, <1>3, RoutineFrame DEF Working
<1>5. StageInv'
  <2>1. \A j \in Sessions : j # i => dropMutex'[j] = dropMutex[j]
    BY <1>1, <1>2 DEF RoutineEnds, TypeOK, DropLoggerTypeOK
  <2> QED BY <1>1, <1>3, <1>4, <2>1, FinishKeepsStage
<1>6. ReportsInv /\ DropLoggerTypeOK  BY DEF DropsInv, TypeOK
<1>7. s # None  BY <1>1, <1>2, TablesMeanStart
<1>8. /\ s \in Packets /\ u \in Packets /\ LastStart(s, x) /\ s \notin Practice
      /\ u = s \/ (StartIn(u, i) /\ Before(x, u))
  <2>1. s \in Packets /\ u \in Packets /\ LastStart(s, x) /\ StartIn(u, i) /\ (u = s \/ Before(x, u))
    BY <1>1, <1>7, FindsItsBattle
  <2> QED BY <1>2, <1>7, <2>1 DEF DropsInv, StageInv
<1>9. PICK last \in Nat :
      /\ last = Len(reports) + 1
      /\ DOMAIN reports = 1..Len(reports) /\ Len(reports) \in Nat
      /\ DOMAIN reports' = 1..last
      /\ reports'[last] = [finish |-> x, stage |-> s, since |-> u]
      /\ \A k \in DOMAIN reports : reports'[k] = reports[k]
  <2>1. reports \in Seq([finish : Packets, stage : Packets, since : Packets])
    BY <1>6 DEF DropLoggerTypeOK
  <2> HIDE DEF s, u
  <2> QED BY <1>1, <2>1
<1>10. last \notin DOMAIN reports /\ DOMAIN reports' = DOMAIN reports \cup {last}  BY <1>9
<1>11. PICK y, z \in Packets : y = s /\ z = u  BY <1>8
<1>12. reports'[last].finish = x /\ reports'[last].stage = y /\ reports'[last].since = z
  BY <1>9, <1>11
<1>13. \A k \in DOMAIN reports : reports[k].finish \in Packets /\ reports[k].finish # x
  <2> TAKE k \in DOMAIN reports
  <2>1. PICK f \in Packets : f = reports[k].finish  BY <1>6, ReportFields
  <2>2. ReportRight(reports[k])  BY <1>6 DEF ReportsInv
  <2> QED BY <1>1, <2>1, <2>2 DEF ReportRight
<1>14. ReportRight(reports[last])'
  <2>1. LastStart(y, x)'  BY <1>4, <1>8, <1>11, SameStarts
  <2>2. session'[x] = session[x]  BY <1>4 DEF SameCame
  <2>3. StartIn(z, session[x]) => StartIn(z, session[x])'
    BY <1>4, <2>2, SameStarts DEF StartIn
  <2> QED BY <1>2, <1>3, <1>8, <1>11, <1>12, <2>1, <2>3 DEF ReportRight, Before
<1>15. ASSUME NEW k \in DOMAIN reports PROVE ReportRight(reports[k])'
  <2>1. ReportRight(reports[k])  BY <1>6 DEF ReportsInv
  <2>2. PICK f \in Packets : f = reports[k].finish  BY <1>6, ReportFields
  <2>3. routine'[f] = "done"  BY <1>3, <2>1, <2>2 DEF ReportRight
  <2>4. k \in DOMAIN reports' /\ reports'[k] = reports[k]  BY <1>9, <1>10
  <2> QED BY <1>4, <1>6, <2>1, <2>2, <2>3, <2>4, StillRight
<1>16. ReportsInv'
  <2> HIDE DEF s, u
  <2>1. \A k \in DOMAIN reports' : \A m \in DOMAIN reports' :
          reports'[m].finish = reports'[k].finish => m = k
    <3> SUFFICES ASSUME NEW k \in DOMAIN reports', NEW m \in DOMAIN reports',
                        reports'[m].finish = reports'[k].finish
                 PROVE  m = k
      OBVIOUS
    <3>1. CASE k \in DOMAIN reports /\ m \in DOMAIN reports
      BY <1>6, <1>9, <3>1 DEF ReportsInv
    <3>2. CASE k = last \/ m = last  BY <1>9, <1>10, <1>12, <1>13, <3>2
    <3> QED BY <1>10, <3>1, <3>2
  <2>2. \A s0, p \in Packets : LastStart(s0, p)' <=> LastStart(s0, p)  BY <1>4, SameStarts
  <2>3. \A p \in Packets : session'[p] = session[p]  BY <1>4 DEF SameCame
  <2>4. \A p \in Packets : Op[p] = "finish" /\ routine'[p] = "done" /\ p \notin Failed =>
          \/ \E k \in DOMAIN reports' : reports'[k].finish = p
          \/ \E s0 \in Packets : LastStart(s0, p) /\ s0 \in Practice
    <3> TAKE p \in Packets
    <3>1. CASE p = x  BY <1>10, <1>12, <3>1
    <3>2. CASE p # x
      <4>1. Op[p] = "finish" /\ routine'[p] = "done" /\ p \notin Failed =>
              \/ \E k \in DOMAIN reports : reports[k].finish = p
              \/ \E s0 \in Packets : LastStart(s0, p) /\ s0 \in Practice
        BY <1>3, <1>6, <3>2 DEF ReportsInv
      <4> QED BY <1>9, <1>10, <4>1
    <3> QED BY <3>1, <3>2
  <2>5. \A p \in Packets : routine'[p] = "report" =>
          p \notin Failed /\ haveTables[session[p]] /\ ~isPractice[session[p]]
    BY <1>3, <1>6 DEF ReportsInv
  <2>6. \A k \in DOMAIN reports' : ReportRight(reports[k])'  BY <1>10, <1>14, <1>15
  <2> QED BY <1>1, <2>1, <2>2, <2>3, <2>4, <2>5, <2>6 DEF ReportsInv
<1> QED BY <1>3, <1>4, <1>5, <1>16 DEF DropsInv

(* A finish that finds no tables has no start before it in its session.    *)
LEMMA PanicKeepsDrops ==
  ASSUME TypeOK, DropsInv, NEW x \in Packets, DropsPanic(x)
  PROVE  DropsInv'
<1> DEFINE i == session[x]
<1>1. /\ routine[x] = "finish" /\ ~haveTables[i] /\ process' = x
      /\ UNCHANGED <<pc, session, routine, dropMutex, currStage, isPractice, haveTables, stageStartT, reports>>
  BY DEF DropsPanic, FinishPanics, dlVars, sessionVars
<1>2. i \in Sessions /\ pc[x] = "done"  BY <1>1 DEF DropsInv, PlaceInv
<1>3. ASSUME NEW s \in Packets, StartIn(s, i), Before(s, x) PROVE FALSE
  <2>1. routine[s] = "done"  BY <1>1, <1>2, <1>3 DEF DropsInv, TurnInv, StartIn
  <2> QED BY <1>1, <1>2, <1>3, <2>1 DEF DropsInv, StageInv
<1>4. PanicInv'
  <2>1. \A s \in Packets : ~(StartIn(s, i)' /\ Before(s, x))  BY <1>1, <1>3 DEF StartIn
  <2>2. i = session'[x]  BY <1>1
  <2> QED BY <1>1, <2>1, <2>2 DEF PanicInv, StartIn, Before
<1>5. PlaceInv'  BY <1>1 DEF DropsInv, PlaceInv
<1>6. MutexInv'  BY <1>1 DEF DropsInv, MutexInv
<1>7. TurnInv'  BY <1>1 DEF DropsInv, TurnInv, Before
<1>8. StageInv'  BY <1>1 DEF DropsInv, StageInv, StartIn, Before
<1>9. TimeInv'  BY <1>1 DEF DropsInv, TimeInv, StartIn, Before
<1>10. ReportsInv'  BY <1>1 DEF DropsInv, ReportsInv, ReportRight, LastStart, StartIn, Before
<1> QED BY <1>4, <1>5, <1>6, <1>7, <1>8, <1>9, <1>10 DEF DropsInv

-----------------------------------------------------------------------------
(* The invariant                                                           *)

LEMMA InitIInv == Init => IInv
<1> SUFFICES ASSUME Init PROVE IInv  OBVIOUS
<1>1. PacketLoggerTypeOK /\ AllLines  BY InitKeeps DEF Init
<1>2. /\ pc = [p \in Packets |-> "idle"] /\ session = [p \in Packets |-> 0]
      /\ current = 0 /\ login = "none" /\ process = "up"
  BY DEF Init
<1>3. DropLoggerInit /\ reports = <<>> /\ dropFile = <<>> /\ DOMAIN reports = {}
  BY DEF Init, DropLoggerInit
<1>4. DropLoggerTypeOK
  <2>1. <<>> \in Seq(Packets) /\ <<>> \in Seq([finish : Packets, stage : Packets, since : Packets])
    OBVIOUS
  <2> QED BY <1>3, <2>1 DEF DropLoggerInit, DropLoggerTypeOK
<1>5. TypeOK  BY <1>1, <1>2, <1>4 DEF TypeOK
<1>6. LoginInv  BY <1>2 DEF LoginInv
<1>7. OwnerInv
  <2>1. /\ \A p \in Packets : printer[p] = "none"
        /\ \A i \in Sessions : printing[i] = {}
    BY DEF Init, PacketLoggerInit
  <2> QED BY <2>1 DEF OwnerInv, Holding
<1>8. \A p \in Packets : routine[p] = "none" /\ pc[p] = "idle"
  BY <1>2, <1>3 DEF DropLoggerInit
<1>9. \A i \in Sessions : /\ dropMutex[i] = {} /\ currStage[i] = None /\ stageStartT[i] = None
                          /\ isPractice[i] = FALSE /\ haveTables[i] = FALSE
  BY <1>3 DEF DropLoggerInit
<1>10. PlaceInv /\ MutexInv /\ TurnInv
  BY <1>8, <1>9 DEF PlaceInv, MutexInv, TurnInv, Working
<1>11. StageInv /\ TimeInv  BY <1>8, <1>9 DEF StageInv, TimeInv
<1>12. ReportsInv  BY <1>3, <1>8 DEF ReportsInv
<1>13. PanicInv  BY <1>2, SessionAssumption DEF PanicInv
<1> QED BY <1>1, <1>5, <1>6, <1>7, <1>10, <1>11, <1>12, <1>13 DEF IInv, DropsInv

LEMMA DropsStep ==
  ASSUME TypeOK, DropsInv, Next
  PROVE  DropsInv'
<1>1. process = "up" /\ "up" \notin Packets /\ "exited" \notin Packets /\ "tables" \notin Packets
  BY SessionAssumption DEF Next
<1>2. CASE LoginComes  BY <1>2, DropsFrame DEF LoginComes, dlVars
<1>3. CASE LoginShutdown  BY <1>3, DropsFrame DEF LoginShutdown, dlVars
<1>4. CASE LoginInit  BY <1>4, DropsFrame DEF LoginInit, OpenFile
<1>5. CASE LoginStore  BY <1>5, DropsFrame DEF LoginStore, InitReturns
<1>6. CASE Interrupt
  <2>1. process' \notin Packets  BY <1>1, <1>6 DEF Interrupt
  <2> QED BY <1>6, <2>1, DropsFrame DEF Interrupt, dlVars, sessionVars
<1>7. ASSUME NEW p \in Packets, PacketComes(p) PROVE DropsInv'
  BY <1>1, <1>7, PacketKeepsDrops
<1>8. ASSUME NEW p \in Packets, ExchangeStep(p) PROVE DropsInv'
  BY <1>8, WildcardsKeepDrops, StartKeepsDrops, ReturnKeepsDrops DEF ExchangeStep
<1>9. ASSUME NEW p \in Packets, Prints(p) PROVE DropsInv'
  BY <1>9, DropsFrame DEF Prints, dlVars, sessionVars
<1>10. ASSUME NEW p \in Packets, RoutineStep(p) PROVE DropsInv'
  <2>1. CASE Drops(p)
    <3>1. UNCHANGED <<pc, session, process>>  BY <2>1 DEF Drops, sessionVars
    <3> QED BY <2>1, <3>1, BattleKeepsDrops, IgnoredKeepsDrops, LogKeepsDrops, ReportKeepsDrops
          DEF Drops, DropStep
  <2>2. CASE TablesCome(p)  BY <2>2, TablesKeepDrops
  <2>3. CASE TablesPanic(p)
    <3>1. process' \notin Packets  BY <1>1, <2>3 DEF TablesPanic
    <3> QED BY <2>3, <3>1, DropsFrame DEF TablesPanic, dlVars, sessionVars
  <2>4. CASE DropsPanic(p)  BY <2>4, PanicKeepsDrops
  <2> QED BY <1>10, <2>1, <2>2, <2>3, <2>4 DEF RoutineStep
<1> QED BY <1>2, <1>3, <1>4, <1>5, <1>6, <1>7, <1>8, <1>9, <1>10 DEF Next, LoginStep

LEMMA StepIInv == IInv /\ [Next]_vars => IInv'
<1> SUFFICES ASSUME IInv, [Next]_vars PROVE IInv'  OBVIOUS
<1>1. TypeOK /\ LoginInv /\ AllLines /\ OwnerInv /\ DropsInv /\ PlaceInv  BY DEF IInv, DropsInv
<1>2. CASE Next
  <2>1. PacketLoggerTypeOK' /\ AllLines' /\ OwnerInv'  BY <1>1, <1>2, LinesStep
  <2>2. LoginInv'  BY <1>1, <1>2, LoginBounds
  <2>3. DropsInv'  BY <1>1, <1>2, DropsStep
  <2>4. TypeOK'  BY <1>1, <1>2, <2>1, TypesStep
  <2> QED BY <2>1, <2>2, <2>3, <2>4 DEF IInv
<1>3. CASE UNCHANGED vars
  <2>1. /\ UNCHANGED <<plVars, dlVars, sessionVars, process>>
        /\ UNCHANGED <<current, login, pc, session>>
    BY <1>3 DEF vars, sessionVars
  <2>2. DropsInv'  BY <1>1, <2>1, DropsFrame DEF dlVars
  <2>3. PacketLoggerTypeOK' /\ AllLines'  BY <1>1, <2>1, LinesFrame DEF TypeOK
  <2>4. OwnerInv'  BY <1>1, <2>1 DEF OwnerInv, plVars
  <2>5. DropLoggerTypeOK'  BY <1>1, <2>1 DEF TypeOK, DropLoggerTypeOK, dlVars
  <2>6. TypeOK'  BY <1>1, <2>1, <2>3, <2>5 DEF TypeOK
  <2>7. LoginInv'  BY <1>1, <2>1 DEF LoginInv
  <2> QED BY <2>2, <2>3, <2>4, <2>6, <2>7 DEF IInv
<1> QED BY <1>2, <1>3

(* Lines, printers, exchanges, goroutines and reports of a user's modules  *)
(* fit together as IInv says, whatever the logins and battles are.         *)
THEOREM SessionInvariant == Spec => []IInv
BY InitIInv, StepIInv, PTL DEF Spec

(* The variables of both loggers and of the exchanges have their types; in *)
(* particular no drops are reported with a nil stage or time.              *)
THEOREM SessionTypes == Spec => []TypeOK
<1>1. IInv => TypeOK  BY DEF IInv
<1> QED BY <1>1, SessionInvariant, PTL

(* Shutdown of the packet logger loses no line that was printed before it, *)
(* for a buffer of any size and any printers that go on meanwhile.         *)
THEOREM ShutdownKeepsLines == Spec => []LinesKept
<1>1. IInv => LinesKept  BY KeptByInvariant DEF IInv, TypeOK
<1> QED BY <1>1, SessionInvariant, PTL

LEMMA AfterIsStart ==
  ASSUME NEW p \in Packets, NEW u \in Packets, StartIn(u, session[p]), Before(p, u)
  PROVE  u \in {Battles[m] : m \in StartsAfter(p)}
<1>1. PICK k \in DOMAIN Battles, m \in DOMAIN Battles : k < m /\ Battles[k] = p /\ Battles[m] = u
  BY DEF Before
<1>2. m \in StartsAfter(p)  BY <1>1 DEF StartsAfter, StartIn
<1> QED BY <1>1, <1>2

(* The drop logger reports the drops of every battle that was won and is   *)
(* not practice once and for its own stage: the mutex that the handlers    *)
(* lock and the goroutines unlock makes up for the order of the goroutines.*)
THEOREM ReportsTheirBattle == Spec => []DropsOfTheirBattle
<1>1. IInv => DropsOfTheirBattle
  <2> SUFFICES ASSUME IInv PROVE DropsOfTheirBattle  OBVIOUS
  <2>1. DropLoggerTypeOK /\ ReportsInv  BY DEF IInv, TypeOK, DropsInv
  <2>2. ASSUME NEW k \in DOMAIN reports
        PROVE  /\ reports[k].finish \notin Failed
               /\ reports[k].stage = Started(reports[k].finish) /\ reports[k].stage \notin Practice
               /\ reports[k].since \in
                    {reports[k].stage} \cup {Battles[m] : m \in StartsAfter(reports[k].finish)}
               /\ \A m \in DOMAIN reports : reports[m].finish = reports[k].finish => m = k
    <3>1. PICK f \in Packets, s \in Packets, u \in Packets :
            f = reports[k].finish /\ s = reports[k].stage /\ u = reports[k].since
      BY <2>1, ReportFields
    <3>2. /\ f \notin Failed /\ s \notin Practice /\ LastStart(s, f)
          /\ u = s \/ (StartIn(u, session[f]) /\ Before(f, u))
      BY <2>1, <3>1 DEF ReportsInv, ReportRight
    <3>3. s = Started(f)  BY <3>2, LastIsStarted
    <3>4. u = s \/ u \in {Battles[m] : m \in StartsAfter(f)}  BY <3>2, AfterIsStart
    <3>5. \A m \in DOMAIN reports : reports[m].finish = f => m = k  BY <2>1, <3>1 DEF ReportsInv
    <3> QED BY <3>1, <3>2, <3>3, <3>4, <3>5
  <2>3. ASSUME NEW p \in Packets, Op[p] = "finish", routine[p] = "done", p \notin Failed,
               Started(p) \notin Practice
        PROVE  \E k \in DOMAIN reports : reports[k].finish = p
    <3>1. ASSUME NEW s \in Packets, LastStart(s, p), s \in Practice PROVE FALSE
      BY <2>3, <3>1, LastIsStarted
    <3> QED BY <2>1, <2>3, <3>1 DEF ReportsInv
  <2> QED BY <2>2, <2>3 DEF DropsOfTheirBattle
<1> QED BY <1>1, SessionInvariant, PTL

(* A battle that is won ends the process only when no start came to the    *)
(* same instance before it.                                                *)
THEOREM PanicsMidBattle == Spec => []DiesOnlyMidBattle
<1>1. IInv => DiesOnlyMidBattle
  <2> SUFFICES ASSUME IInv, process \in Packets, NEW k \in StartsBefore(process) PROVE FALSE
    BY DEF DiesOnlyMidBattle
  <2>1. \A s \in Packets : ~(StartIn(s, session[process]) /\ Before(s, process))
    BY DEF IInv, DropsInv, PanicInv
  <2>2. k \in DOMAIN Battles /\ StartIn(Battles[k], session[process])
    BY DEF StartsBefore, StartIn
  <2>3. Battles[k] \in Packets  BY <2>2, SessionAssumption
  <2>4. PICK m \in DOMAIN Battles : m > k /\ Battles[m] = process  BY DEF StartsBefore
  <2>5. Before(Battles[k], process)
    <3>1. k \in Nat /\ m \in Nat  BY <2>2, <2>4, SessionAssumption
    <3>2. k < m  BY <2>4, <3>1
    <3> QED BY <2>2, <2>4, <3>2 DEF Before
  <2> QED BY <2>1, <2>2, <2>3, <2>5
<1> QED BY <1>1, SessionInvariant, PTL

=============================================================================
