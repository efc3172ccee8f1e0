---------------------------- MODULE PacketLogger ----------------------------
(***************************************************************************)
(* The packet logger (mods/packetlogger/packetLogger.go): a goroutine per  *)
(* packet prints a line to a buffer, which Shutdown flushes to a file.     *)
(*                                                                         *)
(* The lines of one instance are written under the mutex of its log.Logger,*)
(* whose writer is a bufio.Writer.  Shutdown flushes that writer without   *)
(* the mutex, so the writer's steps are actions: what it has copied counts *)
(* only when n is raised, and Flush writes first and lowers n later.       *)
(*                                                                         *)
(* A line is its packet and takes one cell of the buffer.                  *)
(***************************************************************************)
EXTENDS Logins, Naturals, Sequences

CONSTANT
  BufferCap   \* lines that the buffer holds

ASSUME PacketLoggerAssumption == BufferCap \in Nat \ {0}

VARIABLES
  printer,      \* printer[p]: where the goroutine is that handle has started
  printing,     \* printing[i]: the lines whose Printf holds the logger's mutex
  cells,        \* cells[i]: the buffer of the bufio.Writer
  n,            \* n[i]: how many of them count
  failed,       \* failed[i]: has a Flush failed, so that every Write fails?
  packetFile,   \* packetFile[i]: the lines in the file
  flush,        \* flush[i]: where Shutdown is
  written,      \* written[i]: how many lines its Flush has written
  before,       \* history: how many lines had been printed when it wrote them
  printed,      \* history: the lines whose Printf has returned, in order
  raced         \* history: has a Printf met the Flush?

writerVars == <<cells, n, failed, packetFile>>
plVars == <<printer, printing, writerVars, flush, written, before, printed, raced>>

PacketLoggerInit ==
  /\ printer = [p \in Packets |-> "none"]
  /\ printing = [i \in Sessions |-> {}]
  /\ cells = [i \in Sessions |-> <<>>]
  /\ n = [i \in Sessions |-> 0]
  /\ failed = [i \in Sessions |-> FALSE]
  /\ packetFile = [i \in Sessions |-> <<>>]
  /\ flush = [i \in Sessions |-> "none"]
  /\ written = [i \in Sessions |-> 0]
  /\ before = [i \in Sessions |-> 0]
  /\ printed = [i \in Sessions |-> <<>>]
  /\ raced = [i \in Sessions |-> FALSE]

PrinterTo(p, place) == printer' = [printer EXCEPT ![p] = place]

(* What Flush would write.                                                 *)
Buffered(i) == SubSeq(cells[i], 1, n[i])

(* The first k cells are replaced, what is behind them stays.              *)
Overwrite(s, at, line) ==
  [k \in 1..(IF at > Len(s) THEN at ELSE Len(s)) |-> IF k = at THEN line ELSE s[k]]

(* handle: go fileLogger.Printf                                            *)
Handle(p) ==
  /\ PrinterTo(p, "print")
  /\ UNCHANGED <<printing, writerVars, flush, written, before, printed, raced>>

PrintLock(i, p) ==
  /\ printer[p] = "print"
  /\ printing[i] = {}
  /\ printing' = [printing EXCEPT ![i] = {p}]
  /\ raced' = [raced EXCEPT ![i] = @ \/ flush[i] = "written"]
  /\ PrinterTo(p, "write")
  /\ UNCHANGED <<writerVars, flush, written, before, printed>>

(* A full buffer is flushed by Write.                                      *)
WriteFull(i, p) ==
  /\ printer[p] = "write"
  /\ ~failed[i] /\ n[i] = BufferCap
  /\ packetFile' = [packetFile EXCEPT ![i] = @ \o Buffered(i)]
  /\ PrinterTo(p, "full")
  /\ UNCHANGED <<printing, cells, n, failed, flush, written, before, printed, raced>>

WriteReset(i, p) ==
  /\ printer[p] = "full"
  /\ n' = [n EXCEPT ![i] = 0]
  /\ PrinterTo(p, "write")
  /\ UNCHANGED <<printing, cells, failed, packetFile, flush, written, before, printed, raced>>

WriteCopy(i, p) ==
  /\ printer[p] = "write"
  /\ ~failed[i] /\ n[i] < BufferCap
  /\ cells' = [cells EXCEPT ![i] = Overwrite(@, n[i] + 1, p)]
  /\ PrinterTo(p, "copied")
  /\ UNCHANGED <<printing, n, failed, packetFile, flush, written, before, printed, raced>>

PrintReturns(i, p) ==
  /\ printing' = [printing EXCEPT ![i] = {}]
  /\ PrinterTo(p, "done")

WriteCount(i, p) ==
  /\ printer[p] = "copied"
  /\ n' = [n EXCEPT ![i] = @ + 1]
  /\ printed' = [printed EXCEPT ![i] = Append(@, p)]
  /\ PrintReturns(i, p)
  /\ UNCHANGED <<cells, failed, packetFile, flush, written, before, raced>>

WriteFails(i, p) ==
  /\ printer[p] = "write"
  /\ failed[i]
  /\ PrintReturns(i, p)
  /\ UNCHANGED <<writerVars, flush, written, before, printed, raced>>

(* Slip: Shutdown does not call Flush.                                     *)
FlushWrite_None(i) ==
  /\ flush[i] = "none" /\ n[i] > 0
  /\ written' = [written EXCEPT ![i] = n[i]]
  /\ before' = [before EXCEPT ![i] = Len(printed[i])]
  /\ raced' = [raced EXCEPT ![i] = printing[i] # {}]
  /\ flush' = [flush EXCEPT ![i] = "written"]
  /\ UNCHANGED <<printer, printing, writerVars, printed>>

(* Shutdown: buffer.Flush()                                                *)
FlushWrite(i) ==
  /\ flush[i] = "none" /\ n[i] > 0
  /\ packetFile' = [packetFile EXCEPT ![i] = @ \o Buffered(i)]
  /\ written' = [written EXCEPT ![i] = n[i]]
  /\ before' = [before EXCEPT ![i] = Len(printed[i])]
  /\ raced' = [raced EXCEPT ![i] = printing[i] # {}]
  /\ flush' = [flush EXCEPT ![i] = "written"]
  /\ UNCHANGED <<printer, printing, cells, n, failed, printed>>

(* Lines that came to count since are moved to the front, and the writer   *)
(* takes it for a short write, an error that it keeps.                     *)
FlushReset(i) ==
  LET w == written[i]
      more == n[i] > w
  IN  /\ flush[i] = "written"
      /\ failed' = [failed EXCEPT ![i] = more]
      /\ cells' = [cells EXCEPT ![i] =
           IF more THEN SubSeq(@, w + 1, n[i]) \o SubSeq(@, n[i] - w + 1, Len(@)) ELSE @]
      /\ n' = [n EXCEPT ![i] = IF more THEN @ - w ELSE 0]
      /\ flush' = [flush EXCEPT ![i] = "done"]
      /\ UNCHANGED <<printer, printing, packetFile, written, before, printed, raced>>

FlushEmpty(i) ==
  /\ flush[i] = "none" /\ n[i] = 0
  /\ before' = [before EXCEPT ![i] = Len(printed[i])]
  /\ flush' = [flush EXCEPT ![i] = "done"]
  /\ UNCHANGED <<printer, printing, writerVars, written, printed, raced>>

PrintStep(i, p) ==
  \/ PrintLock(i, p) \/ WriteFull(i, p) \/ WriteReset(i, p)
  \/ WriteCopy(i, p) \/ WriteCount(i, p) \/ WriteFails(i, p)

FlushStep(i) == FlushWrite(i) \/ FlushReset(i) \/ FlushEmpty(i)

----------------------------------------------------------------------------
PacketLoggerTypeOK ==
  /\ printer \in [Packets -> {"none", "print", "write", "full", "copied", "done"}]
  /\ printing \in [Sessions -> {{}} \cup {{p} : p \in Packets}]
  /\ cells \in [Sessions -> Seq(Packets)]
  /\ n \in [Sessions -> Nat]
  /\ \A i \in Sessions : n[i] <= Len(cells[i]) /\ Len(cells[i]) <= BufferCap
  /\ failed \in [Sessions -> BOOLEAN]
  /\ packetFile \in [Sessions -> Seq(Packets)]
  /\ flush \in [Sessions -> {"none", "written", "done"}]
  /\ written \in [Sessions -> Nat]
  /\ before \in [Sessions -> Nat]
  /\ printed \in [Sessions -> Seq(Packets)]
  /\ raced \in [Sessions -> BOOLEAN]

(* Once Shutdown has returned, every line printed before its Flush is in   *)
(* the file, in the order of printing and once, even if other lines are    *)
(* printed during the Flush, which may cost or repeat those.  If none was, *)
(* file and buffer together are what was printed.                          *)
LinesKept ==
  \A i \in Sessions :
    /\ flush[i] = "done" =>
         /\ Len(packetFile[i]) >= before[i]
         /\ SubSeq(packetFile[i], 1, before[i]) = SubSeq(printed[i], 1, before[i])
    /\ ~raced[i] /\ printing[i] = {} /\ flush[i] # "written" =>
         packetFile[i] \o Buffered(i) = printed[i]
=============================================================================
