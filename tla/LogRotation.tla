---------------------------- MODULE LogRotation ----------------------------
(***************************************************************************)
(* One of the six measuring processes of a client (work in                 *)
(* V2.0/client/client.c) and the listener that sends its log to the master *)
(* at the same time (sendFile).  The process appends what the script       *)
(* prints to a buffer of text, writes the whole buffer to the log after a  *)
(* few measurements, and once the log is too big has tar copy it to an     *)
(* archive and removes it.  The two share nothing but the file system.     *)
(*                                                                         *)
(* A cell stands for a stretch of characters and holds the number of the   *)
(* line they belong to; 0 is a NUL character.  A line is what strcat       *)
(* appends after one run of the script: what it printed, or, if that fills *)
(* temp to the end and leaves no NUL in it, the first of it and what       *)
(* stands behind temp in memory.  strcat puts a NUL behind the text, and   *)
(* what earlier, longer texts left behind that NUL is written to the log   *)
(* with it.  The listener reads blocks and sends each up to its first NUL, *)
(* which for a block that has none may stand beyond the block; what it     *)
(* sends at the end of the file, and on which connection, is in            *)
(* ChatProtocol.                                                           *)
(***************************************************************************)
EXTENDS Naturals, Sequences, FiniteSets

CONSTANTS
  BuffCells,   \* the size of buff (4096 characters in the code)
  BlockCells,  \* the size of line in sendFile (1024)
  TempCells,   \* the size of temp (400)
  OutputCells, \* how much a script may print: nothing, or any amount
  Behind,      \* how much text may stand behind temp up to a NUL (in the
               \* build kept in V2.0/client, commond with its fewer than 200)
  Beyond,      \* whether text may stand behind line before a NUL; {FALSE} in
               \* that build, where n = 1024, which begins with a NUL, does
  PerFlush,    \* the measurements between two flushes (5 or 1)
  BigSize,     \* the flushes a log may hold (300 MB)
  MaxLines,    \* bound: the measurements
  MaxStarts    \* bound: the times the process is started again

ASSUME SizesAssumption ==
  /\ TempCells \in Nat /\ OutputCells \subseteq Nat
  /\ Behind \subseteq Nat /\ Beyond \subseteq BOOLEAN
  /\ PerFlush \in Nat \ {0} /\ BlockCells \in Nat \ {0}
  /\ BuffCells \in Nat /\ BuffCells % BlockCells = 0
  /\ BigSize \in Nat /\ MaxLines \in Nat /\ MaxStarts \in Nat

\* Between two flushes there is room in buff for a full temp and what stands
\* behind it every time, whatever the scripts print (5 * (400 + 199) < 4096).
ASSUME RoomAssumption ==
  \E k \in TempCells .. BuffCells : /\ PerFlush * k < BuffCells
                                    /\ \A t \in Behind : TempCells + t <= k

VARIABLES
  pc,      \* the place of the process in its loop
  n,       \* the measurements since the last flush
  buff,    \* its buffer
  log,     \* the flushes in the log, or Missing
  archive, \* the logs tar has put away
  reader,  \* the listener: the log it has open, how many blocks it has read
           \* of it, what it has sent of them, and where in that it has sent
           \* text from beyond a block
  starts,  \* how often the process has been started again
  \* What follows is history: no guard but the bound reads it.
  line,    \* the lines measured so far, and the length of each
  held,    \* the lines whose text is in the buffer
  lost     \* the lines of logs tar could not put away, and those in the
           \* buffer of a process that was stopped

process == <<pc, n, buff, held, line>>
vars == <<process, log, archive, reader, starts, lost>>

\* A log that exists has a flush in it: whoever creates it writes to it.
Missing == <<>>
Closed == [file |-> "none", text |-> <<>>, at |-> 0, sent |-> <<>>, strays |-> {}]

Empty == [i \in 1 .. BuffCells |-> 0]

Init ==
  /\ pc = "measure" /\ n = 0 /\ buff = Empty
  /\ log = Missing /\ archive = {}
  /\ reader = Closed
  /\ starts = 0
  /\ line = <<>> /\ held = {} /\ lost = {}

-----------------------------------------------------------------------------
(* The measuring process *)

\* Where the text of the buffer ends: its first NUL.
TextEnd(b) == CHOOSE i \in 0 .. Len(b) : /\ \A j \in 1 .. i : b[j] # 0
                                         /\ i < Len(b) => b[i + 1] = 0

\* strcat of line x of k cells.
Strcat(b, x, k) ==
  LET end == TextEnd(b)
  IN [i \in DOMAIN b |-> IF i \in end + 1 .. end + k THEN x
                         ELSE IF i = end + k + 1 THEN 0 ELSE b[i]]

\* How much strcat appends when the script has printed k cells and t stand
\* behind temp: fread leaves a NUL in temp only if it does not fill it.
Appended(k, t) == IF k < TempCells THEN k ELSE TempCells + t

Measure(k, t) ==
  /\ pc = "measure" /\ Len(line) < MaxLines
  /\ line' = Append(line, Appended(k, t))
  /\ buff' = Strcat(buff, Len(line) + 1, Appended(k, t))
  /\ held' = held \union {Len(line) + 1}
  /\ n' = n + 1
  /\ pc' = IF n + 1 = PerFlush THEN "flush" ELSE "measure"
  /\ UNCHANGED <<log, archive, reader, starts, lost>>

\* What is written is appended to the log; open's O_CREAT makes one.
Written(b) == log' = Append(log, [cells |-> b, lines |-> held])

Emptied == [buff EXCEPT ![1] = 0]

\* Mutant: the buffer is not emptied.
FlushKept ==
  /\ pc = "flush" /\ pc' = "test"
  /\ Written(buff)
  /\ held' = {} /\ n' = 0
  /\ UNCHANGED <<buff, line, archive, reader, starts, lost>>

\* Mutant: the buffer is emptied before it is written.
FlushEmptied ==
  /\ pc = "flush" /\ pc' = "test"
  /\ Written(Emptied) /\ buff' = Emptied
  /\ held' = {} /\ n' = 0
  /\ UNCHANGED <<line, archive, reader, starts, lost>>

\* fwrite of all of buff, which reaches the file at once; then buff[0] = 0.
Flush ==
  /\ pc = "flush" /\ pc' = "test"
  /\ Written(buff) /\ buff' = Emptied
  /\ held' = {} /\ n' = 0
  /\ UNCHANGED <<line, archive, reader, starts, lost>>

\* get_file_size: a log that cannot be found counts as the largest there is.
TooBig == log = Missing \/ Len(log) > BigSize

Test ==
  /\ pc = "test" /\ pc' = (IF TooBig THEN "tar" ELSE "measure")
  /\ UNCHANGED <<n, buff, held, line, log, archive, reader, starts, lost>>

\* Mutant: nobody waits for tar, which finds the log gone.
TarLate ==
  /\ pc = "tar" /\ pc' = "remove"
  /\ archive' = archive \union {<<>>}
  /\ UNCHANGED <<n, buff, held, line, log, reader, starts, lost>>

Tar ==
  /\ pc = "tar" /\ pc' = "remove"
  /\ archive' = archive \union {log}
  /\ UNCHANGED <<n, buff, held, line, log, reader, starts, lost>>

LinesOf(l) == UNION {l[i].lines : i \in DOMAIN l}

\* tar cannot write the archive; nobody looks at what pclose returns.
TarFails ==
  /\ pc = "tar" /\ pc' = "remove"
  /\ lost' = lost \union LinesOf(log)
  /\ UNCHANGED <<n, buff, held, line, log, archive, reader, starts>>

\* A listener that has the log open keeps the file.
Remove ==
  /\ pc = "remove" /\ pc' = "measure"
  /\ log' = Missing
  /\ reader' = IF reader.file = "log" THEN [reader EXCEPT !.file = "removed", !.text = log]
                                      ELSE reader
  /\ UNCHANGED <<n, buff, held, line, archive, starts, lost>>

\* The machine goes down, or the process is killed, and is started again.
StartsAgain ==
  /\ starts < MaxStarts /\ starts' = starts + 1
  /\ pc' = "measure" /\ n' = 0 /\ buff' = Empty /\ held' = {}
  /\ lost' = lost \union held
  /\ reader' = Closed
  /\ UNCHANGED <<line, log, archive>>

-----------------------------------------------------------------------------
(* The listener *)

Open ==
  /\ reader = Closed /\ log # Missing
  /\ reader' = [Closed EXCEPT !.file = "log"]
  /\ UNCHANGED <<process, log, archive, starts, lost>>

\* The flushes of the file the listener has open.
Opened == IF reader.file = "log" THEN log ELSE reader.text

BlocksPerFlush == BuffCells \div BlockCells

AtEnd == reader.at = Len(Opened) * BlocksPerFlush

\* Block i of a file, counted from 0.
Block(f, i) ==
  LET from == (i % BlocksPerFlush) * BlockCells
  IN SubSeq(f[i \div BlocksPerFlush + 1].cells, from + 1, from + BlockCells)

\* What sendFile sends of a block.
Text(b) == SubSeq(b, 1, TextEnd(b))

\* strlen of a block without a NUL reads on behind line.
ReadBlock ==
  /\ reader.file # "none" /\ ~AtEnd
  /\ LET b == Block(Opened, reader.at)
         now == reader.sent \o Text(b)
     IN \E more \in Beyond :
          reader' = [reader EXCEPT !.at = @ + 1, !.sent = now,
                       !.strays = IF more /\ TextEnd(b) = BlockCells THEN @ \union {Len(now)}
                                                                     ELSE @]
  /\ UNCHANGED <<process, log, archive, starts, lost>>

ReadEnds ==
  /\ reader.file # "none" /\ AtEnd
  /\ reader' = Closed
  /\ UNCHANGED <<process, log, archive, starts, lost>>

-----------------------------------------------------------------------------
Next ==
  \/ \E k \in OutputCells, t \in Behind : Measure(k, t)
  \/ Flush \/ Test \/ Tar \/ TarFails \/ Remove \/ StartsAgain
  \/ Open \/ ReadBlock \/ ReadEnds

Spec == Init /\ [][Next]_vars

-----------------------------------------------------------------------------
(* Correctness *)

Lines == 1 .. Len(line)

\* Every variable holds a value of its type, and the text of the buffer
\* never reaches its last character, which strcat needs, although the last
\* thing it appends may be more than temp holds.
TypeOK ==
  /\ pc \in {"measure", "flush", "test", "tar", "remove"}
  /\ n \in 0 .. PerFlush /\ n = Cardinality(held)
  /\ buff \in [1 .. BuffCells -> 0 .. Len(line)]
  /\ TextEnd(buff) < BuffCells
  /\ LinesOf(log) \subseteq Lines
  /\ pc = "test" => log # Missing
  /\ reader.file \in {"none", "log", "removed"}

\* Every line that was measured is in the buffer, in the log or in an
\* archive, wherever the process is stopped and started again; the lines of
\* a stopped process's buffer are gone, and those of a log that tar failed
\* to put away may be. Only between tar and remove, or if the process was
\* stopped there, is a line in two places.
LinesKept ==
  LET archived == UNION {LinesOf(l) : l \in archive}
  IN /\ Lines \subseteq held \union LinesOf(log) \union archived \union lost
     /\ held \cap (LinesOf(log) \union archived) = {}
     /\ LinesOf(log) \cap archived # {} => pc = "remove" \/ starts > 0

\* Line x is somewhere in s, all of it.
Whole(x, s) == \E j \in 0 .. Len(s) - line[x] :
                  \A i \in 1 .. line[x] : s[j + i] = x

\* A listener that has read a flush has sent all of its lines, and each for
\* the first time after those measured before it, although the process
\* appends to the file meanwhile, or removes it, although what is sent of a
\* block ends at its first NUL, and although old text is sent again. Where
\* text from beyond a block has come in between, that is a whole block or
\* more after the last time: no line up to that size is torn twice.
SentWhole ==
  LET due == UNION {Opened[i].lines : i \in 1 .. reader.at \div BlocksPerFlush}
  IN /\ \A x \in due :
          /\ Whole(x, reader.sent)
          /\ \A y \in due : line[x] # 0 /\ x < y =>
               \E j \in DOMAIN reader.sent :
                 reader.sent[j] = x /\ \A i \in 1 .. j : reader.sent[i] # y
     /\ \A p, q \in reader.strays : p < q => q - p >= BlockCells
=============================================================================
