---------------------------- MODULE ChatProtocol ----------------------------
(***************************************************************************)
(* How the master collects the logs of a client: chatToclient and          *)
(* saveToFile of V2.0/server/server.c against listenServer, sendAllFile    *)
(* and sendFile of V2.0/client/client.c, over one TCP connection.          *)
(*                                                                         *)
(* For each of the LogCount logs the master sends the log's name, reads an *)
(* answer, and after an OK sends "give me" and takes bytes until the end   *)
(* marker.  Neither side checks what recv and send return beyond the sign, *)
(* so each goes through all its logs whatever becomes of the other one;    *)
(* and neither ignores SIGPIPE.  Processes may end at any time, the        *)
(* client's may be started again.                                          *)
(*                                                                         *)
(* A message is one item of a stream and is received whole: 1048 bytes,    *)
(* never more than one in flight.  What a log holds is a sequence of       *)
(* blocks, each what one fread fills `line` with: text, or nothing up to   *)
(* the first NUL, of which work() writes many.  A block without a NUL is   *)
(* sent with what stands behind line; Block(n) is all of that, and holds   *)
(* no end marker: with n = 1024 behind line, as built for the Raspberry    *)
(* Pi, it is the block alone (LogRotation looks at what may be read on).   *)
(***************************************************************************)
EXTENDS Naturals, Sequences, SequencesExt

CONSTANTS
  LogCount,   \* logs asked for in a conversation (6 in the code)
  MaxBlocks,  \* bound: blocks of a log
  CharSigned  \* whether the master's char is signed

ASSUME ChatAssumption ==
  LogCount \in Nat \ {0} /\ MaxBlocks \in Nat /\ CharSigned \in BOOLEAN

VARIABLES
  master,  \* chatToclient: pc, and the log i it is at
  client,  \* listenServer: pc, log i, blocks read of it, and `line`
  wire,    \* the connection between them
  \* What follows is history: no guard reads it.
  saved,   \* what this conversation appended to the master's file of a log
  read,    \* the texts the client read from that log, and what line holds then
  lost     \* a process ended in this conversation

vars == <<master, client, wire, saved, read, lost>>

Logs == 0 .. LogCount - 1
Sides == {"master", "client"}
Peer(s) == IF s = "master" THEN "client" ELSE "master"

Name(i) == [is |-> "name", of |-> i]
OK == [is |-> "OK", of |-> 0]
Wrong == [is |-> "wrong", of |-> 0]
GiveMe == [is |-> "give me", of |-> 0]
Block(n) == [is |-> "block", of |-> n]
EOT == [is |-> "EOT", of |-> 0]
Blocks == {Block(n) : n \in 1 .. MaxBlocks}
Items == {Name(i) : i \in Logs} \cup {OK, Wrong, GiveMe, EOT} \cup Blocks

\* A block without text (0) leaves nothing to send.
NothingRead == [texts |-> <<>>, line |-> 0]
ReadOn(r, text) ==
  [texts |-> IF text = 0 THEN r.texts ELSE Append(r.texts, Block(text)), line |-> text]

-----------------------------------------------------------------------------
(* The connection.  in[s] is what s has yet to receive; held, the sides    *)
(* whose end is open; net[s], whether a reset is on its way to s           *)
(* ("doomed"), is there and unreported ("reset"), or has been ("broken").  *)

Fresh == [in |-> [s \in Sides |-> <<>>], held |-> Sides,
          net |-> [s \in Sides |-> "fine"]]

\* One end is closed, by close or because its process ends.  Leaving data
\* unread resets the other end; so does leaving the connection unaccepted.
Left(w, s, rudely) ==
  [in |-> [w.in EXCEPT ![s] = <<>>],
   held |-> w.held \ {s},
   net |-> IF rudely /\ Sides \subseteq w.held /\ w.net[Peer(s)] = "fine"
             THEN [w.net EXCEPT ![Peer(s)] = "reset"] ELSE w.net]
Closed(w, s) == Left(w, s, w.in[s] # <<>>)

\* send.  To a peer that is gone it succeeds and provokes a reset; after a
\* reset it fails, once if nothing has reported the reset yet.
Sent(w, s, item) ==
  CASE w.net[s] = "reset" -> [w EXCEPT !.net[s] = "broken"]
    [] Peer(s) \in w.held -> [w EXCEPT !.in[Peer(s)] = Append(@, item)]
    [] OTHER -> [w EXCEPT !.net[s] = "doomed"]

\* Another send raises SIGPIPE.
Raises(s) == wire.net[s] = "broken"

\* recv: the next item if there is one; nothing (0 or -1) if none can come.
CanTake(s) == wire.in[s] # <<>>
Next1(s) == Head(wire.in[s])
Taken(s) == [wire EXCEPT !.in[s] = Tail(@)]

NoneComes(s) ==
  wire.in[s] = <<>> /\ (Peer(s) \notin wire.held \/ wire.net[s] \in {"reset", "broken"})
Told(s) == [wire EXCEPT !.net[s] = IF @ = "reset" THEN "broken" ELSE @]

\* recv blocks.
Waits(s) == ~CanTake(s) /\ ~NoneComes(s)

ResetArrives(s) ==
  /\ wire.net[s] = "doomed"
  /\ wire' = [wire EXCEPT !.net[s] = "broken"]
  /\ UNCHANGED <<master, client, saved, read, lost>>

-----------------------------------------------------------------------------
(* The master. *)

MasterAt(pc) == master' = [master EXCEPT !.pc = pc]

\* Mutant: <= in the condition of the for loop.
MasterNextBeyond(w) ==
  IF master.i < LogCount
    THEN master' = [pc |-> "ask", i |-> master.i + 1] /\ wire' = w
    ELSE master' = [pc |-> "sleep", i |-> 0] /\ wire' = Closed(w, "master")

\* The end of the for loop over the logs, on connection w.
MasterNext(w) ==
  IF master.i + 1 < LogCount
    THEN master' = [pc |-> "ask", i |-> master.i + 1] /\ wire' = w
    ELSE master' = [pc |-> "sleep", i |-> 0] /\ wire' = Closed(w, "master")

\* work, woken after 300 seconds, calls chatToclient; connect succeeds while
\* the client's process listens, and otherwise chatToclient gives up.
Connect ==
  /\ master.pc = "sleep" /\ client.pc # "dead"
  /\ MasterAt("ask") /\ wire' = Fresh
  /\ saved' = [i \in Logs |-> <<>>] /\ read' = [i \in Logs |-> NothingRead]
  /\ lost' = FALSE
  /\ UNCHANGED client

MasterSends(item, pc) ==
  /\ ~Raises("master")
  /\ MasterAt(pc) /\ wire' = Sent(wire, "master", item)
  /\ UNCHANGED <<client, saved, read, lost>>

AskName == master.pc = "ask" /\ MasterSends(Name(master.i), "answer")
AskFile == master.pc = "give" /\ MasterSends(GiveMe, "save")

\* SIGPIPE ends the process.
MasterKilled ==
  /\ master.pc \in {"ask", "give"} /\ Raises("master")
  /\ MasterAt("killed") /\ wire' = Closed(wire, "master") /\ lost' = TRUE
  /\ UNCHANGED <<client, saved, read>>

ReadAnswer ==
  /\ master.pc = "answer" /\ CanTake("master")
  /\ IF Next1("master") = OK
       THEN MasterAt("give") /\ wire' = Taken("master")
       ELSE MasterNext(Taken("master"))
  /\ UNCHANGED <<client, saved, read, lost>>

\* The master finds its own message where the answer should be.
ReadNoAnswer ==
  /\ master.pc = "answer" /\ NoneComes("master")
  /\ MasterNext(Told("master"))
  /\ UNCHANGED <<client, saved, read, lost>>

\* Mutant: the end marker is stored like any other byte.
EndsNever(item) == FALSE

\* The end marker, a char of value EOF, is found only if char is signed.
Ends(item) == item = EOT /\ CharSigned

\* Mutant: if in place of while.
SaveOnce ==
  /\ master.pc = "save" /\ CanTake("master") /\ ~Ends(Next1("master"))
  /\ saved' = [saved EXCEPT ![master.i] = Append(@, Next1("master"))]
  /\ MasterNext(Taken("master"))
  /\ UNCHANGED <<client, read, lost>>

Save ==
  /\ master.pc = "save" /\ CanTake("master") /\ ~Ends(Next1("master"))
  /\ saved' = [saved EXCEPT ![master.i] = Append(@, Next1("master"))]
  /\ wire' = Taken("master")
  /\ UNCHANGED <<master, client, read, lost>>

SaveEnds ==
  /\ master.pc = "save" /\ CanTake("master") /\ Ends(Next1("master"))
  /\ MasterNext(Taken("master"))
  /\ UNCHANGED <<client, saved, read, lost>>

\* Mutant: >= 0 in the condition of the while loop.
SaveLostAgain ==
  /\ master.pc = "save" /\ NoneComes("master")
  /\ MasterAt("save") /\ wire' = Told("master")
  /\ UNCHANGED <<client, saved, read, lost>>

SaveLost ==
  /\ master.pc = "save" /\ NoneComes("master")
  /\ MasterNext(Told("master"))
  /\ UNCHANGED <<client, saved, read, lost>>

\* The master's process ends for a reason of its own.
MasterExits ==
  /\ master.pc \notin {"sleep", "killed", "exited"}
  /\ MasterAt("exited") /\ wire' = Closed(wire, "master") /\ lost' = TRUE
  /\ UNCHANGED <<client, saved, read>>

-----------------------------------------------------------------------------
(* The client. *)

ClientAt(pc) == client' = [client EXCEPT !.pc = pc]
Idle(pc) == [pc |-> pc, i |-> 0, n |-> 0, line |-> 0]

\* The end of the for loop over the logs, on connection w.
ClientNext(w) ==
  IF client.i + 1 < LogCount
    THEN client' = [Idle("request") EXCEPT !.i = client.i + 1] /\ wire' = w
    ELSE client' = Idle("accept") /\ wire' = Closed(w, "client")

\* A connection that was closed again before is accepted all the same.
Accept ==
  /\ client.pc = "accept" /\ "client" \in wire.held
  /\ ClientAt("request")
  /\ UNCHANGED <<master, wire, saved, read, lost>>

\* Of the log asked for there is a file, or not (the first one is yet to be
\* written, or it has been rotated away).
ReadRequest ==
  /\ client.pc = "request" /\ CanTake("client")
  /\ \E answer \in {"ok", "wrong"} :
       ClientAt(IF Next1("client").is = "name" THEN answer ELSE "wrong")
  /\ wire' = Taken("client")
  /\ UNCHANGED <<master, saved, read, lost>>

\* msg still holds the last answer or command, which names no log.
ReadNoRequest ==
  /\ client.pc = "request" /\ NoneComes("client")
  /\ ClientAt("wrong") /\ wire' = Told("client")
  /\ UNCHANGED <<master, saved, read, lost>>

AnswerOK ==
  /\ client.pc = "ok" /\ ~Raises("client")
  /\ ClientAt("command") /\ wire' = Sent(wire, "client", OK)
  /\ UNCHANGED <<master, saved, read, lost>>

\* Mutant: without the continue.
AnswerWrongGoesOn ==
  /\ client.pc = "wrong" /\ ~Raises("client")
  /\ ClientAt("command") /\ wire' = Sent(wire, "client", Wrong)
  /\ UNCHANGED <<master, saved, read, lost>>

AnswerWrong ==
  /\ client.pc = "wrong" /\ ~Raises("client")
  /\ ClientNext(Sent(wire, "client", Wrong))
  /\ UNCHANGED <<master, saved, read, lost>>

ReadCommand ==
  /\ client.pc = "command" /\ CanTake("client")
  /\ IF Next1("client") = GiveMe
       THEN ClientAt("send") /\ wire' = Taken("client")
       ELSE ClientNext(Taken("client"))
  /\ UNCHANGED <<master, saved, read, lost>>

ReadNoCommand ==
  /\ client.pc = "command" /\ NoneComes("client")
  /\ ClientNext(Told("client"))
  /\ UNCHANGED <<master, saved, read, lost>>

\* sendFile's send of the text of line, of which there may be none.  One that
\* fails ends sendFile without the marker.
SendsLine(text, then) ==
  /\ ~Raises("client")
  /\ IF wire.net["client"] = "reset"
       THEN ClientNext(Told("client"))
       ELSE /\ client' = then
            /\ wire' = IF text = 0 THEN wire ELSE Sent(wire, "client", Block(text))

SendBlock ==
  /\ client.pc = "send" /\ client.n < MaxBlocks
  /\ \E text \in {0, client.n + 1} :
       /\ read' = [read EXCEPT ![client.i] = ReadOn(@, text)]
       /\ SendsLine(text, [client EXCEPT !.n = @ + 1, !.line = text])
  /\ UNCHANGED <<master, saved, lost>>

\* At the end of the file fread leaves line as it is, and what it holds is
\* sent once more before the marker.
SendLast ==
  /\ client.pc = "send"
  /\ SendsLine(client.line, [client EXCEPT !.pc = "mark"])
  /\ UNCHANGED <<master, saved, read, lost>>

\* Mutant: the file ends without the marker.
SendMarkForgotten ==
  /\ client.pc = "mark" /\ ~Raises("client")
  /\ ClientNext(wire)
  /\ UNCHANGED <<master, saved, read, lost>>

SendMark ==
  /\ client.pc = "mark" /\ ~Raises("client")
  /\ ClientNext(Sent(wire, "client", EOT))
  /\ UNCHANGED <<master, saved, read, lost>>

ClientEnds ==
  /\ client' = Idle("dead") /\ lost' = TRUE
  /\ wire' = Left(wire, "client", wire.in["client"] # <<>> \/ client.pc = "accept")
  /\ UNCHANGED <<master, saved, read>>

\* SIGPIPE ends the process.
ClientKilled ==
  /\ client.pc \in {"ok", "wrong", "send", "mark"} /\ Raises("client")
  /\ ClientEnds

\* Where a log has been rotated, sendAllFile looks for what tar has unpacked
\* in a place it never unpacks to, and before it sends anything of the log
\* itself reads from the NULL it gets.
ClientBackup == client.pc = "send" /\ client.n = 0 /\ ClientEnds

ClientExits == client.pc # "dead" /\ ClientEnds

ClientStarts ==
  /\ client.pc = "dead"
  /\ client' = Idle("accept")
  /\ UNCHANGED <<master, wire, saved, read, lost>>

-----------------------------------------------------------------------------
Init ==
  /\ master = [pc |-> "sleep", i |-> 0]
  /\ client = Idle("accept")
  /\ wire = Closed(Closed(Fresh, "client"), "master")
  /\ saved = [i \in Logs |-> <<>>] /\ read = [i \in Logs |-> NothingRead]
  /\ lost = FALSE

MasterStep ==
  \/ AskName \/ ReadAnswer \/ ReadNoAnswer \/ AskFile
  \/ Save \/ SaveEnds \/ SaveLost \/ MasterKilled

ClientStep ==
  \/ Accept \/ ReadRequest \/ ReadNoRequest \/ AnswerOK \/ AnswerWrong
  \/ ReadCommand \/ ReadNoCommand \/ SendBlock \/ SendLast \/ SendMark
  \/ ClientKilled \/ ClientBackup

Faults == MasterExits \/ ClientExits \/ ClientStarts

Next ==
  \/ Connect \/ MasterStep \/ ClientStep \/ Faults
  \/ \E s \in Sides : ResetArrives(s)

Spec == Init /\ [][Next]_vars

\* Threads that can run do, and a reset that is on its way arrives.  Nothing
\* makes anybody wake, end or start again.
FairSpec ==
  /\ Spec
  /\ WF_vars(MasterStep) /\ WF_vars(ClientStep)
  /\ \A s \in Sides : WF_vars(ResetArrives(s))

-----------------------------------------------------------------------------
(* Properties *)

(***************************************************************************)
(* Every part of the state holds what the code can put there.              *)
(***************************************************************************)
TypeOK ==
  /\ master \in [pc : {"sleep", "ask", "answer", "give", "save", "killed", "exited"},
                 i : Logs]
  /\ client \in [pc : {"accept", "request", "ok", "wrong", "command", "send",
                       "mark", "dead"},
                 i : Logs, n : 0 .. MaxBlocks, line : 0 .. MaxBlocks]
  /\ wire \in [in : [Sides -> Seq(Items)], held : SUBSET Sides,
               net : [Sides -> {"fine", "doomed", "reset", "broken"}]]
  /\ saved \in [Logs -> Seq(Items)]
  /\ read \in [Logs -> [texts : Seq(Blocks), line : 0 .. MaxBlocks]]
  /\ lost \in BOOLEAN

(***************************************************************************)
(* The two loops stay in step although neither looks at where the other    *)
(* is: what the client takes for a request names the log it is at, what it *)
(* takes for a command is "give me", what the master takes for an answer   *)
(* is one, and when the master comes back the listener is free.  So it is  *)
(* even if either process ends between two messages.                       *)
(***************************************************************************)
InStep ==
  /\ client.pc = "request" /\ CanTake("client") => Next1("client") = Name(client.i)
  /\ client.pc = "command" /\ CanTake("client") => Next1("client") = GiveMe
  /\ master.pc = "answer" /\ CanTake("master") => Next1("master") \in {OK, Wrong}
  /\ master.pc = "sleep" => client.pc \in {"accept", "dead"}

(***************************************************************************)
(* Master and client are never both in a recv that waits for the other:    *)
(* neither has a timeout.                                                  *)
(***************************************************************************)
NeverBothWait ==
  ~ /\ master.pc \in {"answer", "save"} /\ Waits("master")
    /\ client.pc \in {"request", "command"} /\ Waits("client")

\* What a log that was read becomes on the wire.
Transmission(r) == IF r.line = 0 THEN r.texts ELSE Append(r.texts, Block(r.line))

(***************************************************************************)
(* What the master appends to its file of a log is, at every moment, the   *)
(* beginning of what the client has read from that very log: no block is   *)
(* left out, out of order or in another log's file, and no message or end  *)
(* marker is taken for a block, whichever process ends and when.           *)
(***************************************************************************)
SavedInOrder == \A i \in Logs : IsPrefix(saved[i], Transmission(read[i]))

(***************************************************************************)
(* While both processes live, a log the master has gone past is saved      *)
(* whole: all its text, the last block twice if it held text (sendFile     *)
(* sends line again at the end of the file).                               *)
(***************************************************************************)
SavedWhole ==
  ~lost => \A i \in Logs : (i < master.i \/ master.pc = "sleep")
                               => saved[i] = Transmission(read[i])

(***************************************************************************)
(* The worker comes back from every conversation to the rest of its list,  *)
(* and the client to accept, or their process has ended: neither is held   *)
(* up for ever by the other, at whatever point that one may end.           *)
(***************************************************************************)
ConversationsEnd ==
  /\ []<>(master.pc \in {"sleep", "killed", "exited"})
  /\ []<>(client.pc \in {"accept", "dead"})

(***************************************************************************)
(* sendMessage reports a failing send with perror and -1 and chatToclient  *)
(* goes on to the next log: a client that ends does not end the master.    *)
(***************************************************************************)
MasterSurvives == master.pc # "killed"

=============================================================================
